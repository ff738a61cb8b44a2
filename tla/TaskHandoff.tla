----------------------------- MODULE TaskHandoff -----------------------------
(* A registered task as the source of a tool's program (product_studio/        *)
(* task_source_*.rs, product_sources/): the worker hands one authorized request *)
(* to an external author through a job directory, the author edits the task's   *)
(* worktree and submits with a command of the same program, and the worker takes *)
(* the completion in and makes a checked review of it.                          *)
(*                                                                             *)
(* A capture compares the source's fingerprint before and after it reads, so it  *)
(* is taken at one moment; the watcher's last capture is used only while it is    *)
(* fresh, so it is the source. terminal_write_blocked and the attempts already     *)
(* made only keep the worker from trying again; here it may.                     *)
EXTENDS Naturals

CONSTANTS
    MaxSource,      \* the versions of the worktree
    MaxRequest,     \* bound on the requests
    MaxBasis,       \* bound on the tool's saved revisions
    MaxTask,        \* bound on the times the task's identity is registered
    MaxLosses       \* bound on the restarts

Sources == 1 .. MaxSource
Requests == 1 .. MaxRequest
Bases == 1 .. MaxBasis

VARIABLES
    record, recordLeft,     \* session.json, and what a power loss may leave of it
    value, blocked,         \* the host's own copy, and whether its writes are paused
    job, completion,        \* the job directories: the request's file and complete.json
    source,                 \* the task's worktree
    task, registered,       \* the task's identity in the registry, and whether it is there
    tool, shown,            \* the tool's saved revision, and the one the host has open
    flow,                   \* the state of the external intake
    asked,                  \* for each request, the source and the basis it is about
    ready,                  \* the request whose consent is shown (0: none)
    queued,                 \* the checked review that is ready
    done,                   \* the completed request the host keeps (0: none)
    pc, operand,            \* what the worker does, and for which request and source
    author,                 \* the author's command: its request, and what it captured
    launched, fate,         \* ghost: authors started, and what became of each request
    submitted,              \* ghost: the last completion published for each request
    losses

journal == <<record, recordLeft, value, blocked>>
jobs == <<job, completion, submitted>>
registry == <<task, registered>>
saves == <<tool, shown>>
work == <<pc, operand>>
taskHandoff == <<journal, jobs, source, registry, saves, flow, asked, ready, queued, done,
                 work, author, launched, fate, losses>>

\* TaskAssociation: the pinned task (0: none is linked), the pending request with its ticket
\* and launch, and the completed request with its capture.
Links == [task : 0 .. MaxTask, external : 0 .. MaxRequest, ticket : BOOLEAN,
          launch : BOOLEAN, completed : 0 .. MaxRequest, capture : 0 .. MaxSource]
Linked(t) == [task |-> t, external |-> 0, ticket |-> FALSE, launch |-> FALSE,
              completed |-> 0, capture |-> 0]
NoReview == [request |-> 0, source |-> 0, basis |-> 0]
NoWork == [request |-> 0, source |-> 0]

Init ==
    /\ record = Linked(0) /\ recordLeft = {record} /\ value = record /\ blocked = FALSE
    /\ job = [r \in Requests |-> "none"] /\ completion = [r \in Requests |-> 0]
    /\ source = 1 /\ task = 1 /\ registered = TRUE /\ tool = 1 /\ shown = 1
    /\ flow = "none" /\ asked = [r \in Requests |-> NoReview] /\ ready = 0
    /\ queued = NoReview /\ done = 0 /\ pc = "home" /\ operand = NoWork /\ author = NoWork
    /\ launched = {} /\ fate = [r \in Requests |-> "open"]
    /\ submitted = [r \in Requests |-> 0] /\ losses = 0

\* JournalFile::write: an error leaves the host's copy as it was, and blocks later writes.
Written(new) ==
    /\ ~ blocked /\ record' = new /\ recordLeft' = {new} /\ value' = new
    /\ UNCHANGED blocked
WriteFails(new) ==
    /\ record' \in IF blocked THEN {record} ELSE {record, new}
    /\ recordLeft' = recordLeft \cup {record'} /\ blocked' = TRUE
    /\ UNCHANGED value

\* registered_task: the task the link pins is still registered, where it was.
Registered(link) == registered /\ link.task = task
\* TaskSourceAdapter::capture: the source of a task that is still the one linked (0: none).
Captured(link) == IF Registered(link) THEN source ELSE 0
\* ensure_fresh: a new capture of the task equals this one.
Fresh(s) == s # 0 /\ Captured(value) = s
\* check_request: the job directory holds the request as it was written.
Bundle(r, at) == at[r] = "request"
Home == pc = "home"
Rests == pc' = "home" /\ operand' = NoWork

-----------------------------------------------------------------------------
(* Links and reviews. *)

\* link_task: only without a pending request; the identity is pinned, the rest starts anew.
LinkTask ==
    /\ Home /\ ~ blocked /\ value.external = 0 /\ registered /\ value.task # task
    /\ \/ /\ Written(Linked(task))
          /\ flow' = "none" /\ done' = 0 /\ queued' = NoReview /\ ready' = 0
       \/ WriteFails(Linked(task)) /\ UNCHANGED <<flow, done, queued, ready>>
    /\ UNCHANGED <<jobs, source, registry, saves, asked, work, author, launched, fate, losses>>

\* queue_task_review: on the saved work that is open and, for a request, only on the saved work
\* that request was about.
OnBasis(r) == tool = shown /\ (r # 0 => asked[r].basis = tool)
BeginsReview(r, s) ==
    /\ queued' = NoReview
    /\ IF OnBasis(r) /\ Fresh(s)
       THEN pc' = "analyzing" /\ operand' = [request |-> r, source |-> s]
       ELSE Rests

\* The copied work is analyzed; the source must be fresh again, and nobody has cancelled.
EndsReview ==
    /\ pc = "analyzing" /\ Rests
    /\ \/ /\ Fresh(operand.source)
          /\ queued' = [request |-> operand.request, source |-> operand.source,
                        basis |-> shown]
       \/ UNCHANGED queued
    /\ UNCHANGED <<journal, jobs, source, registry, saves, flow, asked, ready, done, author,
                   launched, fate, losses>>

\* poll_task with no task there, or with edits past a completed request or new saved work:
\* the review is stale.
Stale ==
    \/ ~ Registered(value)
    \/ /\ done # 0 /\ value.external = 0
       /\ source # value.capture \/ shown # asked[done].basis \/ queued.request # done
PollsStale ==
    /\ Home /\ queued # NoReview /\ Stale /\ queued' = NoReview
    /\ UNCHANGED <<journal, jobs, source, registry, saves, flow, asked, ready, done, work,
                   author, launched, fate, losses>>

\* poll_task without a request: the source is reviewed as ordinary edits.
PollsOrdinary ==
    /\ Home /\ value.external = 0 /\ Registered(value) /\ done = 0
    /\ flow \notin {"cancelled", "rejected"}
    /\ queued # [request |-> 0, source |-> source, basis |-> shown]
    /\ BeginsReview(0, source)
    /\ UNCHANGED <<journal, jobs, source, registry, saves, flow, asked, ready, done, author,
                   launched, fate, losses>>

\* ExternalHandoff::ingest: the job, the completion and the source are all as they should be.
Exact(r, s) == Fresh(s) /\ Bundle(r, job) /\ completion[r] = s

\* retry_completed_review: entering the task again checks everything once more.
RetriesCompleted ==
    /\ Home /\ done # 0 /\ queued = NoReview /\ record = value /\ value.completed = done
    /\ Exact(done, value.capture) /\ OnBasis(done)
    /\ BeginsReview(done, value.capture)
    /\ UNCHANGED <<journal, jobs, source, registry, saves, flow, asked, ready, done, author,
                   launched, fate, losses>>

-----------------------------------------------------------------------------
(* A request for an external author. *)

\* task_request: the exact request, on the watched source, is shown for consent.
Request ==
    /\ Home /\ ~ blocked /\ value.external = 0 /\ ready = 0 /\ Registered(value)
    /\ tool = shown
    /\ \E r \in Requests :
        /\ asked[r] = NoReview /\ \A q \in 1 .. r - 1 : asked[q] # NoReview
        /\ asked' = [asked EXCEPT ![r] = [request |-> r, source |-> source, basis |-> shown]]
        /\ ready' = r
    /\ UNCHANGED <<journal, jobs, source, registry, saves, flow, queued, done, work, author,
                   launched, fate, losses>>

\* authorize_task: the consent still binds the source, the saved work and the task.
Authorize ==
    /\ Home /\ ~ blocked /\ ready # 0 /\ value.external = 0
    /\ tool = asked[ready].basis /\ shown = tool /\ Fresh(asked[ready].source)
    /\ pc' = "authorizing" /\ operand' = [request |-> ready, source |-> asked[ready].source]
    /\ UNCHANGED <<journal, jobs, source, registry, saves, flow, asked, ready, queued, done,
                   author, launched, fate, losses>>

\* The request takes the completed one's place in the record, unless this is cancelled or
\* refused. Superseding an older analysis also drops what was kept for it.
Registers ==
    /\ pc = "authorizing"
    /\ LET new == [Linked(value.task) EXCEPT !.external = operand.request] IN
       \/ /\ Fresh(operand.source) /\ Written(new) /\ pc' = "preparing" /\ ready' = 0
          /\ flow' = IF value.completed # 0 THEN "none" ELSE flow
          /\ \/ UNCHANGED <<queued, done>>
             \/ queued' = NoReview /\ done' = 0
          /\ UNCHANGED operand
       \/ /\ WriteFails(new) \/ UNCHANGED journal
          /\ Rests /\ UNCHANGED <<ready, flow, queued, done>>
    /\ UNCHANGED <<jobs, source, registry, saves, asked, author, launched, fate, losses>>

\* prepare_external: a job directory is made once for a request and never used again.
Prepares ==
    /\ pc = "preparing"
    /\ IF flow \in {"awaiting", "interrupted"} THEN Rests /\ UNCHANGED <<job, flow>>
       ELSE \/ /\ Fresh(operand.source) /\ job[operand.request] = "none"
               /\ job' = [job EXCEPT ![operand.request] = "request"]
               /\ flow' = "awaiting" /\ pc' = "prepared" /\ UNCHANGED operand
            \/ /\ job' \in {job, [job EXCEPT ![operand.request] = "partial"]}
               /\ flow' = "rejected" /\ Rests
    /\ UNCHANGED <<journal, completion, submitted, source, registry, saves, asked, ready,
                   queued, done, author, launched, fate, losses>>

\* The ticket is retained before anything is launched.
Retains ==
    /\ pc = "prepared"
    /\ LET new == [value EXCEPT !.ticket = TRUE] IN
       \/ Written(new) /\ pc' = "checking" /\ UNCHANGED operand
       \/ WriteFails(new) /\ Rests
    /\ UNCHANGED <<jobs, source, registry, saves, flow, asked, ready, queued, done, author,
                   launched, fate, losses>>

\* The last checks: the source, the task and its provider, the record and the job.
Checks ==
    /\ pc = "checking"
    /\ \/ /\ Fresh(operand.source) /\ record = value /\ Bundle(operand.request, job)
          /\ pc' = "issuing" /\ UNCHANGED operand
       \/ Rests
    /\ UNCHANGED <<journal, jobs, source, registry, saves, flow, asked, ready, queued, done,
                   author, launched, fate, losses>>

\* launch_attempted is written, and the author is started only after that.
Issues ==
    /\ pc = "issuing"
    /\ LET new == [value EXCEPT !.launch = TRUE] IN
       \/ Written(new) /\ pc' = "launching" /\ UNCHANGED operand
       \/ WriteFails(new) /\ Rests
    /\ UNCHANGED <<jobs, source, registry, saves, flow, asked, ready, queued, done, author,
                   launched, fate, losses>>

\* start_product_task, record_provider_start: the outcome may stay uncertain, and is not tried
\* again.
Launches ==
    /\ pc = "launching" /\ Rests
    /\ launched' \in {launched, launched \cup {operand.request}}
    /\ \/ UNCHANGED <<queued, done>>
       \/ queued' = NoReview /\ done' = 0
    /\ UNCHANGED <<journal, jobs, source, registry, saves, flow, asked, ready, author, fate,
                   losses>>

-----------------------------------------------------------------------------
(* The author's commands: another process of the same program. *)

\* association: the record holds this request as issued. submit_current_program: the source is
\* captured, and captured again.
Issued(r) == record.external = r /\ record.launch /\ Registered(record)
Submit ==
    /\ author = NoWork
    /\ \E r \in launched :
        /\ Issued(r) /\ Bundle(r, job) /\ completion[r] = 0
        /\ author' = [request |-> r, source |-> source]
    /\ UNCHANGED <<journal, jobs, source, registry, saves, flow, asked, ready, queued, done,
                   work, launched, fate, losses>>

\* The completion is published, unless there is one, or something went wrong.
Publishes ==
    /\ author # NoWork /\ author' = NoWork
    /\ LET r == author.request IN
       \/ /\ completion[r] = 0 /\ Bundle(r, job)
          /\ completion' = [completion EXCEPT ![r] = author.source]
          /\ submitted' = [submitted EXCEPT ![r] = author.source]
          /\ UNCHANGED job
       \/ UNCHANGED jobs
    /\ UNCHANGED <<journal, source, registry, saves, flow, asked, ready, queued, done, work,
                   launched, fate, losses>>

-----------------------------------------------------------------------------
(* Taking a completion in. *)

\* intake_external: the completion is of this request and of the source as it is.
Takes ==
    /\ Home /\ value.external # 0 /\ Registered(value) /\ flow = "awaiting"
    /\ completion[value.external] # 0
    /\ IF Exact(value.external, completion[value.external])
       THEN /\ flow' = "captured" /\ pc' = "taking"
            /\ operand' = [request |-> value.external, source |-> source]
       ELSE flow' = "rejected" /\ UNCHANGED work
    /\ UNCHANGED <<journal, jobs, source, registry, saves, asked, ready, queued, done, author,
                   launched, fate, losses>>

\* The completed request takes the pending one's place, in one write; otherwise it is pending
\* still, for a checked reopening.
Admits ==
    /\ pc = "taking"
    /\ LET new == [Linked(value.task) EXCEPT !.completed = operand.request,
                                             !.capture = operand.source] IN
       \/ /\ record = value /\ Written(new) /\ done' = operand.request
          /\ fate' = [fate EXCEPT ![operand.request] = "admitted"]
          /\ BeginsReview(operand.request, operand.source) /\ UNCHANGED flow
       \/ /\ WriteFails(new) \/ UNCHANGED journal
          /\ flow' = "interrupted" /\ queued' = NoReview /\ Rests /\ UNCHANGED <<done, fate>>
    /\ UNCHANGED <<jobs, source, registry, saves, asked, ready, author, launched, losses>>

\* ExternalHandoff::reopen: the saved ticket is of this job, and the job is as it was made.
Reopened(link, at) == link.ticket /\ Bundle(link.external, at)

\* TaskSourceFlow::interrupted, reopen_external: the state a saved request's intake is in.
Intake(link, at) ==
    IF Registered(link) /\ Reopened(link, at) THEN "awaiting" ELSE "interrupted"

\* reopen_task: the saved request is taken up again from its job, never launched again.
Reopen ==
    /\ Home /\ value.external # 0 /\ Registered(value)
    /\ flow' = Intake(value, job) /\ flow' # flow
    /\ UNCHANGED <<journal, jobs, source, registry, saves, asked, ready, queued, done, work,
                   author, launched, fate, losses>>

\* abandon_task: the request is revoked in the record before anything else.
Abandon ==
    /\ Home /\ value.external # 0 /\ ~ blocked
    /\ LET new == [value EXCEPT !.external = 0, !.ticket = FALSE, !.launch = FALSE] IN
       \/ /\ Written(new) /\ fate' = [fate EXCEPT ![value.external] = "revoked"]
          /\ flow' = "cancelled" /\ ready' = 0 /\ queued' = NoReview
       \/ /\ WriteFails(new) /\ fate' = [fate EXCEPT ![value.external] = "withdrawn"]
          /\ UNCHANGED <<flow, ready, queued>>
    /\ UNCHANGED <<jobs, source, registry, saves, asked, done, work, author, launched, losses>>

\* decline_task: the consent is not given.
Decline ==
    /\ Home /\ ready # 0 /\ ready' = 0
    /\ UNCHANGED <<journal, jobs, source, registry, saves, flow, asked, queued, done, work,
                   author, launched, fate, losses>>

-----------------------------------------------------------------------------
(* Restarts, and what goes on elsewhere. *)

\* restore_task: what the record holds is taken up again. A completion whose job and source are
\* not as they were is kept, and not believed before a retry finds them so.
Restored(link, at) ==
    IF link.external # 0 THEN Intake(link, at)
    ELSE IF link.completed # 0 THEN "interrupted" ELSE "none"

\* What a power loss may leave of the job directories. The files' contents are synced and the
\* directories are not, so a directory may be gone, or any of its files, complete.json alone.
Lasting ==
    {left \in [Requests -> {"none", "partial", "request"} \X (0 .. MaxSource)] :
        \A r \in Requests : /\ left[r][1] \in {job[r], "partial", "none"}
                            /\ left[r][2] \in {completion[r], 0}
                            /\ job[r] = "none" => left[r][1] = "none"
                            /\ left[r][1] = "none" => left[r][2] = 0}

\* The host is started again; the author's command is another process, and goes on. After a
\* power loss it does not, and the record is one of those that may have lasted.
Restart ==
    /\ losses < MaxLosses /\ losses' = losses + 1
    /\ \/ UNCHANGED <<record, recordLeft, job, completion, author>>
       \/ /\ record' \in recordLeft /\ recordLeft' = {record'} /\ author' = NoWork
          /\ \E left \in Lasting : /\ job' = [r \in Requests |-> left[r][1]]
                                   /\ completion' = [r \in Requests |-> left[r][2]]
    /\ value' = record' /\ blocked' = FALSE /\ done' = record'.completed
    /\ flow' = Restored(record', job') /\ queued' = NoReview /\ ready' = 0 /\ Rests
    /\ shown' = tool
    /\ fate' = [r \in Requests |-> IF r = record'.completed THEN "admitted" ELSE fate[r]]
    /\ UNCHANGED <<submitted, source, registry, tool, asked, launched>>

\* The author, or anybody, edits the worktree.
Edit ==
    /\ source' \in Sources \ {source}
    /\ UNCHANGED <<journal, jobs, registry, saves, flow, asked, ready, queued, done, work,
                   author, launched, fate, losses>>

\* Another window removes the task, or registers one of the same name.
Reregister ==
    /\ \/ registered /\ registered' = FALSE /\ UNCHANGED task
       \/ ~ registered /\ task < MaxTask /\ task' = task + 1 /\ registered' = TRUE
    /\ UNCHANGED <<journal, jobs, source, saves, flow, asked, ready, queued, done, work, author,
                   launched, fate, losses>>

\* The tool is saved: here, between two commands, or by another host.
Save ==
    /\ tool < MaxBasis /\ tool' = tool + 1
    /\ \/ Home /\ shown = tool /\ shown' = tool'
       \/ UNCHANGED shown
    /\ UNCHANGED <<journal, jobs, source, registry, flow, asked, ready, queued, done, work,
                   author, launched, fate, losses>>

Next ==
    \/ LinkTask \/ EndsReview \/ PollsStale \/ PollsOrdinary \/ RetriesCompleted
    \/ Request \/ Decline \/ Authorize \/ Registers \/ Prepares \/ Retains \/ Checks
    \/ Issues \/ Launches \/ Submit \/ Publishes \/ Takes \/ Admits \/ Reopen \/ Abandon
    \/ Restart \/ Edit \/ Reregister \/ Save

Spec == Init /\ [][Next]_taskHandoff

-----------------------------------------------------------------------------
Reviews == [request : 0 .. MaxRequest, source : 0 .. MaxSource, basis : 0 .. MaxBasis]
Works == [request : 0 .. MaxRequest, source : 0 .. MaxSource]

RecordOK == {record, value} \cup recordLeft \subseteq Links /\ blocked \in BOOLEAN
JobsOK ==
    /\ job \in [Requests -> {"none", "partial", "request"}]
    /\ {completion, submitted} \subseteq [Requests -> 0 .. MaxSource]
SavesOK ==
    /\ source \in Sources /\ task \in 1 .. MaxTask /\ registered \in BOOLEAN
    /\ {tool, shown} \subseteq Bases /\ losses \in 0 .. MaxLosses
RequestsOK ==
    /\ queued \in Reviews /\ asked \in [Requests -> Reviews]
    /\ {ready, done} \subseteq 0 .. MaxRequest /\ launched \subseteq Requests
    /\ fate \in [Requests -> {"open", "withdrawn", "revoked", "admitted"}]
StepsOK ==
    /\ flow \in {"none", "awaiting", "interrupted", "captured", "rejected", "cancelled"}
    /\ pc \in {"home", "analyzing", "authorizing", "preparing", "prepared", "checking",
              "issuing", "launching", "taking"}
    /\ {operand, author} \subseteq Works

\* The variables keep their types.
TypeOK == RecordOK /\ JobsOK /\ SavesOK /\ RequestsOK /\ StepsOK

\* A power loss never forgets an author that was started: until its request is abandoned or
\* its completion is admitted, the record holds it as issued, or as completed.
AuthorsAreKnown ==
    \A r \in {q \in launched : fate[q] = "open"} : \A lasting \in recordLeft :
        \/ lasting.external = r /\ lasting.ticket /\ lasting.launch
        \/ lasting.completed = r

\* What the record holds as completed is what the started author submitted last, so a loss of
\* its complete.json lets no other submission in, and never a request that was abandoned.
CompletionIsAuthorized ==
    \A lasting \in recordLeft :
        /\ lasting.completed # 0 => /\ lasting.completed \in launched
                                    /\ lasting.capture = submitted[lasting.completed]
        /\ \A r \in {lasting.external, lasting.completed} \ {0} : fate[r] # "revoked"

\* A review of a request is of what its author submitted last, on the saved work it was asked
\* about.
ReviewIsOfRequest ==
    queued.request # 0 => /\ queued.basis = asked[queued.request].basis
                          /\ queued.source = submitted[queued.request]

\* The author of a request works with authority, and only its own work is reviewed for it.
HandoffIsKept == AuthorsAreKnown /\ CompletionIsAuthorized /\ ReviewIsOfRequest

\* Why: the host's copy may always be what lasts, and holds one request, pending or admitted;
\* a request is asked before it is anything else, and registered once; only a started author
\* has submitted, and nothing made its job anew; what the worker is about is what it
\* registered, issued or was submitted.
CopyMayLast ==
    /\ {record, value} \subseteq recordLeft
    /\ \A lasting \in recordLeft : lasting.external # 0 => lasting.completed = 0
    /\ value.completed # 0 => fate[value.completed] = "admitted"
RequestsAreAsked ==
    /\ \A r \in Requests : asked[r] = NoReview =>
         /\ r \notin launched /\ fate[r] = "open"
         /\ \A lasting \in recordLeft : r \notin {lasting.external, lasting.completed}
    /\ ready # 0 => /\ value.external = 0 /\ asked[ready] # NoReview
                    /\ ready \notin launched /\ fate[ready] = "open"
SubmissionsAreKept ==
    /\ \A r \in Requests :
         /\ completion[r] \in {0, submitted[r]}
         /\ submitted[r] # 0 => r \in launched
    /\ author # NoWork => author.request \in launched
    /\ \A lasting \in recordLeft :
         lasting.completed # 0 => submitted[lasting.completed] # 0
    /\ queued.request # 0 => submitted[queued.request] # 0
\* Once a request may be called completed, is taken in or is reviewed, no command of its author
\* is on its way to publish another completion, nor can one come: the completion is in place
\* for as long as the record may still hold the request as pending.
Accepted(r) ==
    \/ \E lasting \in recordLeft : lasting.completed = r
    \/ queued.request = r
    \/ pc \in {"taking", "analyzing"} /\ operand.request = r
CompletionsStand ==
    /\ author # NoWork => ~ Accepted(author.request) /\ completion[author.request] = 0
    /\ \A r \in Requests :
         Accepted(r) /\ (\E lasting \in recordLeft : lasting.external = r) => completion[r] # 0
Submits(r, s) == r \in launched /\ submitted[r] = s /\ s # 0
OperandsAreRight ==
    /\ pc = "authorizing" => operand.request = ready /\ ready # 0
    /\ pc \in {"preparing", "prepared", "checking", "issuing", "launching", "taking"} =>
         operand.request = value.external /\ value.external # 0
    /\ pc = "preparing" => operand.request \notin launched
    /\ pc \in {"checking", "issuing", "launching"} => value.ticket
    /\ pc = "launching" => value.launch /\ recordLeft = {value}
    /\ pc = "taking" => Submits(operand.request, operand.source)
    /\ pc = "analyzing" /\ operand.request # 0 =>
         Submits(operand.request, operand.source) /\ asked[operand.request].basis = shown

IInv ==
    /\ TypeOK /\ CopyMayLast /\ RequestsAreAsked /\ SubmissionsAreKept /\ CompletionsStand
    /\ OperandsAreRight
    /\ AuthorsAreKnown /\ CompletionIsAuthorized /\ ReviewIsOfRequest
=============================================================================
