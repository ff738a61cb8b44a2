----------------------------- MODULE ProviderJob -----------------------------
(***************************************************************************)
(* A request to an installed model provider, from its disclosure to its      *)
(* retained result (src/src/product_studio/worker.rs and                    *)
(* discovery_worker.rs over src/src/product_provider).                      *)
(*                                                                         *)
(* The host's worker prepares a job folder, shows what would be sent, and on *)
(* a click records the request as issued, submits the job and waits.  The    *)
(* job's own thread launches the provider's process, collects its output and *)
(* publishes a receipt.  The user may cancel, the host may crash and leave   *)
(* the process behind, the power may be lost, and every write may fail.      *)
(* Nothing is ever sent again on its own: what was issued stays on the       *)
(* restart record until its receipt says how it ended.                      *)
(***************************************************************************)
EXTENDS Naturals, RestartRecord

CONSTANTS
    Kinds,          \* the kinds of request the user may ask for
    MaxRequests     \* bound on the requests of a behaviour

ASSUME ConstantsAssumption ==
    /\ Kinds \subseteq {"generate", "modify", "discover"}
    /\ MaxRequests \in Nat

None == 0
Requests == 1 .. MaxRequests

VARIABLES
    \* the job folders
    receipt,    \* JobReceipt.state
    stable,     \* the states a power loss may leave
    output,     \* the requests with a result.json
    \* the provider's processes
    process,
    \* the job's thread
    job,        \* where the running job is
    cancel,     \* ProviderJob's gate.cancelled and cancel flag
    outcome,    \* what process::run concluded
    \* the host
    pc, request,
    gate,       \* the command's gate
    ready,      \* the request whose disclosure is shown
    generationBlocked,
    result,     \* whether develop() returned a result
    seen,       \* the receipt reconcile() returned
    \* the requests prepared
    requests,   \* request n is the nth
    kind,
    accepted,   \* those whose result was kept or shown (ghost)
    withdrawn,  \* those whose cancel() was answered true (ghost)
    torn,       \* those whose receipt was renamed but not synced (ghost)
    orphans     \* those whose process outlived its host (ghost)

folders == <<receipt, stable, output>>
thread == <<job, cancel, outcome>>
host == <<request, gate, ready, generationBlocked, result, seen>>
asked == <<requests, kind>>
ghosts == <<accepted, withdrawn, torn, orphans>>
vars == <<disk, lasting, value, blocked, receipt, stable, output, process, job, cancel,
          outcome, pc, request, gate, ready, generationBlocked, result, seen, requests,
          kind, accepted, withdrawn, torn, orphans>>

PC == {"down", "idle", "disclosing", "issuing", "submitting", "polling", "joining",
       "reconciling", "retaining", "clearing", "checking", "resolving"}
Jobs == {"none", "launching", "running", "publishing", "done", "failed"}
\* "Failed" stands for every terminal state that carries no result.
States == {"none", "Prepared", "Running", "Validated", "Cancelled", "Failed", "Interrupted"}
Terminal == {"Validated", "Cancelled", "Failed", "Interrupted"}

\* ProviderAssociation, and whether its lineage holds the completed response.
Association(r, s) == [request |-> r, stage |-> s]
Nobody == Association(None, "none")
Associations ==
    {Nobody} \cup [request : Requests, stage : {"prepared", "issued", "completed"}]

Init ==
    /\ disk = Nobody /\ lasting = {Nobody} /\ value = Nobody /\ blocked = FALSE
    /\ receipt = [r \in Requests |-> "none"]
    /\ stable = [r \in Requests |-> {"none"}]
    /\ output = {}
    /\ process = [r \in Requests |-> "none"]
    /\ pc = "down" /\ job = "none" /\ cancel = FALSE /\ outcome = "Failed"
    /\ request = None /\ gate = "open" /\ ready = None
    /\ generationBlocked = FALSE /\ result = "err" /\ seen = "unread"
    /\ requests = 0
    /\ kind = [r \in Requests |-> "generate"]
    /\ accepted = {} /\ withdrawn = {} /\ torn = {} /\ orphans = {}

-----------------------------------------------------------------------------
\* storage::write of a receipt.

Saved(r, s) ==
    /\ receipt' = [receipt EXCEPT ![r] = s]
    /\ stable' = [stable EXCEPT ![r] = {s}]
    /\ UNCHANGED torn

\* An error before the rename leaves the old receipt; one after it leaves the new.
Failed(r, s) ==
    \/ UNCHANGED <<receipt, stable, torn>>
    \/ /\ receipt' = [receipt EXCEPT ![r] = s]
       /\ stable' = [stable EXCEPT ![r] = @ \cup {s}]
       /\ torn' = torn \cup {r}

\* A command's own memory goes with it.
Forgotten == request' = None /\ gate' = "open" /\ result' = "err" /\ seen' = "unread"
Rests == pc' = "idle" /\ Forgotten

\* The job's thread is joined and dropped.
Dropped == job' = "none" /\ cancel' = FALSE /\ outcome' = "Failed"

\* Any other write of the restart record, as the need or the last tool.
OtherWrite == Written(value) \/ RefusedWrite \/ UnresolvedWrite(value)

-----------------------------------------------------------------------------
\* Disclosure.

\* A fresh request identifier, and with it a folder of its own.
NewRequest(k) ==
    /\ requests < MaxRequests
    /\ requests' = requests + 1
    /\ kind' = [kind EXCEPT ![requests + 1] = k]

\* No generation is prepared over an unresolved request.
MayPrepare == ~ blocked /\ ~ generationBlocked /\ value = Nobody

\* prepare(), prepare_discover(): the job folder is made, nothing is sent.
Prepare(k) ==
    /\ pc = "idle"
    /\ MayPrepare
    /\ k = "discover" => ready = None
    /\ NewRequest(k)
    /\ \/ OtherWrite /\ UNCHANGED <<receipt, stable, torn, pc, request>>
       \/ Written(value) /\ Failed(requests + 1, "Prepared") /\ UNCHANGED <<pc, request>>
       \/ /\ Written(value) /\ Saved(requests + 1, "Prepared")
          /\ pc' = "disclosing" /\ request' = requests + 1
    /\ UNCHANGED <<output, process, thread, gate, ready, generationBlocked, result, seen,
                   accepted, withdrawn, orphans>>

\* The association is recorded, unissued, and the disclosure shown.
Disclose ==
    /\ pc = "disclosing"
    /\ Rests
    /\ IF gate = "open"
       THEN \/ Written(Association(request, "prepared")) /\ ready' = request
            \/ /\ RefusedWrite \/ UnresolvedWrite(Association(request, "prepared"))
               /\ UNCHANGED ready
       ELSE UNCHANGED <<files, ready>>
    /\ UNCHANGED <<folders, process, thread, generationBlocked, asked, ghosts>>

\* close(): a disclosure that was not consented to is dropped.
Closes ==
    LET left == IF value.stage = "prepared" THEN Nobody ELSE value IN
    \/ Written(left) /\ ready' = None
    \/ (RefusedWrite \/ UnresolvedWrite(left)) /\ UNCHANGED ready

\* return_daily(), Action::Close.
Decline ==
    /\ pc = "idle" /\ ~ blocked /\ ready # None
    /\ Closes
    /\ UNCHANGED <<folders, process, thread, pc, request, gate, generationBlocked,
                   result, seen, asked, ghosts>>

\* Another tool is opened over the disclosure; the association stays recorded.
Open ==
    /\ pc = "idle" /\ ~ blocked /\ ready # None
    /\ ready' = None
    /\ OtherWrite
    /\ UNCHANGED <<folders, process, thread, pc, request, gate, generationBlocked,
                   result, seen, asked, ghosts>>

-----------------------------------------------------------------------------
\* Consent and submission.

\* The click on the disclosure shown.
Consent ==
    /\ pc = "idle" /\ ~ blocked /\ ready # None
    /\ pc' = "issuing" /\ request' = ready
    /\ UNCHANGED <<files, folders, process, thread, gate, ready, generationBlocked,
                   result, seen, asked, ghosts>>

Cancel ==
    /\ pc \notin {"down", "idle"} /\ gate = "open"
    /\ gate' = "cancelled"
    /\ UNCHANGED <<files, folders, process, thread, pc, request, ready,
                   generationBlocked, result, seen, asked, ghosts>>

\* Mutated form of Issue: what is unresolved is sent all the same.
IssueUnrecorded ==
    /\ pc = "issuing"
    /\ \/ /\ value = Association(request, "prepared") /\ gate = "open"
          /\ Written(Association(request, "issued")) \/ RefusedWrite
          /\ ready' = None /\ pc' = "submitting"
          /\ UNCHANGED <<request, gate, result, seen>>
       \/ UNCHANGED <<files, ready>> /\ Rests
    /\ UNCHANGED <<folders, process, thread, generationBlocked, asked, ghosts>>

\* generate(), run_discover(): the request is recorded as issued before it is
\* sent.  A stale basis or a changed disclosure refuses it, and a cancelled click
\* closes what was shown.
Issue ==
    /\ pc = "issuing"
    /\ \/ /\ value = Association(request, "prepared") /\ gate = "open"
          /\ \/ /\ Written(Association(request, "issued"))
                /\ ready' = None /\ pc' = "submitting"
                /\ UNCHANGED <<request, gate, result, seen>>
             \/ /\ RefusedWrite \/ UnresolvedWrite(Association(request, "issued"))
                /\ Rests /\ UNCHANGED ready
       \/ /\ Rests
          /\ IF gate = "open" THEN UNCHANGED <<files, ready>> ELSE Closes
    /\ UNCHANGED <<folders, process, thread, generationBlocked, asked, ghosts>>

\* submit(): the receipt says Running before anything is launched.  A changed
\* input, an expired consent or a failed write refuses it.
Submit ==
    /\ pc = "submitting"
    /\ \/ /\ gate = "open" /\ receipt[request] = "Prepared"
          /\ \/ /\ Saved(request, "Running")
                /\ job' = "launching" /\ cancel' = FALSE /\ pc' = "polling"
                /\ UNCHANGED result
             \/ /\ Failed(request, "Running")
                /\ pc' = "reconciling" /\ result' = "err"
                /\ UNCHANGED <<job, cancel>>
       \/ /\ pc' = "reconciling" /\ result' = "err"
          /\ UNCHANGED <<receipt, stable, torn, job, cancel>>
    /\ UNCHANGED <<files, output, process, outcome, request, gate, ready,
                   generationBlocked, seen, asked, accepted, withdrawn, orphans>>

-----------------------------------------------------------------------------
\* The job's thread: execute().

Concludes(o) == job' = "publishing" /\ outcome' = o

\* process::run up to the spawn.
Launch ==
    /\ job = "launching"
    /\ \/ ~ cancel /\ job' = "running" /\ process' = [process EXCEPT ![request] = "live"]
          /\ UNCHANGED outcome
       \/ Concludes(IF cancel THEN "Cancelled" ELSE "Failed") /\ UNCHANGED process
    /\ UNCHANGED <<files, folders, cancel, pc, host, asked, ghosts>>

\* The provider exits on its own, having answered or not.
ProcessEnds(r) ==
    /\ process[r] = "live"
    /\ \E s \in {"answered", "ended"} : process' = [process EXCEPT ![r] = s]
    /\ UNCHANGED <<files, folders, thread, pc, host, asked, ghosts>>

\* The provider exited and its output is read.
Collect ==
    /\ job = "running" /\ process[request] # "live"
    /\ \/ process[request] = "answered" /\ Concludes("Validated")
       \/ Concludes("Failed")
    /\ UNCHANGED <<files, folders, process, cancel, pc, host, asked, ghosts>>

\* Cancelled, past its deadline or over a limit: the process group is killed.
Kill ==
    /\ job = "running"
    /\ Concludes(IF cancel THEN "Cancelled" ELSE "Failed")
    /\ process' = IF process[request] = "live"
                  THEN [process EXCEPT ![request] = "ended"] ELSE process
    /\ UNCHANGED <<files, folders, cancel, pc, host, asked, ghosts>>

\* A cancellation accepted before the terminal publication wins.
Final == IF cancel THEN "Cancelled" ELSE outcome

\* The terminal publication, under the job's gate: the result, then the receipt.
Publish ==
    /\ job = "publishing"
    /\ \/ /\ Final = "Validated"
          /\ output' \in {output, output \cup {request}}
          /\ job' = "failed"
          /\ UNCHANGED <<receipt, stable, torn>>
       \/ /\ output' = IF Final = "Validated" THEN output \cup {request} ELSE output
          /\ \/ Saved(request, Final) /\ job' = "done"
             \/ Failed(request, Final) /\ job' = "failed"
    /\ UNCHANGED <<files, process, cancel, outcome, pc, host, asked, accepted, withdrawn,
                   orphans>>

-----------------------------------------------------------------------------
\* develop(): the worker waits for its job.

\* The click was cancelled, or the job is overdue.  The cancellation is accepted
\* unless the receipt was published; noting it in the folder may fail.
Withdraw ==
    /\ pc = "polling"
    /\ pc' = "joining" /\ result' = "err"
    /\ IF job = "done"
       THEN UNCHANGED <<cancel, withdrawn>>
       ELSE cancel' = TRUE /\ withdrawn' \in {withdrawn, withdrawn \cup {request}}
    /\ UNCHANGED <<files, folders, process, job, outcome, request, gate, ready,
                   generationBlocked, seen, asked, accepted, torn, orphans>>

\* The receipt arrives: a validated result is ingested and read, or it is refused.
Receive ==
    /\ pc = "polling" /\ job = "done"
    /\ Dropped /\ pc' = "reconciling"
    /\ \/ result' = "err"
       \/ /\ gate = "open" /\ receipt[request] = "Validated" /\ request \in output
          /\ result' = "ok"
    /\ UNCHANGED <<files, folders, process, request, gate, ready,
                   generationBlocked, seen, asked, ghosts>>

\* Mutated form of Join: a thread that failed is waited for as if it ran.
JoinDone ==
    /\ pc = "joining" /\ job = "done"
    /\ Dropped /\ pc' = "reconciling" /\ result' = "err"
    /\ UNCHANGED <<files, folders, process, request, gate, ready,
                   generationBlocked, seen, asked, ghosts>>

\* The thread ended without a receipt, or the worker no longer waits for it:
\* dropping the job joins the thread.
Join ==
    /\ \/ pc = "polling" /\ job = "failed"
       \/ pc = "joining" /\ job \in {"done", "failed"}
    /\ Dropped /\ pc' = "reconciling" /\ result' = "err"
    /\ UNCHANGED <<files, folders, process, request, gate, ready,
                   generationBlocked, seen, asked, ghosts>>

-----------------------------------------------------------------------------
\* The end of a request.

\* ProviderTransport::reconcile: a Running receipt without an owner was
\* interrupted, whatever its process did or does.
Reads(r) ==
    /\ IF receipt[r] = "Running"
       THEN \/ Saved(r, "Interrupted") /\ seen' = "Interrupted"
            \/ Failed(r, "Interrupted") /\ seen' = "unread"
       ELSE UNCHANGED <<receipt, stable, torn>> /\ seen' \in {receipt[r], "unread"}
    /\ UNCHANGED output

\* The page under a change is rebuilt first, which may fail and leave it issued.
Reconcile ==
    /\ pc = "reconciling"
    /\ \/ /\ Reads(request)
          /\ pc' = IF result = "ok" /\ kind[request] = "modify"
                   THEN "retaining" ELSE "clearing"
          /\ UNCHANGED <<request, gate, result>>
       \/ kind[request] = "modify" /\ Rests /\ UNCHANGED <<folders, torn>>
    /\ UNCHANGED <<files, process, thread, ready, generationBlocked, asked, accepted,
                   withdrawn, orphans>>

\* A change's response is retained in its lineage before its association goes.
Retain ==
    /\ pc = "retaining"
    /\ \/ /\ Written(Association(request, "completed")) /\ pc' = "clearing"
          /\ accepted' = accepted \cup {request}
          /\ UNCHANGED <<request, gate, result, seen>>
       \/ RefusedWrite /\ Rests /\ UNCHANGED accepted
       \/ /\ UnresolvedWrite(Association(request, "completed")) /\ Rests
          /\ accepted' = accepted \cup {request}
    /\ UNCHANGED <<folders, process, thread, ready, generationBlocked, asked, withdrawn,
                   torn, orphans>>

\* A receipt that says how the request ended.
Resolved(s) == s \in Terminal \ {"Interrupted"}

\* Whether the association may go, by the receipt seen and what was retained.
MayClear ==
    IF kind[request] = "discover"
    THEN result = "ok" \/ (Resolved(seen) /\ seen # "Validated")
    ELSE \/ seen = "Prepared"
         \/ /\ Resolved(seen)
            /\ kind[request] = "modify" /\ seen = "Validated" => value.stage = "completed"

\* The association is cleared, or generation stays blocked.  A discovery's
\* response is retained by the same write; a new tool's draft is only shown, if
\* that write was made or not called for.
Clear ==
    /\ pc = "clearing"
    /\ Rests
    /\ IF MayClear
       THEN /\ Written(Nobody) \/ RefusedWrite \/ UnresolvedWrite(Nobody)
            /\ UNCHANGED generationBlocked
       ELSE generationBlocked' = TRUE /\ UNCHANGED files
    /\ accepted' =
         IF /\ result = "ok"
            /\ \/ kind[request] = "discover" /\ (value' = Nobody \/ blocked')
               \/ /\ kind[request] = "generate" /\ gate = "open"
                  /\ MayClear => value' = Nobody
         THEN accepted \cup {request} ELSE accepted
    /\ UNCHANGED <<folders, process, thread, ready, asked, withdrawn, torn, orphans>>

-----------------------------------------------------------------------------
\* Restart and the check of an unresolved request: reconcile_provider().

\* The user checks the unfinished request, which is offered while no disclosure
\* is shown.
Check ==
    /\ pc = "idle" /\ ~ blocked /\ ready = None /\ value # Nobody
    /\ pc' = "checking"
    /\ UNCHANGED <<files, folders, process, thread, host, asked, ghosts>>

\* An issued request whose response is not retained is looked up by its receipt.
Inspect ==
    /\ pc = "checking"
    /\ generationBlocked' = TRUE
    /\ request' = value.request
    /\ pc' = "resolving"
    /\ IF value.stage = "issued"
       THEN Reads(value.request)
       ELSE seen' = "unread" /\ UNCHANGED <<folders, torn>>
    /\ UNCHANGED <<files, process, thread, gate, ready, result, asked, accepted,
                   withdrawn, orphans>>

\* The validated response of a change or a discovery is ingested and retained.
Ingested == kind[request] # "generate" /\ seen = "Validated"

\* A request that was never sent, or whose receipt says how it ended.
MayResolve == value.stage # "issued" \/ Resolved(seen) \/ seen = "Prepared"

Resolve ==
    /\ pc = "resolving"
    /\ Rests
    /\ \/ /\ MayResolve
          /\ Ingested => request \in output
          /\ \/ Written(Nobody) /\ generationBlocked' = FALSE
             \/ (RefusedWrite \/ UnresolvedWrite(Nobody)) /\ UNCHANGED generationBlocked
          /\ accepted' = IF Ingested /\ (value' = Nobody \/ blocked')
                         THEN accepted \cup {request} ELSE accepted
       \/ /\ MayResolve => Ingested
          /\ UNCHANGED <<files, generationBlocked, accepted>>
    /\ UNCHANGED <<folders, process, thread, ready, asked, withdrawn, torn, orphans>>

\* The host's memory is gone, the record's copy apart, which is not used again.
Forgets ==
    /\ pc' = "down" /\ ready' = None /\ generationBlocked' = FALSE
    /\ Dropped /\ Forgotten

\* The host ends; the process it launched does not.
Crash ==
    /\ pc # "down"
    /\ Forgets
    /\ orphans' = orphans \cup {r \in Requests : process[r] = "live"}
    /\ UNCHANGED <<files, folders, process, asked, accepted, withdrawn, torn>>

\* The power is lost: every process ends, and every file is what was synced.
PowerLoss ==
    /\ Forgets
    /\ Kept
    /\ receipt' \in [Requests -> States]
    /\ \A r \in Requests : receipt'[r] \in stable[r]
    /\ stable' = [r \in Requests |-> {receipt'[r]}]
    /\ process' = [r \in Requests |-> IF process[r] = "live" THEN "ended" ELSE process[r]]
    /\ UNCHANGED <<value, blocked, output, asked, ghosts>>

\* The record is reopened; what it names is checked at once.
Boot ==
    /\ pc = "down"
    /\ Reopened
    /\ blocked' = FALSE
    /\ pc' = IF disk = Nobody THEN "idle" ELSE "checking"
    /\ UNCHANGED <<folders, process, thread, host, asked, ghosts>>

Job == Launch \/ Collect \/ Kill \/ Publish
Worker ==
    \/ Disclose \/ Issue \/ Submit \/ Receive \/ Join \/ Reconcile \/ Retain \/ Clear
    \/ Inspect \/ Resolve

Next ==
    \/ \E k \in Kinds : Prepare(k)
    \/ Decline \/ Open \/ Consent \/ Cancel \/ Withdraw \/ Check
    \/ Worker \/ Job
    \/ \E r \in Requests : ProcessEnds(r)
    \/ Crash \/ PowerLoss \/ Boot

Spec == Init /\ [][Next]_vars

\* The worker and the job's thread run, and their deadlines pass.
FairSpec == Spec /\ WF_vars(Worker \/ Withdraw) /\ WF_vars(Job)

-----------------------------------------------------------------------------
\* Every variable keeps its type.
TypeOK ==
    /\ disk \in Associations /\ lasting \in SUBSET Associations
    /\ value \in Associations /\ blocked \in BOOLEAN
    /\ receipt \in [Requests -> States] /\ stable \in [Requests -> SUBSET States]
    /\ output \in SUBSET Requests
    /\ process \in [Requests -> {"none", "live", "answered", "ended"}]
    /\ job \in Jobs /\ cancel \in BOOLEAN /\ outcome \in {"Validated", "Cancelled", "Failed"}
    /\ pc \in PC /\ request \in {None} \cup Requests
    /\ gate \in {"open", "cancelled"}
    /\ ready \in {None} \cup Requests /\ generationBlocked \in BOOLEAN
    /\ result \in {"ok", "err"} /\ seen \in States \cup {"unread"}
    /\ requests \in 0 .. MaxRequests
    /\ kind \in [Requests -> {"generate", "modify", "discover"}]
    /\ accepted \in SUBSET Requests /\ withdrawn \in SUBSET Requests
    /\ torn \in SUBSET Requests /\ orphans \in SUBSET Requests

\* While a provider's process is running, under its host or left behind by it,
\* its request is on the restart record as issued, whatever the power does; the record
\* holds one request, so no other was sent beside it.
LiveIsRecorded ==
    \A r \in Requests : process[r] = "live" => lasting = {Association(r, "issued")}

\* What a process wrote after its host was gone is never taken for a result.
LateIsNeverAccepted == accepted \cap orphans = {}

\* An accepted cancellation wins over the answer, unless the answer's receipt was
\* renamed and its sync failed.
CancelledIsNotAccepted == accepted \cap withdrawn \subseteq torn

\* Nothing that came late or was cancelled is accepted.
NothingLateIsAccepted == LateIsNeverAccepted /\ CancelledIsNotAccepted

\* A request's process runs only while the restart record says that it was sent, and what
\* arrives late or after a cancellation is not taken for its answer.
RequestsAreAccounted == LiveIsRecorded /\ NothingLateIsAccepted

\* An accepted cancellation wins over terminal publication.
AcceptedCancellationWins == accepted \cap withdrawn = {}

\* A request that was sent ends, with its process and its thread, however the
\* provider behaves, unless the host itself goes down.
EverySentRequestEnds ==
    \A r \in Requests :
        pc = "polling" /\ request = r
          ~> \/ pc = "down"
             \/ pc = "idle" /\ job = "none" /\ process[r] # "live"
=============================================================================
