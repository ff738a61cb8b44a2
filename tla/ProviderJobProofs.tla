--------------------------- MODULE ProviderJobProofs ---------------------------
(***************************************************************************)
(* That a provider's process runs only under a request the restart record    *)
(* names as issued, and that nothing late or cancelled is taken for its      *)
(* answer, proved for any number of requests.                                *)
(*                                                                         *)
(* What makes this inductive is what the record says at each step of the     *)
(* host (StepsOK), what the states a receipt may have after a power loss     *)
(* exclude (ReceiptsOK), and what the job's thread has published (ThreadOK). *)
(***************************************************************************)
EXTENDS ProviderJob, TLAPS

-----------------------------------------------------------------------------
\* The inductive invariant.

\* What a receipt says now or may say after a power loss.
Known(r) == {receipt[r]} \cup stable[r]

\* Nothing was launched.
Early == {"none", "Prepared"}

Live(r) == process[r] = "live"

\* The host's copy of the record is the file, synced, unless a write was lost.
FilesOK ==
    /\ disk \in lasting
    /\ pc # "down" /\ ~ blocked => disk = value /\ lasting = {value}

\* What the host knows at each step of a command.
StepsOK ==
    /\ pc \notin {"down", "idle"} => ~ blocked
    /\ pc \notin {"down", "idle", "checking"} => request \in Requests
    /\ pc = "disclosing" => value = Nobody
    /\ pc = "checking" => value # Nobody
    /\ pc \in {"submitting", "polling", "joining", "reconciling", "retaining"} =>
         value = Association(request, "issued")
    /\ pc \in {"submitting", "reconciling", "retaining", "clearing"} =>
         \A r \in Requests : ~ Live(r)
    /\ pc = "resolving" /\ MayResolve => \A r \in Requests : ~ Live(r)
    /\ pc \in {"reconciling", "retaining", "clearing"} /\ result = "ok" =>
         receipt[request] = "Validated"
    /\ pc = "retaining" => result = "ok"
    /\ pc = "resolving" /\ seen = "Validated" => receipt[request] = "Validated"

\* A receipt that may still be early says no more than that a host began it; that of
\* a live or orphaned process says no more than that it runs or was interrupted.
ReceiptOK(r) ==
    /\ r > requests => Known(r) = {"none"}
    /\ Known(r) \cap Early # {} => Known(r) \subseteq Early \cup {"Running", "Interrupted"}
    /\ r \in accepted \cup withdrawn \cup orphans => Known(r) \cap Early = {}
    /\ r \in orphans \/ Live(r) =>
         Known(r) \subseteq {"Running", "Interrupted"} /\ r \notin accepted
    /\ r \in withdrawn \ torn =>
         Known(r) \subseteq {"Running", "Cancelled", "Interrupted"} /\ r \notin accepted

ReceiptsOK == \A r \in Requests : ReceiptOK(r)

\* The thread runs while the host waits for it, on a request whose receipt says Running
\* until the thread's own publication.
ThreadOK ==
    /\ job # "none" <=> pc \in {"polling", "joining"}
    /\ job # "none" =>
         /\ Known(request) \cap Early = {}
         /\ request \notin accepted \cup orphans
         /\ Live(request) => job = "running"
    /\ job \in {"launching", "running", "publishing"} =>
         /\ Known(request) = {"Running"}
         /\ request \in withdrawn => cancel
    /\ job = "failed" /\ request \notin torn => Known(request) = {"Running"}

IInv == TypeOK /\ FilesOK /\ StepsOK /\ ReceiptsOK /\ ThreadOK /\ LiveIsRecorded

-----------------------------------------------------------------------------
\* Identifiers and what the record names.

LEMMA Identifiers ==
    /\ Requests \subseteq Nat /\ None \notin Requests
    /\ requests \in 0 .. MaxRequests /\ requests < MaxRequests => requests + 1 \in Requests
    /\ requests \in 0 .. MaxRequests => requests \in Nat
BY ConstantsAssumption DEF Requests, None

LEMMA Named ==
    ASSUME NEW r, NEW s, NEW q, NEW t
    PROVE  /\ Association(r, s) = Association(q, t) <=> r = q /\ s = t
           /\ Association(r, s).request = r /\ Association(r, s).stage = s
           /\ {Association(r, s)} = {Association(q, t)} => r = q /\ s = t
BY DEF Association

LEMMA NamedTypes ==
    /\ Nobody \in Associations /\ Nobody.stage = "none"
    /\ \A r \in Requests, s \in {"prepared", "issued", "completed"} :
         Association(r, s) \in Associations /\ Association(r, s) # Nobody
    /\ \A v \in Associations : v # Nobody =>
         /\ v.request \in Requests /\ v.stage \in {"prepared", "issued", "completed"}
         /\ v = Association(v.request, v.stage)
BY Identifiers DEF Association, Nobody, Associations

\* A live process is the one the host's record names as issued.
LEMMA LiveIsValue ==
    ASSUME IInv, pc # "down", ~ blocked, NEW r \in Requests, Live(r)
    PROVE  value = Association(r, "issued")
BY DEF IInv, FilesOK, LiveIsRecorded, Live

\* A validated receipt is neither early nor that of an orphan or of a cancelled request.
LEMMA ValidatedIsFree ==
    ASSUME IInv, NEW r \in Requests, receipt[r] = "Validated"
    PROVE  /\ Known(r) \cap Early = {} /\ r \notin orphans /\ ~ Live(r)
           /\ r \in withdrawn => r \in torn
<1>1. "Validated" \in Known(r)
  BY DEF Known
<1>2. ReceiptOK(r)
  BY DEF IInv, ReceiptsOK
<1> QED
  BY <1>1, <1>2 DEF ReceiptOK, Early

LEMMA InitIInv == Init => IInv
<1> SUFFICES ASSUME Init PROVE IInv
  OBVIOUS
<1>1. TypeOK
  <2>1. disk \in Associations /\ lasting \in SUBSET Associations /\ value \in Associations
    BY NamedTypes DEF Init
  <2>2. receipt \in [Requests -> States] /\ stable \in [Requests -> SUBSET States]
    BY DEF Init, States
  <2>3. requests \in 0 .. MaxRequests
    BY ConstantsAssumption DEF Init
  <2> QED
    BY <2>1, <2>2, <2>3 DEF Init, TypeOK, PC, Jobs
<1>2. FilesOK /\ StepsOK /\ ThreadOK /\ LiveIsRecorded
  BY DEF Init, FilesOK, StepsOK, ThreadOK, LiveIsRecorded
<1>3. ReceiptsOK
  BY DEF Init, ReceiptsOK, ReceiptOK, Known, Early, Live
<1> QED
  BY <1>1, <1>2, <1>3 DEF IInv

-----------------------------------------------------------------------------
\* Type correctness.

\* A write leaves the record naming what it named or what was written.
LEMMA WriteTypes ==
    ASSUME TypeOK, NEW p \in Associations,
           Written(p) \/ RefusedWrite \/ UnresolvedWrite(p)
    PROVE  /\ disk' \in Associations /\ lasting' \in SUBSET Associations
           /\ value' \in Associations /\ blocked' \in BOOLEAN
BY DEF TypeOK, Written, RefusedWrite, UnresolvedWrite, files

\* So does a write of a receipt.
LEMMA ReceiptTypes ==
    ASSUME TypeOK, NEW r \in Requests, NEW s \in States, Saved(r, s) \/ Failed(r, s)
    PROVE  /\ receipt' \in [Requests -> States] /\ stable' \in [Requests -> SUBSET States]
           /\ torn' \in SUBSET Requests
BY DEF TypeOK, Saved, Failed

LEMMA ReadTypes ==
    ASSUME TypeOK, NEW r \in Requests, Reads(r)
    PROVE  /\ receipt' \in [Requests -> States] /\ stable' \in [Requests -> SUBSET States]
           /\ torn' \in SUBSET Requests /\ output' \in SUBSET Requests
           /\ seen' \in States \cup {"unread"}
BY ReceiptTypes DEF TypeOK, Reads, States

LEMMA TypeStep ==
    ASSUME IInv, [Next]_vars
    PROVE  TypeOK'
<1> TypeOK /\ StepsOK /\ ThreadOK
  BY DEF IInv
<1> USE DEF folders, thread, host, asked, ghosts, Rests, Forgotten, Dropped
<1>1. ASSUME NEW k \in Kinds, Prepare(k) PROVE TypeOK'
  <2>1. requests + 1 \in Requests /\ requests' = requests + 1
        /\ kind' = [kind EXCEPT ![requests + 1] = k] /\ k \in {"generate", "modify", "discover"}
    BY <1>1, Identifiers, ConstantsAssumption DEF Prepare, NewRequest, TypeOK
  <2>2. requests' \in 0 .. MaxRequests
    BY <2>1, Identifiers DEF Requests
  <2>3. kind' \in [Requests -> {"generate", "modify", "discover"}]
    BY <2>1 DEF TypeOK
  <2>4. /\ disk' \in Associations /\ lasting' \in SUBSET Associations
        /\ value' \in Associations /\ blocked' \in BOOLEAN
    BY <1>1, WriteTypes DEF Prepare, OtherWrite, TypeOK
  <2>5. /\ receipt' \in [Requests -> States] /\ stable' \in [Requests -> SUBSET States]
        /\ torn' \in SUBSET Requests
    BY <1>1, <2>1, ReceiptTypes DEF Prepare, TypeOK, States
  <2> QED
    BY <1>1, <2>1, <2>2, <2>3, <2>4, <2>5 DEF Prepare, TypeOK, PC
<1>2. CASE Disclose
  <2>1. Association(request, "prepared") \in Associations
    BY <1>2, NamedTypes DEF Disclose, StepsOK
  <2>2. /\ disk' \in Associations /\ lasting' \in SUBSET Associations
        /\ value' \in Associations /\ blocked' \in BOOLEAN
    BY <1>2, <2>1, WriteTypes DEF Disclose, RefusedWrite, files, TypeOK
  <2> QED
    BY <1>2, <2>2 DEF Disclose, TypeOK, PC, StepsOK
<1>3. ASSUME Closes
      PROVE  /\ disk' \in Associations /\ lasting' \in SUBSET Associations
             /\ value' \in Associations /\ blocked' \in BOOLEAN
             /\ ready' \in {None} \cup Requests
  BY <1>3, WriteTypes, NamedTypes DEF Closes, TypeOK
<1>4. CASE Decline
  BY <1>4, <1>3 DEF Decline, TypeOK
<1>5. CASE Open
  <2>1. /\ disk' \in Associations /\ lasting' \in SUBSET Associations
        /\ value' \in Associations /\ blocked' \in BOOLEAN
    BY <1>5, WriteTypes DEF Open, OtherWrite, TypeOK
  <2> QED
    BY <1>5, <2>1 DEF Open, TypeOK
<1>6. CASE Consent \/ Cancel \/ Withdraw \/ Check
  <2>1. CASE Consent
    BY <2>1 DEF Consent, TypeOK, PC, files
  <2>2. CASE Cancel
    BY <2>2 DEF Cancel, TypeOK, files
  <2>3. CASE Withdraw
    BY <2>3 DEF Withdraw, StepsOK, TypeOK, PC, files
  <2>4. CASE Check
    BY <2>4 DEF Check, TypeOK, PC, files
  <2> QED
    BY <1>6, <2>1, <2>2, <2>3, <2>4
<1>7. CASE Issue
  <2>1. Association(request, "issued") \in Associations
    BY <1>7, NamedTypes DEF Issue, StepsOK
  <2>2. /\ disk' \in Associations /\ lasting' \in SUBSET Associations
        /\ value' \in Associations /\ blocked' \in BOOLEAN
        /\ ready' \in {None} \cup Requests
    BY <1>7, <2>1, <1>3, WriteTypes DEF Issue, files, TypeOK
  <2> QED
    BY <1>7, <2>2 DEF Issue, TypeOK, PC
<1>8. CASE Submit
  <2>1. /\ receipt' \in [Requests -> States] /\ stable' \in [Requests -> SUBSET States]
        /\ torn' \in SUBSET Requests
    BY <1>8, ReceiptTypes DEF Submit, StepsOK, States, TypeOK
  <2>2. /\ pc' \in PC /\ job' \in Jobs /\ cancel' \in BOOLEAN /\ result' \in {"ok", "err"}
    BY <1>8 DEF Submit, TypeOK, PC, Jobs
  <2>3. UNCHANGED <<files, output, process, outcome, request, gate, ready,
                    generationBlocked, seen, asked, accepted, withdrawn, orphans>>
    BY <1>8 DEF Submit
  <2> QED
    BY <2>1, <2>2, <2>3 DEF TypeOK, files
<1>9. CASE Receive \/ Join
  BY <1>9 DEF Receive, Join, TypeOK, PC, Jobs, files
<1>10. CASE Reconcile
  <2>1. CASE Reads(request)
    BY <1>10, <2>1, ReadTypes DEF Reconcile, StepsOK, TypeOK, PC, files
  <2>2. CASE UNCHANGED <<folders, torn>>
    BY <1>10, <2>2, ReadTypes DEF Reconcile, StepsOK, TypeOK, PC, files
  <2> QED
    BY <1>10, <2>1, <2>2 DEF Reconcile
<1>11. CASE Retain
  <2>1. Association(request, "completed") \in Associations /\ request \in Requests
    BY <1>11, NamedTypes DEF Retain, StepsOK
  <2>2. /\ disk' \in Associations /\ lasting' \in SUBSET Associations
        /\ value' \in Associations /\ blocked' \in BOOLEAN
    BY <1>11, <2>1, WriteTypes DEF Retain
  <2> QED
    BY <1>11, <2>1, <2>2 DEF Retain, TypeOK, PC
<1>12. CASE Clear
  <2>1. /\ disk' \in Associations /\ lasting' \in SUBSET Associations
        /\ value' \in Associations /\ blocked' \in BOOLEAN
    BY <1>12, WriteTypes, NamedTypes DEF Clear, files, TypeOK
  <2>2. request \in Requests
    BY <1>12 DEF Clear, StepsOK
  <2> QED
    BY <1>12, <2>1, <2>2 DEF Clear, TypeOK, PC
<1>13. CASE Inspect
  <2>1. value.request \in Requests
    BY <1>13, NamedTypes DEF Inspect, StepsOK, TypeOK
  <2>2. /\ receipt' \in [Requests -> States] /\ stable' \in [Requests -> SUBSET States]
        /\ torn' \in SUBSET Requests /\ output' \in SUBSET Requests
        /\ seen' \in States \cup {"unread"}
    BY <1>13, <2>1, ReadTypes DEF Inspect, TypeOK
  <2> QED
    BY <1>13, <2>1, <2>2 DEF Inspect, TypeOK, PC, files
<1>14. CASE Resolve
  <2>1. /\ disk' \in Associations /\ lasting' \in SUBSET Associations
        /\ value' \in Associations /\ blocked' \in BOOLEAN
    BY <1>14, WriteTypes, NamedTypes DEF Resolve, files, TypeOK
  <2>2. request \in Requests
    BY <1>14 DEF Resolve, StepsOK
  <2> QED
    BY <1>14, <2>1, <2>2 DEF Resolve, TypeOK, PC
<1>15. ASSUME job # "none" PROVE request \in Requests
  BY <1>15 DEF ThreadOK, StepsOK
<1>16. CASE Launch \/ Collect \/ Kill
  BY <1>16, <1>15 DEF Launch, Collect, Kill, Concludes, TypeOK, Jobs, files
<1>17. CASE Publish
  <2>1. Final \in States
    BY DEF Final, TypeOK, States
  <2>2. /\ receipt' \in [Requests -> States] /\ stable' \in [Requests -> SUBSET States]
        /\ torn' \in SUBSET Requests
    BY <1>17, <2>1, <1>15, ReceiptTypes DEF Publish, TypeOK
  <2> QED
    BY <1>17, <1>15, <2>2 DEF Publish, TypeOK, Jobs, files
<1>18. ASSUME NEW r \in Requests, ProcessEnds(r) PROVE TypeOK'
  BY <1>18 DEF ProcessEnds, TypeOK, files
<1>19. CASE Crash
  BY <1>19 DEF Crash, Forgets, TypeOK, PC, Jobs, States, files
<1>20. CASE PowerLoss
  BY <1>20 DEF PowerLoss, Forgets, Kept, TypeOK, PC, Jobs, States
<1>21. CASE Boot
  BY <1>21 DEF Boot, Reopened, TypeOK, PC, FilesOK, IInv
<1>22. CASE UNCHANGED vars
  BY <1>22 DEF vars, TypeOK
<1> QED
  BY <1>1, <1>2, <1>4, <1>5, <1>6, <1>7, <1>8, <1>9, <1>10, <1>11, <1>12, <1>13, <1>14,
     <1>16, <1>17, <1>18, <1>19, <1>20, <1>21, <1>22 DEF Next, Worker, Job

-----------------------------------------------------------------------------
\* The record and the host's copy.

\* A write by a host that lost no write before.
LEMMA WriteKeeps ==
    ASSUME FilesOK, pc # "down", ~ blocked,
           NEW p, Written(p) \/ RefusedWrite \/ UnresolvedWrite(p)
    PROVE  disk' \in lasting' /\ (~ blocked' => disk' = value' /\ lasting' = {value'})
BY DEF FilesOK, Written, RefusedWrite, UnresolvedWrite, files

\* Every write is made by a host that lost no write before.
LEMMA FilesStep ==
    ASSUME IInv, [Next]_vars
    PROVE  FilesOK'
<1> FilesOK /\ StepsOK
  BY DEF IInv
<1>1. ASSUME pc # "down", ~ blocked,
             \/ UNCHANGED files
             \/ \E p : Written(p) \/ RefusedWrite \/ UnresolvedWrite(p)
      PROVE  FilesOK'
  BY <1>1, WriteKeeps DEF FilesOK, files
<1>2. ASSUME UNCHANGED files, pc' # "down" => pc # "down" PROVE FilesOK'
  BY <1>2 DEF FilesOK, files
<1>3. ASSUME NEW k \in Kinds, Prepare(k) PROVE FilesOK'
  BY <1>1, <1>3 DEF Prepare, MayPrepare, OtherWrite
<1>4. CASE Disclose
  BY <1>1, <1>4 DEF Disclose, StepsOK
<1>5. CASE Decline
  BY <1>1, <1>5 DEF Decline, Closes
<1>6. CASE Open
  BY <1>1, <1>6 DEF Open, OtherWrite
<1>7. CASE Issue
  BY <1>1, <1>7 DEF Issue, Closes, StepsOK
<1>8. CASE Retain
  BY <1>1, <1>8 DEF Retain, StepsOK
<1>9. CASE Clear
  BY <1>1, <1>9 DEF Clear, StepsOK
<1>10. CASE Resolve
  BY <1>1, <1>10 DEF Resolve, StepsOK
<1>11. CASE Consent \/ Cancel \/ Withdraw \/ Check
  BY <1>2, <1>11 DEF Consent, Cancel, Withdraw, Check
<1>12. CASE Submit \/ Receive \/ Join \/ Reconcile \/ Inspect
  BY <1>2, <1>12 DEF Submit, Receive, Join, Reconcile, Inspect
<1>13. CASE Job
  BY <1>2, <1>13 DEF Job, Launch, Collect, Kill, Publish
<1>14. ASSUME NEW r \in Requests, ProcessEnds(r) PROVE FilesOK'
  BY <1>2, <1>14 DEF ProcessEnds
<1>15. CASE Crash
  BY <1>2, <1>15 DEF Crash, Forgets
<1>16. CASE PowerLoss
  BY <1>16 DEF PowerLoss, Forgets, Kept, FilesOK
<1>17. CASE Boot
  BY <1>17 DEF Boot, Reopened, FilesOK
<1>18. CASE UNCHANGED vars
  BY <1>2, <1>18 DEF vars, files
<1> QED
  BY <1>3, <1>4, <1>5, <1>6, <1>7, <1>8, <1>9, <1>10, <1>11, <1>12, <1>13, <1>14,
     <1>15, <1>16, <1>17, <1>18 DEF Next, Worker

-----------------------------------------------------------------------------
\* What the host knows at each step.

\* At rest, the host knows nothing that a step may disturb.
LEMMA RestsKnow ==
    ASSUME pc' \in {"down", "idle"}
    PROVE  StepsOK'
BY DEF StepsOK

\* No other process than that of the request named as issued.
LEMMA NoneLive ==
    ASSUME IInv, pc # "down", ~ blocked,
           \/ value.stage # "issued"
           \/ \E r \in Requests : value = Association(r, "issued") /\ ~ Live(r)
    PROVE  \A r \in Requests : ~ Live(r)
BY LiveIsValue, Named

\* A receipt that says how its request ended, or that nothing was launched, is not
\* that of a live process.
LEMMA ReadIsEnded ==
    ASSUME IInv, NEW r \in Requests, Reads(r),
           Resolved(seen') \/ seen' \in {"Prepared", "Validated"}
    PROVE  /\ ~ Live(r)
           /\ seen' = "Validated" => receipt'[r] = "Validated"
<1>1. seen' = receipt[r] /\ receipt' = receipt
  BY DEF Reads, Resolved, Terminal
<1>2. ~ Live(r)
  <2>1. receipt[r] \in Known(r) /\ receipt[r] \notin {"Running", "Interrupted"}
    BY <1>1 DEF Known, Resolved, Terminal
  <2> QED
    BY <2>1 DEF IInv, ReceiptsOK, ReceiptOK
<1> QED
  BY <1>1, <1>2

LEMMA StepsStep ==
    ASSUME IInv, [Next]_vars
    PROVE  StepsOK'
<1> TypeOK /\ StepsOK /\ ThreadOK
  BY DEF IInv
<1> USE DEF folders, thread, host, asked, ghosts, Forgotten, Dropped
<1>1. ASSUME NEW k \in Kinds, Prepare(k) PROVE StepsOK'
  <2>1. CASE pc' = "idle"
    BY <2>1, RestsKnow
  <2>2. CASE pc' = "disclosing"
    <3>1. request' \in Requests /\ ~ blocked' /\ value' = Nobody
      BY <1>1, <2>2, Identifiers DEF Prepare, MayPrepare, NewRequest, Written, TypeOK
    <3> QED
      BY <2>2, <3>1 DEF StepsOK
  <2> QED
    BY <1>1, <2>1, <2>2 DEF Prepare
<1>2. CASE Disclose \/ Decline \/ Open \/ Clear \/ Resolve \/ Crash \/ PowerLoss
  BY <1>2, RestsKnow
     DEF Disclose, Decline, Open, Clear, Resolve, Crash, PowerLoss, Rests, Forgets
<1>3. CASE Consent
  BY <1>3 DEF Consent, StepsOK, TypeOK, files
<1>4. CASE Cancel
  BY <1>4 DEF Cancel, StepsOK, Live, MayResolve, files
<1>5. CASE Withdraw
  BY <1>5 DEF Withdraw, StepsOK, files
<1>6. CASE Check
  BY <1>6 DEF Check, StepsOK, files
<1>7. CASE Issue
  <2>1. CASE pc' = "submitting"
    <3>1. value = Association(request, "prepared") /\ UNCHANGED <<process, request, blocked>>
          /\ value' = Association(request, "issued")
      BY <1>7, <2>1 DEF Issue, Rests, Written
    <3>2. \A r \in Requests : ~ Live(r)
      BY <1>7, <3>1, NoneLive, Named DEF Issue, StepsOK
    <3> QED
      BY <1>7, <2>1, <3>1, <3>2 DEF Issue, StepsOK, Live
  <2>2. CASE pc' = "idle"
    BY <2>2, RestsKnow
  <2> QED
    BY <1>7, <2>1, <2>2 DEF Issue, Rests
<1>8. CASE Submit
  BY <1>8 DEF Submit, StepsOK, Live, files
<1>9. CASE Receive \/ Join
  <2>1. /\ pc \in {"polling", "joining"} /\ pc' = "reconciling"
        /\ job \in {"done", "failed"}
        /\ UNCHANGED <<value, blocked, process, request, receipt>>
        /\ result' = "ok" => receipt[request] = "Validated"
    BY <1>9 DEF Receive, Join, files
  <2>2. \A r \in Requests : ~ Live(r)
    BY <2>1, NoneLive DEF StepsOK, ThreadOK
  <2> QED
    BY <2>1, <2>2 DEF StepsOK, Live
<1>10. CASE Reconcile
  <2>1. CASE pc' = "idle"
    BY <2>1, RestsKnow
  <2>2. CASE pc' \in {"retaining", "clearing"}
    <3>1. /\ pc = "reconciling" /\ Reads(request)
          /\ UNCHANGED <<value, blocked, process, request, result>>
          /\ pc' = "retaining" => result = "ok"
      BY <1>10, <2>2 DEF Reconcile, Rests, files
    <3>2. result = "ok" => receipt'[request] = "Validated"
      BY <3>1 DEF Reads, StepsOK
    <3>3. value = Association(request, "issued") => value.request = request /\ value.stage = "issued"
      BY Named
    <3> QED
      BY <2>2, <3>1, <3>2, <3>3 DEF StepsOK, Live
  <2> QED
    BY <1>10, <2>1, <2>2 DEF Reconcile, Rests
<1>11. CASE Retain
  <2>1. CASE pc' = "idle"
    BY <2>1, RestsKnow
  <2>2. CASE pc' = "clearing"
    <3>1. /\ pc = "retaining" /\ UNCHANGED <<blocked, process, receipt, request, result>>
          /\ value' = Association(request, "completed")
      BY <1>11, <2>2 DEF Retain, Rests, Written
    <3>2. value'.request = request /\ value'.stage = "completed"
      BY <3>1, Named
    <3> QED
      BY <2>2, <3>1, <3>2 DEF StepsOK, Live
  <2> QED
    BY <1>11, <2>1, <2>2 DEF Retain, Rests
<1>12. CASE Inspect
  <2>1. /\ pc = "checking" /\ pc' = "resolving" /\ ~ blocked
        /\ request' = value.request
        /\ UNCHANGED <<value, blocked, process>>
    BY <1>12 DEF Inspect, StepsOK, files
  <2>2. request' \in Requests
    BY <2>1, NamedTypes DEF StepsOK, TypeOK
  <2>3. CASE value.stage # "issued"
    <3>1. seen' = "unread" /\ \A r \in Requests : ~ Live(r)
      BY <1>12, <2>1, <2>3, NoneLive DEF Inspect
    <3> QED
      BY <2>1, <2>2, <3>1 DEF StepsOK, Live
  <2>4. CASE value.stage = "issued"
    <3>1. Reads(request') /\ value = Association(request', "issued")
      BY <1>12, <2>1, <2>4, NamedTypes DEF Inspect, StepsOK, TypeOK
    <3>2. MayResolve' => \A r \in Requests : ~ Live(r)
      <4>1. MayResolve' => Resolved(seen') \/ seen' = "Prepared"
        BY <2>1, <2>4 DEF MayResolve, Resolved
      <4> QED
        BY <2>1, <2>2, <3>1, <4>1, ReadIsEnded, NoneLive
    <3>3. seen' = "Validated" => receipt'[request'] = "Validated"
      BY <2>2, <3>1, ReadIsEnded
    <3> QED
      BY <2>1, <2>2, <3>2, <3>3 DEF StepsOK, Live
  <2> QED
    BY <2>3, <2>4
<1>13. CASE Job
  <2>1. pc \in {"polling", "joining"} /\ UNCHANGED <<pc, request, value, blocked>>
    BY <1>13 DEF Job, Launch, Collect, Kill, Publish, ThreadOK, files
  <2> QED
    BY <2>1 DEF StepsOK
<1>14. ASSUME NEW r \in Requests, ProcessEnds(r) PROVE StepsOK'
  <2>1. \A q \in Requests : Live(q)' => Live(q)
    BY <1>14 DEF ProcessEnds, Live, TypeOK
  <2> QED
    BY <1>14, <2>1 DEF ProcessEnds, StepsOK, MayResolve, files
<1>15. CASE Boot
  BY <1>15 DEF Boot, Reopened, StepsOK
<1>16. CASE UNCHANGED vars
  BY <1>16 DEF vars, StepsOK, Live, MayResolve
<1> QED
  BY <1>1, <1>2, <1>3, <1>4, <1>5, <1>6, <1>7, <1>8, <1>9, <1>10, <1>11, <1>12, <1>13,
     <1>14, <1>15, <1>16 DEF Next, Worker

-----------------------------------------------------------------------------
\* What the receipts say.

\* What a write of a receipt makes it say.
LEMMA KnownAfterWrite ==
    ASSUME TypeOK, NEW r \in Requests, NEW s
    PROVE  /\ Saved(r, s) => Known(r)' = {s} /\ torn' = torn
           /\ Failed(r, s) => \/ Known(r)' = Known(r) /\ torn' = torn /\ UNCHANGED <<receipt, stable>>
                              \/ /\ Known(r)' \subseteq Known(r) \cup {s} /\ s \in Known(r)'
                                 /\ torn' = torn \cup {r}
           /\ Saved(r, s) \/ Failed(r, s) =>
                /\ torn \subseteq torn'
                /\ \A q \in Requests : q # r => Known(q)' = Known(q)
BY DEF Saved, Failed, Known, TypeOK

LEMMA KnownAfterRead ==
    ASSUME TypeOK, NEW r \in Requests, Reads(r)
    PROVE  /\ torn \subseteq torn'
           /\ \A q \in Requests : Known(q)' # Known(q) =>
                "Running" \in Known(q) /\ Known(q)' \subseteq Known(q) \cup {"Interrupted"}
<1>1. CASE receipt[r] = "Running"
  <2>1. "Running" \in Known(r)
    BY <1>1 DEF Known
  <2>2. \A q \in Requests : q # r => Known(q)' = Known(q)
    BY <1>1, KnownAfterWrite DEF Reads
  <2>3. Known(r)' \subseteq Known(r) \cup {"Interrupted"} /\ torn \subseteq torn'
    BY <1>1, KnownAfterWrite DEF Reads
  <2> QED
    BY <2>1, <2>2, <2>3
<1>2. CASE receipt[r] # "Running"
  BY <1>2 DEF Reads, Known
<1> QED
  BY <1>1, <1>2

\* A receipt that says the same, or that the request was interrupted.
LEMMA ReceiptKept ==
    ASSUME NEW r \in Requests, ReceiptOK(r), requests \in Nat, requests' \in Nat, r \in Nat,
           requests <= requests',
           \/ Known(r)' = Known(r)
           \/ "Running" \in Known(r) /\ Known(r)' \subseteq Known(r) \cup {"Interrupted"},
           r \in accepted' => r \in accepted, r \in withdrawn' => r \in withdrawn,
           r \in orphans' => r \in orphans, r \in torn => r \in torn',
           Live(r)' => Live(r)
    PROVE  ReceiptOK(r)'
<1>1. r > requests' => r > requests
  OBVIOUS
<1>2. (r > requests => Known(r) = {"none"})'
  BY <1>1 DEF ReceiptOK
<1>3. Known(r)' \cap Early # {} => Known(r) \cap Early # {}
  BY DEF Early
<1> QED
  BY <1>2, <1>3 DEF ReceiptOK, Early

\* An answer taken is one the receipt validates.
LEMMA AcceptedKept ==
    ASSUME IInv, NEW r \in Requests, receipt[r] = "Validated",
           UNCHANGED <<receipt, stable, process, requests, withdrawn, torn, orphans>>,
           accepted' = accepted \cup {r}
    PROVE  ReceiptsOK'
<1> SUFFICES ASSUME NEW q \in Requests PROVE ReceiptOK(q)'
  BY DEF ReceiptsOK
<1>1. ReceiptOK(q) /\ Known(q)' = Known(q) /\ Live(q)' = Live(q)
  BY DEF IInv, ReceiptsOK, Known, Live
<1>2. CASE q = r
  BY <1>1, <1>2, ValidatedIsFree DEF ReceiptOK
<1>3. CASE q # r
  BY <1>1, <1>3 DEF ReceiptOK
<1> QED
  BY <1>2, <1>3

LEMMA ReceiptsStep ==
    ASSUME IInv, [Next]_vars
    PROVE  ReceiptsOK'
<1> TypeOK /\ StepsOK /\ ReceiptsOK /\ ThreadOK
  BY DEF IInv
<1>a. requests \in Nat /\ \A r \in Requests : r \in Nat
  BY Identifiers DEF TypeOK
<1> USE DEF folders, thread, host, asked, ghosts, Rests, Forgotten, Dropped
\* Steps that leave every receipt as it is, or note an interruption.
<1>1. ASSUME requests' = requests, torn \subseteq torn',
             UNCHANGED <<accepted, withdrawn, orphans>>,
             \A r \in Requests : Live(r)' => Live(r),
             \A r \in Requests :
                \/ Known(r)' = Known(r)
                \/ "Running" \in Known(r) /\ Known(r)' \subseteq Known(r) \cup {"Interrupted"}
      PROVE  ReceiptsOK'
  BY <1>1, <1>a, ReceiptKept DEF ReceiptsOK
<1>2. ASSUME UNCHANGED <<receipt, stable, torn, process, requests, accepted, withdrawn, orphans>>
      PROVE  ReceiptsOK'
  BY <1>1, <1>2 DEF Known, Live
<1>3. ASSUME NEW k \in Kinds, Prepare(k) PROVE ReceiptsOK'
  <2> PICK n \in Requests : n = requests + 1
    BY <1>3, Identifiers DEF Prepare, NewRequest, TypeOK
  <2>1. /\ requests' = requests + 1 
        /\ UNCHANGED <<process, accepted, withdrawn, orphans>>
    BY <1>3 DEF Prepare, NewRequest
  <2>2. /\ torn \subseteq torn'
        /\ \A r \in Requests : r # n => Known(r)' = Known(r)
        /\ Known(n)' \subseteq Known(n) \cup {"Prepared"}
        /\ Known(n)' # {}
    <3>1. CASE UNCHANGED <<receipt, stable, torn>>
      BY <3>1 DEF Known
    <3>2. CASE Failed(n, "Prepared") \/ Saved(n, "Prepared")
      BY <2>1, <3>2, KnownAfterWrite DEF Known
    <3> QED
      BY <1>3, <3>1, <3>2 DEF Prepare
  <2> SUFFICES ASSUME NEW r \in Requests PROVE ReceiptOK(r)'
    BY DEF ReceiptsOK
  <2>3. CASE r = n
    <3>1. Known(r) = {"none"} /\ r \notin accepted \cup withdrawn \cup orphans /\ ~ Live(r)
      BY <1>a, <2>1, <2>3 DEF ReceiptsOK, ReceiptOK, Early
    <3>2. Known(r)' \subseteq {"none", "Prepared"} /\ ~ (r > requests')
      BY <1>a, <2>1, <2>2, <2>3, <3>1
    <3>3. ~ Live(r)' /\ r \notin accepted' \cup withdrawn' \cup orphans'
      BY <2>1, <3>1 DEF Live
    <3> QED
      BY <3>2, <3>3 DEF ReceiptOK, Early
  <2>4. CASE r # n
    <3>1. Live(r)' = Live(r) /\ ReceiptOK(r)
      BY <2>1 DEF Live, ReceiptsOK
    <3> QED
      BY <1>a, <2>1, <2>2, <2>4, <3>1, ReceiptKept
  <2> QED
    BY <2>3, <2>4
<1>4. CASE Disclose \/ Decline \/ Open \/ Consent \/ Cancel \/ Check \/ Issue \/ Receive
           \/ Join \/ Boot
  BY <1>2, <1>4 DEF Disclose, Decline, Open, Consent, Cancel, Check, Issue, Receive, Join, Boot
<1>5. CASE Withdraw
  <2>1. /\ pc = "polling" /\ request \in Requests
        /\ UNCHANGED <<receipt, stable, torn, process, requests, accepted, orphans>>
        /\ \/ withdrawn' = withdrawn
           \/ job # "done" /\ withdrawn' = withdrawn \cup {request}
    BY <1>5 DEF Withdraw, StepsOK
  <2>2. CASE withdrawn' = withdrawn
    BY <1>2, <2>1, <2>2
  <2>3. CASE job # "done" /\ withdrawn' = withdrawn \cup {request}
    <3>1. /\ Known(request) \cap Early = {} /\ request \notin accepted
          /\ request \notin torn => Known(request) = {"Running"}
      BY <2>1, <2>3 DEF ThreadOK, TypeOK, Jobs
    <3> SUFFICES ASSUME NEW r \in Requests PROVE ReceiptOK(r)'
      BY DEF ReceiptsOK
    <3>2. ReceiptOK(r) /\ Known(r)' = Known(r) /\ Live(r)' = Live(r)
      BY <2>1 DEF ReceiptsOK, Known, Live
    <3> QED
      BY <2>1, <2>3, <3>1, <3>2 DEF ReceiptOK
  <2> QED
    BY <2>1, <2>2, <2>3
<1>6. CASE Submit
  <2>1. /\ UNCHANGED <<process, request, requests, accepted, withdrawn, orphans>>
        /\ request \in Requests
        /\ \/ UNCHANGED <<receipt, stable, torn>>
           \/ receipt[request] = "Prepared" /\ (Saved(request, "Running") \/ Failed(request, "Running"))
    BY <1>6 DEF Submit, StepsOK
  <2>2. CASE UNCHANGED <<receipt, stable, torn>>
    BY <1>2, <2>1, <2>2
  <2>3. CASE receipt[request] = "Prepared" /\ (Saved(request, "Running") \/ Failed(request, "Running"))
    <3>1. /\ "Prepared" \in Known(request)
          /\ Known(request) \subseteq Early \cup {"Running", "Interrupted"}
          /\ request \notin accepted \cup withdrawn \cup orphans /\ ~ Live(request)
          /\ ~ (request > requests)
      <4>1. "Prepared" \in Known(request) /\ ReceiptOK(request)
        BY <2>1, <2>3 DEF Known, ReceiptsOK
      <4> QED
        BY <4>1 DEF ReceiptOK, Early
    <3>2. /\ torn \subseteq torn'
          /\ \A r \in Requests : r # request => Known(r)' = Known(r)
          /\ Known(request)' \subseteq Known(request) \cup {"Running"}
      BY <2>1, <2>3, KnownAfterWrite
    <3> SUFFICES ASSUME NEW r \in Requests PROVE ReceiptOK(r)'
      BY DEF ReceiptsOK
    <3>3. CASE r = request
      BY <2>1, <3>1, <3>2, <3>3 DEF ReceiptOK, Early, Live
    <3>4. CASE r # request
      <4>1. ReceiptOK(r) /\ Live(r)' = Live(r)
        BY <2>1 DEF ReceiptsOK, Live
      <4> QED
        BY <1>a, <2>1, <3>2, <3>4, <4>1, ReceiptKept
    <3> QED
      BY <3>3, <3>4
  <2> QED
    BY <2>1, <2>2, <2>3
<1>7. CASE Reconcile
  <2>1. CASE UNCHANGED <<receipt, stable, torn>>
    BY <1>2, <1>7, <2>1 DEF Reconcile
  <2>2. CASE Reads(request)
    BY <1>1, <1>7, <2>2, KnownAfterRead DEF Reconcile, StepsOK, Live
  <2> QED
    BY <1>7, <2>1, <2>2 DEF Reconcile
<1>8. CASE Inspect
  <2>1. value.request \in Requests
    BY <1>8, NamedTypes DEF Inspect, StepsOK, TypeOK
  <2>2. CASE UNCHANGED <<receipt, stable, torn>>
    BY <1>2, <1>8, <2>2 DEF Inspect
  <2>3. CASE Reads(value.request)
    BY <1>1, <1>8, <2>1, <2>3, KnownAfterRead DEF Inspect, Live
  <2> QED
    BY <1>8, <2>2, <2>3 DEF Inspect
<1>9. CASE Retain
  BY <1>2, <1>9, AcceptedKept DEF Retain, StepsOK
<1>10. CASE Clear
  BY <1>2, <1>10, AcceptedKept DEF Clear, StepsOK
<1>11. CASE Resolve
  BY <1>2, <1>11, AcceptedKept DEF Resolve, Ingested, StepsOK
<1>12. CASE Launch
  <2>1. CASE process' = process
    BY <1>2, <1>12, <2>1 DEF Launch
  <2>2. CASE process' = [process EXCEPT ![request] = "live"]
    <3>1. /\ request \in Requests /\ Known(request) = {"Running"} /\ request \notin accepted
          /\ UNCHANGED <<receipt, stable, torn, requests, accepted, withdrawn, orphans>>
      BY <1>12 DEF Launch, ThreadOK, StepsOK
    <3> SUFFICES ASSUME NEW r \in Requests PROVE ReceiptOK(r)'
      BY DEF ReceiptsOK
    <3>2. ReceiptOK(r) /\ Known(r)' = Known(r) /\ (r # request => Live(r)' = Live(r))
      BY <2>2, <3>1 DEF ReceiptsOK, Known, Live, TypeOK
    <3> QED
      BY <3>1, <3>2 DEF ReceiptOK
  <2> QED
    BY <1>12, <2>1, <2>2 DEF Launch
<1>13. CASE Collect
  BY <1>2, <1>13 DEF Collect
<1>14. CASE Kill
  <2>1. \A r \in Requests : Live(r)' => Live(r)
    BY <1>14 DEF Kill, Live, TypeOK
  <2> QED
    BY <1>1, <1>14, <2>1 DEF Kill, Known
<1>15. CASE Publish
  <2>1. /\ request \in Requests /\ Known(request) = {"Running"}
        /\ request \notin accepted \cup orphans /\ ~ Live(request)
        /\ request \in withdrawn => Final = "Cancelled"
        /\ Final \in {"Validated", "Cancelled", "Failed"}
        /\ UNCHANGED <<process, request, requests, accepted, withdrawn, orphans>>
    BY <1>15 DEF Publish, ThreadOK, StepsOK, Final, TypeOK
  <2>2. CASE UNCHANGED <<receipt, stable, torn>>
    BY <1>2, <2>1, <2>2
  <2>3. CASE Saved(request, Final) \/ Failed(request, Final)
    <3>1. /\ torn \subseteq torn'
          /\ \A r \in Requests : r # request => Known(r)' = Known(r)
          /\ Known(request)' \subseteq {"Running", Final}
      BY <2>1, <2>3, KnownAfterWrite
    <3> SUFFICES ASSUME NEW r \in Requests PROVE ReceiptOK(r)'
      BY DEF ReceiptsOK
    <3>2. CASE r = request
      <4>1. ~ (r > requests) /\ ~ Live(r)'
        BY <2>1, <3>2 DEF ReceiptsOK, ReceiptOK, Live
      <4> QED
        BY <2>1, <3>1, <3>2, <4>1 DEF ReceiptOK, Early
    <3>3. CASE r # request
      <4>1. ReceiptOK(r) /\ Live(r)' = Live(r)
        BY <2>1 DEF ReceiptsOK, Live
      <4> QED
        BY <1>a, <2>1, <3>1, <3>3, <4>1, ReceiptKept
    <3> QED
      BY <3>2, <3>3
  <2> QED
    BY <1>15, <2>2, <2>3 DEF Publish
<1>16. ASSUME NEW q \in Requests, ProcessEnds(q) PROVE ReceiptsOK'
  <2>1. \A r \in Requests : Live(r)' => Live(r)
    BY <1>16 DEF ProcessEnds, Live, TypeOK
  <2> QED
    BY <1>1, <1>16, <2>1 DEF ProcessEnds, Known
<1>17. CASE Crash
  <2>1. /\ UNCHANGED <<receipt, stable, torn, process, requests, accepted, withdrawn>>
        /\ orphans' = orphans \cup {r \in Requests : process[r] = "live"}
    BY <1>17 DEF Crash
  <2> SUFFICES ASSUME NEW r \in Requests PROVE ReceiptOK(r)'
    BY DEF ReceiptsOK
  <2>2. ReceiptOK(r) /\ Known(r)' = Known(r) /\ Live(r)' = Live(r)
        /\ (r \in orphans' <=> r \in orphans \/ Live(r))
    BY <2>1 DEF ReceiptsOK, Known, Live
  <2> QED
    BY <2>1, <2>2 DEF ReceiptOK, Early
<1>18. CASE PowerLoss
  <2> SUFFICES ASSUME NEW r \in Requests PROVE ReceiptOK(r)'
    BY DEF ReceiptsOK
  <2>1. \E s \in Known(r) : Known(r)' = {s}
    BY <1>18 DEF PowerLoss, Known
  <2>2. ReceiptOK(r) /\ ~ Live(r)' /\ UNCHANGED <<requests, accepted, withdrawn, orphans, torn>>
    BY <1>18 DEF PowerLoss, ReceiptsOK, Live
  <2> QED
    BY <2>1, <2>2 DEF ReceiptOK, Early
<1>19. CASE UNCHANGED vars
  BY <1>2, <1>19 DEF vars
<1> QED
  BY <1>3, <1>4, <1>5, <1>6, <1>7, <1>8, <1>9, <1>10, <1>11, <1>12, <1>13, <1>14, <1>15,
     <1>16, <1>17, <1>18, <1>19 DEF Next, Worker, Job

-----------------------------------------------------------------------------
\* What the job's thread has published.

\* No thread, and nobody waits for one.
LEMMA NoThread ==
    ASSUME job' = "none", pc' \notin {"polling", "joining"}
    PROVE  ThreadOK'
BY DEF ThreadOK

LEMMA ThreadStep ==
    ASSUME IInv, [Next]_vars
    PROVE  ThreadOK'
<1> TypeOK /\ StepsOK /\ ReceiptsOK /\ ThreadOK
  BY DEF IInv
<1> USE DEF folders, thread, host, asked, ghosts, Rests, Forgotten, Dropped
<1>1. ASSUME NEW k \in Kinds, Prepare(k) PROVE ThreadOK'
  <2>1. job' = "none" /\ pc' \notin {"polling", "joining"}
    BY <1>1 DEF Prepare, ThreadOK
  <2> QED
    BY <2>1, NoThread
<1>2. CASE Disclose \/ Decline \/ Open \/ Consent \/ Check \/ Issue
  <2>1. job' = "none" /\ pc' \notin {"polling", "joining"}
    BY <1>2 DEF Disclose, Decline, Open, Consent, Check, Issue, ThreadOK
  <2> QED
    BY <2>1, NoThread
<1>3. CASE Receive \/ Join \/ Reconcile \/ Retain
  <2>1. job' = "none" /\ pc' \notin {"polling", "joining"}
    BY <1>3 DEF Receive, Join, Reconcile, Retain, ThreadOK
  <2> QED
    BY <2>1, NoThread
<1>4. CASE Clear \/ Inspect \/ Resolve \/ Crash \/ PowerLoss \/ Boot
  <2>1. job' = "none" /\ pc' \notin {"polling", "joining"}
    BY <1>4 DEF Clear, Inspect, Resolve, Crash, PowerLoss, Boot, Forgets, ThreadOK
  <2> QED
    BY <2>1, NoThread
<1>5. CASE Cancel \/ UNCHANGED vars
  BY <1>5 DEF Cancel, vars, ThreadOK, Known, Live
<1>6. CASE Withdraw
  BY <1>6 DEF Withdraw, ThreadOK, Known, Live
<1>7. CASE Submit
  <2>1. CASE pc' = "reconciling"
    <3>1. job' = "none"
      BY <1>7, <2>1 DEF Submit, ThreadOK
    <3> QED
      BY <2>1, <3>1, NoThread
  <2>2. CASE pc' = "polling"
    <3>1. /\ receipt[request] = "Prepared" /\ Saved(request, "Running") /\ job' = "launching"
          /\ request \in Requests
          /\ UNCHANGED <<process, request, accepted, withdrawn, orphans>>
      BY <1>7, <2>2 DEF Submit, StepsOK
    <3>2. Known(request)' = {"Running"}
      BY <3>1, KnownAfterWrite
    <3>3. request \notin accepted \cup withdrawn \cup orphans /\ ~ Live(request)
      <4>1. "Prepared" \in Known(request) /\ ReceiptOK(request)
        BY <3>1 DEF Known, ReceiptsOK
      <4> QED
        BY <4>1 DEF ReceiptOK, Early
    <3> QED
      BY <2>2, <3>1, <3>2, <3>3 DEF ThreadOK, Early, Live
  <2> QED
    BY <1>7, <2>1, <2>2 DEF Submit
<1>8. CASE Launch \/ Collect \/ Kill
  <2>1. /\ job \in {"launching", "running"} /\ job' \in {"running", "publishing"}
        /\ request \in Requests
        /\ UNCHANGED <<receipt, stable, pc, cancel, request, accepted, withdrawn, torn, orphans>>
        /\ Live(request)' => job' = "running"
    BY <1>8 DEF Launch, Collect, Kill, Concludes, ThreadOK, StepsOK, Live, TypeOK
  <2> QED
    BY <2>1 DEF ThreadOK, Known
<1>9. CASE Publish
  <2>1. /\ request \in Requests /\ Known(request) = {"Running"} /\ ~ Live(request)
        /\ job' \in {"done", "failed"} /\ Final \notin Early /\ pc \in {"polling", "joining"}
        /\ UNCHANGED <<process, request, pc, cancel, accepted, withdrawn, orphans>>
    BY <1>9 DEF Publish, ThreadOK, StepsOK, Final, TypeOK, Early
  <2>2. CASE UNCHANGED <<receipt, stable, torn>>
    BY <1>9, <2>1, <2>2 DEF Publish, ThreadOK, Known, Live
  <2>3. CASE Saved(request, Final) /\ job' = "done"
    <3>1. Known(request)' = {Final}
      BY <2>1, <2>3, KnownAfterWrite
    <3> QED
      BY <2>1, <2>3, <3>1 DEF ThreadOK, Live
  <2>4. CASE Failed(request, Final) /\ job' = "failed"
    <3>1. \/ Known(request)' = {"Running"}
          \/ Known(request)' \subseteq {"Running", Final} /\ request \in torn'
      BY <2>1, <2>4, KnownAfterWrite
    <3> QED
      BY <2>1, <2>4, <3>1 DEF ThreadOK, Live, Early
  <2> QED
    BY <1>9, <2>2, <2>3, <2>4 DEF Publish
<1>10. ASSUME NEW r \in Requests, ProcessEnds(r) PROVE ThreadOK'
  <2>1. Live(request)' => Live(request)
    BY <1>10 DEF ProcessEnds, Live, TypeOK
  <2> QED
    BY <1>10, <2>1 DEF ProcessEnds, ThreadOK, Known
<1> QED
  BY <1>1, <1>2, <1>3, <1>4, <1>5, <1>6, <1>7, <1>8, <1>9, <1>10 DEF Next, Worker, Job

-----------------------------------------------------------------------------
\* The record names what runs.

\* No write takes an issued request off the record, as far as a power loss may tell,
\* unless it names another.
LEMMA WriteOfSame ==
    ASSUME FilesOK, pc # "down", ~ blocked,
           Written(value) \/ RefusedWrite \/ UnresolvedWrite(value)
    PROVE  lasting' = lasting
BY DEF FilesOK, Written, RefusedWrite, UnresolvedWrite, files

LEMMA RecordedStep ==
    ASSUME IInv, [Next]_vars
    PROVE  LiveIsRecorded'
<1> TypeOK /\ FilesOK /\ StepsOK /\ ThreadOK /\ LiveIsRecorded
  BY DEF IInv
<1> USE DEF folders, thread, host, asked, ghosts
<1>1. ASSUME process' = process, lasting' = lasting \/ \A r \in Requests : ~ Live(r)
      PROVE  LiveIsRecorded'
  BY <1>1 DEF LiveIsRecorded, Live
<1>2. ASSUME NEW k \in Kinds, Prepare(k) PROVE LiveIsRecorded'
  <2>1. \A r \in Requests : ~ Live(r)
    BY <1>2, NoneLive, NamedTypes DEF Prepare, MayPrepare
  <2> QED
    BY <1>1, <1>2, <2>1 DEF Prepare
<1>3. CASE Disclose
  <2>1. \A r \in Requests : ~ Live(r)
    BY <1>3, NoneLive, NamedTypes DEF Disclose, StepsOK
  <2> QED
    BY <1>1, <1>3, <2>1 DEF Disclose
<1>4. ASSUME Closes, pc # "down", ~ blocked, process' = process PROVE LiveIsRecorded'
  <2>1. CASE value.stage = "prepared"
    BY <1>1, <1>4, <2>1, NoneLive
  <2>2. CASE value.stage # "prepared"
    BY <1>1, <1>4, <2>2, WriteOfSame DEF Closes
  <2> QED
    BY <2>1, <2>2
<1>5. CASE Decline
  BY <1>4, <1>5 DEF Decline
<1>6. CASE Open
  BY <1>1, <1>6, WriteOfSame DEF Open, OtherWrite
<1>7. CASE Issue
  <2>1. CASE value = Association(request, "prepared")
    <3>1. value.stage = "prepared"
      BY <2>1, Named
    <3>2. \A r \in Requests : ~ Live(r)
      BY <1>7, <3>1, NoneLive DEF Issue, StepsOK
    <3> QED
      BY <1>1, <1>7, <3>2 DEF Issue
  <2>2. CASE value # Association(request, "prepared")
    <3>1. UNCHANGED files \/ Closes
      BY <1>7, <2>2 DEF Issue
    <3>2. CASE UNCHANGED files
      BY <1>1, <1>7, <3>2 DEF Issue, files
    <3> QED
      BY <1>4, <1>7, <3>1, <3>2 DEF Issue, StepsOK
  <2> QED
    BY <2>1, <2>2
<1>8. CASE Retain \/ Clear
  <2>1. \A r \in Requests : ~ Live(r)
    BY <1>8 DEF Retain, Clear, StepsOK
  <2> QED
    BY <1>1, <1>8, <2>1 DEF Retain, Clear
<1>9. CASE Resolve
  <2>1. CASE MayResolve
    BY <1>1, <1>9, <2>1 DEF Resolve, StepsOK
  <2>2. CASE ~ MayResolve
    BY <1>1, <1>9, <2>2 DEF Resolve, files
  <2> QED
    BY <2>1, <2>2
<1>10. CASE Consent \/ Cancel \/ Withdraw \/ Check \/ Submit \/ Receive \/ Join
  BY <1>1, <1>10 DEF Consent, Cancel, Withdraw, Check, Submit, Receive, Join, files
<1>11. CASE Reconcile \/ Inspect \/ Crash \/ Collect \/ Publish \/ UNCHANGED vars
  BY <1>1, <1>11 DEF Reconcile, Inspect, Crash, Collect, Publish, files, vars
<1>12. CASE Launch
  <2>1. /\ pc \in {"polling", "joining"} /\ request \in Requests /\ lasting' = lasting
        /\ lasting = {Association(request, "issued")}
        /\ \A r \in Requests : r # request => process'[r] = process[r]
    BY <1>12 DEF Launch, ThreadOK, StepsOK, FilesOK, TypeOK, files
  <2> QED
    BY <2>1 DEF LiveIsRecorded
<1>13. CASE Kill \/ \E r \in Requests : ProcessEnds(r)
  <2>1. lasting' = lasting /\ \A r \in Requests : Live(r)' => Live(r)
    BY <1>13 DEF Kill, ProcessEnds, Live, TypeOK, files
  <2> QED
    BY <2>1 DEF LiveIsRecorded, Live
<1>14. CASE PowerLoss
  BY <1>14 DEF PowerLoss, LiveIsRecorded
<1>15. CASE Boot
  <2>1. process' = process /\ lasting' = {disk} /\ disk \in lasting
    BY <1>15 DEF Boot, Reopened, FilesOK
  <2> QED
    BY <2>1 DEF LiveIsRecorded
<1> QED
  BY <1>2, <1>3, <1>5, <1>6, <1>7, <1>8, <1>9, <1>10, <1>11, <1>12, <1>13, <1>14, <1>15
     DEF Next, Worker, Job

-----------------------------------------------------------------------------
\* The theorems.

LEMMA Inductive == Spec => []IInv
<1>1. IInv /\ [Next]_vars => IInv'
  BY TypeStep, FilesStep, StepsStep, ReceiptsStep, ThreadStep, RecordedStep DEF IInv
<1> QED
  BY <1>1, InitIInv, PTL DEF Spec

\* Every variable keeps its type.
THEOREM TypeCorrect == Spec => []TypeOK
<1>1. IInv => TypeOK
  BY DEF IInv
<1> QED
  BY <1>1, Inductive, PTL

\* Whatever fails, crashes or is cancelled, a provider's process runs only while the
\* restart record names its request as issued, whichever of its states a power loss
\* leaves; and no answer is taken that came after its host was gone, or after a
\* cancellation was accepted, its torn receipt apart.
THEOREM AccountedCorrect == Spec => []RequestsAreAccounted
<1>1. IInv => RequestsAreAccounted
  <2> SUFFICES ASSUME IInv PROVE NothingLateIsAccepted
    BY DEF IInv, RequestsAreAccounted
  <2>1. accepted \subseteq Requests /\ \A r \in Requests : ReceiptOK(r)
    BY DEF IInv, TypeOK, ReceiptsOK
  <2> QED
    BY <2>1 DEF NothingLateIsAccepted, LateIsNeverAccepted, CancelledIsNotAccepted, ReceiptOK
<1> QED
  BY <1>1, Inductive, PTL

\* Nothing is launched twice: a request whose process runs, was orphaned, or was
\* withdrawn has a receipt that no submission accepts, so that it is not sent again
\* after a crash or a power loss.
THEOREM NotSentAgain ==
    Spec => [](\A r \in Requests :
                 process[r] = "live" \/ r \in orphans \cup withdrawn =>
                   receipt[r] \notin {"none", "Prepared"})
<1>1. IInv => \A r \in Requests :
                process[r] = "live" \/ r \in orphans \cup withdrawn =>
                  receipt[r] \notin {"none", "Prepared"}
  <2> SUFFICES ASSUME IInv, NEW r \in Requests,
                      process[r] = "live" \/ r \in orphans \cup withdrawn
               PROVE  receipt[r] \notin Early
    BY DEF Early
  <2>1. ReceiptOK(r) /\ receipt[r] \in Known(r)
    BY DEF IInv, ReceiptsOK, Known
  <2> QED
    BY <2>1 DEF ReceiptOK, Live, Early
<1> QED
  BY <1>1, Inductive, PTL
=============================================================================
