------------------------- MODULE ProductStoreProofs -------------------------
(***************************************************************************)
(* Proofs about ProductStore, for any number of processes, operations,     *)
(* revisions and power losses, on any file system.                         *)
(***************************************************************************)
EXTENDS ProductStore, TLAPS

Writers == {"apply", "adopt", "create"}
Holding == {"read", "pointed", "checked", "objectRenamed", "ready", "currentRenamed"}
Saving  == {"checked", "objectRenamed", "ready"}

\* What a handle's position says about its call and the lock.
CallOK(h) ==
    /\ pc[h] = "made" => job[h].kind = "create"
    /\ pc[h] = "extensionRenamed" => job[h].kind = "stage"
    /\ pc[h] \in Holding => job[h].kind # "stage"
    /\ pc[h] \in Saving \cup {"currentRenamed"} => job[h].kind \in Writers
    /\ pc[h] = "pointed" => job[h].kind # "create"
    /\ pc[h] \in Holding /\ job[h].kind \in Writers => lock = h
    /\ pc[h] \in Saving \cup {"pointed", "currentRenamed"} => job[h].next \in Snapshot
    /\ pc[h] # "idle" /\ job[h].kind = "create" => job[h].next \in Seeds
    /\ pc[h] # "idle" /\ job[h].kind \in {"apply", "adopt"} =>
         /\ job[h].basis \in Snapshot
         /\ job[h].operation \in Operations
         /\ job[h].request \in Request

CallsOK == \A h \in Handles : CallOK(h)

\* Everything a handle remembers is an earlier state of CURRENT, and what a
\* writer is about to save is one receipt more than CURRENT.
PastOK(h) ==
    /\ view[h] # None => current # None /\ Prefix(view[h], current)
    /\ pc[h] # "idle" /\ job[h].kind \in {"apply", "adopt"} =>
         current # None /\ Prefix(job[h].basis, current)
    /\ pc[h] = "pointed" =>
         /\ current # None
         /\ Prefix(job[h].next, current)
         /\ job[h].kind \in Writers => job[h].next = current
    /\ pc[h] \in Saving /\ job[h].kind = "create" => current = None
    /\ pc[h] \in Saving /\ job[h].kind # "create" =>
         /\ job[h].basis = current
         /\ \A r \in current.receipts : r.operation # job[h].operation
         /\ current.revision < MaxRevision
         /\ job[h].next = Successor(current, job[h].operation, job[h].request)
    /\ pc[h] = "currentRenamed" => current = job[h].next
    /\ pc[h] = "currentRenamed" /\ job[h].kind # "create" =>
         OwnReceipt(h) \in current.receipts

HistoryOK ==
    /\ current # None => Linear(current)
    /\ \A s \in RecoverablePointers : s # None => Linear(s)
    /\ \A h \in Handles : PastOK(h)

IInv == TypeOK /\ CallsOK /\ HistoryOK

-----------------------------------------------------------------------------
\* An installed object or pointer is a snapshot of the right kind.
LEMMA FileTypes ==
    /\ \A s : Object(s) \in File => s \in Snapshot
    /\ \A t : Extension(t) \in File => t \in Targets
    /\ \A s \in Snapshot : Object(s) \in File /\ Pointer(s) \in Rename
    /\ \A t \in Targets : Extension(t) \in File
    /\ \A f \in Rename : f.name = "CURRENT" => f.of \in Snapshot
BY DEF Object, Extension, Pointer, File, Rename

\* A successor is a snapshot, and keeps the history of its predecessor.
LEMMA SuccessorType ==
    ASSUME NEW s \in Snapshot, NEW o \in Operations, NEW q \in Request,
           s.revision < MaxRevision
    PROVE  Successor(s, o, q) \in Snapshot
<1>1. s.revision + 1 \in 1 .. MaxRevision /\ s.revision + 1 \in 0 .. MaxRevision
  BY ConstantsAssumption DEF Snapshot
<1>2. [operation |-> o, request |-> q, revision |-> s.revision + 1] \in Receipt
  BY <1>1 DEF Receipt
<1> QED
  BY <1>1, <1>2 DEF Successor, Snapshot

LEMMA SuccessorLinear ==
    ASSUME NEW s \in Snapshot, NEW o \in Operations, NEW q \in Request,
           s.revision < MaxRevision, Linear(s),
           \A r \in s.receipts : r.operation # o
    PROVE  /\ Linear(Successor(s, o, q))
           /\ \A p \in Snapshot : Prefix(p, s) => Prefix(p, Successor(s, o, q))
<1> DEFINE new == [operation |-> o, request |-> q, revision |-> s.revision + 1]
<1>1. s.revision \in Nat /\ \A r \in s.receipts : r.revision \in Nat /\ r.revision < s.revision + 1
  BY ConstantsAssumption DEF Snapshot, Receipt, Linear
<1>2. Successor(s, o, q).revision = s.revision + 1
      /\ Successor(s, o, q).receipts = s.receipts \cup {new}
  BY DEF Successor
<1>3. Linear(Successor(s, o, q))
  BY <1>1, <1>2 DEF Linear
<1>4. ASSUME NEW p \in Snapshot, Prefix(p, s)
      PROVE  Prefix(p, Successor(s, o, q))
  BY <1>1, <1>2, <1>4, ConstantsAssumption DEF Prefix, Snapshot
<1> QED
  BY <1>3, <1>4

\* A snapshot is a prefix of itself, and the only one at its own revision.
LEMMA PrefixItself ==
    ASSUME NEW s \in Snapshot, Linear(s)
    PROVE  /\ Prefix(s, s)
           /\ \A p \in Snapshot : Prefix(p, s) /\ p.revision = s.revision => p = s
<1>1. s.revision \in Nat /\ \A r \in s.receipts : r.revision \in Nat /\ r.revision <= s.revision
  BY ConstantsAssumption DEF Snapshot, Receipt, Linear
<1>2. {r \in s.receipts : r.revision <= s.revision} = s.receipts
  BY <1>1
<1>3. Prefix(s, s)
  BY <1>1, <1>2 DEF Prefix
<1>4. ASSUME NEW p \in Snapshot, Prefix(p, s), p.revision = s.revision
      PROVE  p = s
  <2>1. p.receipts = s.receipts
    BY <1>2, <1>4 DEF Prefix
  <2> QED
    BY <2>1, <1>4 DEF Snapshot
<1> QED
  BY <1>3, <1>4

-----------------------------------------------------------------------------
LEMMA InitIInv == Init => IInv
<1> SUFFICES ASSUME Init PROVE IInv
  OBVIOUS
<1>1. NoJob \in Job
  BY DEF Job, NoJob
<1>2. unsynced \in Seq(Rename)
  BY DEF Init
<1>3. TypeOK
  BY <1>1, <1>2 DEF Init, TypeOK, PC
<1>4. CallsOK
  BY DEF Init, CallsOK, CallOK, Holding, Saving, NoJob
<1>5. HistoryOK
  BY DEF Init, HistoryOK, PastOK, RecoverablePointers, Saving
<1> QED
  BY <1>3, <1>4, <1>5 DEF IInv

-----------------------------------------------------------------------------
\* The variables a call's position touches keep their types.
LEMMA FinishType ==
    ASSUME NEW h \in Handles, TypeOK, Finish(h)
    PROVE  /\ pc' \in [Handles -> PC]
           /\ job' \in [Handles -> Job]
           /\ lock' \in Handles \cup {None}
BY DEF TypeOK, Finish, Goto, Unlocked, PC, NoJob, Job

LEMMA SyncedType ==
    ASSUME TypeOK, Synced
    PROVE  /\ disk' \in [files : SUBSET File, current : Snapshot \cup {None}]
           /\ unsynced' \in Seq(Rename)
BY DEF TypeOK, Synced

LEMMA RenameFileType ==
    ASSUME TypeOK, NEW f \in File, RenameFile(f)
    PROVE  /\ files' \subseteq File
           /\ unsynced' \in Seq(Rename)
BY DEF TypeOK, RenameFile, Rename

LEMMA LoadedType ==
    ASSUME NEW h \in Handles, TypeOK, Loaded(h)
    PROVE  job[h].next \in Snapshot
BY FileTypes DEF TypeOK, Loaded

LEMMA StartType ==
    ASSUME NEW h \in Handles, IInv, Start(h)
    PROVE  TypeOK'
<1> USE DEF IInv
<1>1. CASE MakeFolder(h)
  <2>1. PICK s \in Seeds :
          job' = [job EXCEPT ![h] = [NoJob EXCEPT !.kind = "create", !.next = s]]
    BY <1>1 DEF MakeFolder
  <2>2. [NoJob EXCEPT !.kind = "create", !.next = s] \in Job
    BY ConstantsAssumption DEF Job, NoJob
  <2> QED
    BY <1>1, <2>1, <2>2 DEF MakeFolder, TypeOK, Goto, PC
<1>2. CASE StartLoad(h)
  BY <1>2 DEF StartLoad, TypeOK, Goto, PC, Job, NoJob, folder
<1>3. CASE StartApply(h)
  <2>1. PICK o \in Operations, i \in Inputs :
          job' = [job EXCEPT ![h] = [kind |-> "apply", operation |-> o, request |-> i,
                                     basis |-> view[h], next |-> None]]
    BY <1>3 DEF StartApply
  <2>2. [kind |-> "apply", operation |-> o, request |-> i,
         basis |-> view[h], next |-> None] \in Job
    BY DEF Job, Request, TypeOK
  <2> QED
    BY <1>3, <2>1, <2>2 DEF StartApply, TypeOK, Goto, PC, folder
<1>4. CASE StartAdopt(h)
  <2>1. PICK o \in Operations, t \in Targets :
          job' = [job EXCEPT ![h] =
                    [kind |-> "adopt", operation |-> o,
                     request |-> [target |-> t, revision |-> view[h].revision],
                     basis |-> view[h], next |-> None]]
    BY <1>4 DEF StartAdopt
  <2>2. view[h] \in Snapshot
    BY <1>4 DEF StartAdopt, TypeOK
  <2>3. [target |-> t, revision |-> view[h].revision] \in Request
    BY <2>2 DEF Request, Snapshot
  <2>4. [kind |-> "adopt", operation |-> o,
         request |-> [target |-> t, revision |-> view[h].revision],
         basis |-> view[h], next |-> None] \in Job
    BY <2>2, <2>3 DEF Job
  <2> QED
    BY <1>4, <2>1, <2>4 DEF StartAdopt, TypeOK, Goto, PC, folder
<1>5. CASE StageExtension(h)
  <2>1. PICK t \in Targets :
          /\ job' = [job EXCEPT ![h] = [NoJob EXCEPT !.kind = "stage", !.request = t]]
          /\ \/ RenameFile(Extension(t))
             \/ Extension(t) \in files /\ UNCHANGED folder
    BY <1>5 DEF StageExtension
  <2>2. [NoJob EXCEPT !.kind = "stage", !.request = t] \in Job
    BY DEF Job, NoJob
  <2>3. files' \subseteq File /\ unsynced' \in Seq(Rename)
        /\ UNCHANGED <<made, current, disk>>
    BY <2>1, RenameFileType, FileTypes DEF TypeOK, folder, RenameFile
  <2> QED
    BY <1>5, <2>1, <2>2, <2>3 DEF StageExtension, TypeOK, Goto, PC
<1> QED
  BY <1>1, <1>2, <1>3, <1>4, <1>5 DEF Start

LEMMA StepType ==
    ASSUME NEW h \in Handles, IInv, Step(h)
    PROVE  TypeOK'
<1> USE DEF IInv
<1>1. CASE LockFolder(h)
  BY <1>1 DEF LockFolder, TypeOK, Goto, PC, folder
<1>2. CASE ReadPointer(h)
  <2>1. [job[h] EXCEPT !.next = current] \in Job
    BY DEF TypeOK, Job
  <2>2. job' = job \/ job' = [job EXCEPT ![h] = [job[h] EXCEPT !.next = current]]
    BY <1>2 DEF ReadPointer
  <2>3. job' \in [Handles -> Job]
    BY <2>1, <2>2 DEF TypeOK
  <2> QED
    BY <1>2, <2>3 DEF ReadPointer, TypeOK, Goto, PC, folder
<1>3. CASE ReadObject(h)
  BY <1>3, FinishType, LoadedType DEF ReadObject, TypeOK, folder
<1>4. CASE Replay(h)
  <2>1. job[h].next \in Snapshot
    BY <1>4, LoadedType DEF Replay
  <2>2. PICK r \in job[h].next.receipts :
          acked' = acked \cup {[receipt |-> r, by |-> "replay"]}
    BY <1>4 DEF Replay
  <2>3. r \in Receipt
    BY <2>1 DEF Snapshot
  <2>4. acked' \subseteq [receipt : Receipt, by : {"save", "replay"}]
    BY <2>2, <2>3 DEF TypeOK
  <2> QED
    BY <1>4, <2>1, <2>4, FinishType DEF Replay, TypeOK, folder
<1>5. CASE Compute(h)
  <2>1. job[h].next \in Snapshot
    BY <1>5, LoadedType DEF Compute
  <2>2. job[h].operation \in Operations /\ job[h].request \in Request
    BY <1>5 DEF Compute, Loaded, CallsOK, CallOK
  <2>3. Successor(job[h].next, job[h].operation, job[h].request) \in Snapshot
    BY <1>5, <2>1, <2>2, SuccessorType DEF Compute
  <2>4. job' \in [Handles -> Job]
    BY <1>5, <2>3 DEF Compute, TypeOK, Job
  <2> QED
    BY <1>5, <2>4 DEF Compute, TypeOK, Goto, PC, folder
<1>6. CASE PublishObject(h)
  <2>1. Object(job[h].next) \in File
    BY <1>6, FileTypes DEF PublishObject, CallsOK, CallOK, Saving
  <2> QED
    BY <1>6, <2>1, RenameFileType DEF PublishObject, RenameFile, TypeOK, Goto, PC
<1>7. CASE SyncObject(h)
  BY <1>7, SyncedType DEF SyncObject, TypeOK, Goto, PC
<1>8. CASE ReuseObject(h)
  BY <1>8 DEF ReuseObject, TypeOK, Goto, PC, folder
<1>9. CASE PublishCurrent(h)
  <2>1. job[h].next \in Snapshot /\ Pointer(job[h].next) \in Rename
    BY <1>9, FileTypes DEF PublishCurrent, CallsOK, CallOK, Saving
  <2>2. unsynced' \in Seq(Rename)
    BY <1>9, <2>1 DEF PublishCurrent, TypeOK
  <2> QED
    BY <1>9, <2>1, <2>2 DEF PublishCurrent, TypeOK, Goto, PC
<1>10. CASE SyncCurrent(h)
  <2>1. job[h].next \in Snapshot
    BY <1>10 DEF SyncCurrent, CallsOK, CallOK
  <2>2. current = job[h].next
    BY <1>10 DEF SyncCurrent, HistoryOK, PastOK
  <2>3. acked' \subseteq [receipt : Receipt, by : {"save", "replay"}]
    <3>1. CASE job[h].kind = "create"
      BY <1>10, <3>1 DEF SyncCurrent, TypeOK
    <3>2. CASE job[h].kind # "create"
      <4>1. OwnReceipt(h) \in Receipt
        BY <1>10, <2>1, <2>2, <3>2 DEF SyncCurrent, HistoryOK, PastOK, Snapshot
      <4> QED
        BY <1>10, <3>2, <4>1 DEF SyncCurrent, TypeOK
    <3> QED
      BY <3>1, <3>2
  <2> QED
    BY <1>10, <2>1, <2>3, FinishType, SyncedType DEF SyncCurrent, TypeOK
<1>11. CASE SyncExtension(h)
  BY <1>11, FinishType, SyncedType DEF SyncExtension, TypeOK
<1> QED
  BY <1>1, <1>2, <1>3, <1>4, <1>5, <1>6, <1>7, <1>8, <1>9, <1>10, <1>11 DEF Step

LEMMA FailureType ==
    ASSUME IInv, PowerLoss \/ \E h \in Handles : Abort(h) \/ Crash(h)
    PROVE  TypeOK'
<1> USE DEF IInv
<1>1. CASE PowerLoss
  <2>1. PICK keep \in Survivors :
          /\ files' = FilesAfter(keep)
          /\ current' \in CurrentAfter(keep)
          /\ disk' = [files |-> files', current |-> current']
    BY <1>1 DEF PowerLoss
  <2>2. files' \subseteq File
    BY <2>1 DEF FilesAfter, TypeOK
  <2>3. current' \in Snapshot \cup {None}
    <3>1. \A i \in DOMAIN unsynced : unsynced[i] \in Rename
      BY DEF TypeOK
    <3>2. keep \subseteq DOMAIN unsynced
      BY DEF Survivors
    <3> QED
      BY <2>1, <3>1, <3>2, FileTypes DEF CurrentAfter, TypeOK
  <2>4. NoJob \in Job
    BY DEF Job, NoJob
  <2>5. unsynced' \in Seq(Rename)
    BY <1>1 DEF PowerLoss
  <2> QED
    BY <1>1, <2>1, <2>2, <2>3, <2>4, <2>5 DEF PowerLoss, TypeOK, PC
<1>2. CASE \E h \in Handles : Abort(h) \/ Crash(h)
  <2>1. PICK h \in Handles : Abort(h) \/ Crash(h)
    BY <1>2
  <2>2. Finish(h)
    BY <2>1 DEF Abort, Crash
  <2> QED
    BY <2>1, <2>2, FinishType DEF Abort, Crash, TypeOK, folder
<1> QED
  BY <1>1, <1>2

LEMMA TypeStep ==
    ASSUME IInv, [Next]_vars
    PROVE  TypeOK'
<1>1. CASE UNCHANGED vars
  BY <1>1 DEF IInv, TypeOK, vars
<1>2. CASE Next
  BY <1>2, StartType, StepType, FailureType DEF Next
<1> QED
  BY <1>1, <1>2

-----------------------------------------------------------------------------
\* A step of one handle leaves the calls of the others alone; the lock is
\* taken only when free and dropped only by its holder.
LEMMA OtherCalls ==
    ASSUME NEW h \in Handles, TypeOK, CallsOK, Start(h) \/ Step(h) \/ Abort(h) \/ Crash(h)
    PROVE  \A g \in Handles \ {h} : CallOK(g)'
<1> TAKE g \in Handles \ {h}
<1>1. pc'[g] = pc[g] /\ job'[g] = job[g]
  BY DEF Start, Step, Abort, Crash, MakeFolder, LockFolder, StartLoad, StartApply,
         StartAdopt, ReadPointer, ReadObject, Replay, Compute, PublishObject,
         SyncObject, ReuseObject, PublishCurrent, SyncCurrent, StageExtension,
         SyncExtension, Goto, Finish, TypeOK
<1>2. lock = g => lock' = g
  BY ConstantsAssumption
     DEF Start, Step, Abort, Crash, MakeFolder, LockFolder, StartLoad, StartApply,
         StartAdopt, ReadPointer, ReadObject, Replay, Compute, PublishObject,
         SyncObject, ReuseObject, PublishCurrent, SyncCurrent, StageExtension,
         SyncExtension, Unlocked, Finish
<1> QED
  BY <1>1, <1>2 DEF CallsOK, CallOK

LEMMA FinishedCall ==
    ASSUME NEW h \in Handles, TypeOK, Finish(h)
    PROVE  CallOK(h)'
BY DEF Finish, Goto, NoJob, CallOK, TypeOK, Holding, Saving

LEMMA CallsStep ==
    ASSUME IInv, [Next]_vars
    PROVE  CallsOK'
<1> USE DEF IInv
<1>1. CASE UNCHANGED vars
  BY <1>1 DEF CallsOK, CallOK, vars
<1>2. CASE PowerLoss
  BY <1>2 DEF PowerLoss, CallsOK, CallOK, NoJob, Holding, Saving
<1>3. ASSUME NEW h \in Handles, Start(h)
      PROVE  CallOK(h)'
  <2>1. CASE MakeFolder(h)
    BY <1>3, <2>1 DEF MakeFolder, CallOK, Goto, TypeOK, Holding, Saving
  <2>2. CASE StartLoad(h)
    BY <1>3, <2>2 DEF StartLoad, CallOK, Goto, TypeOK, NoJob, Holding, Saving, Writers
  <2>3. CASE StartApply(h)
    BY <1>3, <2>3 DEF StartApply, CallOK, Goto, TypeOK, Holding, Saving, Request
  <2>4. CASE StartAdopt(h)
    <3>1. view[h] \in Snapshot
      BY <2>4 DEF StartAdopt, TypeOK
    <3> QED
      BY <1>3, <2>4, <3>1 DEF StartAdopt, CallOK, Goto, TypeOK, Holding, Saving, Request, Snapshot
  <2>5. CASE StageExtension(h)
    BY <1>3, <2>5 DEF StageExtension, CallOK, Goto, TypeOK, Holding, Saving
  <2> QED
    BY <1>3, <2>1, <2>2, <2>3, <2>4, <2>5 DEF Start
<1>4. ASSUME NEW h \in Handles, Step(h)
      PROVE  CallOK(h)'
  <2>1. CallOK(h)
    BY DEF CallsOK
  <2>2. CASE LockFolder(h)
    BY <2>1, <2>2 DEF LockFolder, CallOK, Goto, TypeOK, Holding, Saving
  <2>3. CASE ReadPointer(h)
    <3>1. CASE job[h].kind = "create"
      <4>1. job' = job /\ pc' = [pc EXCEPT ![h] = "checked"] /\ lock' = lock
        BY <2>3, <3>1 DEF ReadPointer, Goto
      <4>2. job[h].next \in Snapshot
        BY <2>1, <2>3, <3>1, ConstantsAssumption DEF ReadPointer, CallOK
      <4> QED
        BY <2>1, <2>3, <3>1, <4>1, <4>2
           DEF ReadPointer, CallOK, TypeOK, Holding, Saving, Writers
    <3>2. CASE job[h].kind # "create"
      <4>1. job' = [job EXCEPT ![h] = [job[h] EXCEPT !.next = current]]
            /\ pc' = [pc EXCEPT ![h] = "pointed"] /\ lock' = lock /\ current \in Snapshot
        BY <2>3, <3>2 DEF ReadPointer, Goto, TypeOK
      <4>2. job[h] \in Job
        BY DEF TypeOK
      <4> QED
        BY <2>1, <2>3, <3>2, <4>1, <4>2
           DEF ReadPointer, CallOK, TypeOK, Holding, Saving, Job
    <3> QED
      BY <3>1, <3>2
  <2>4. CASE Compute(h)
    <3>1. job[h].next \in Snapshot
      BY <2>4, LoadedType DEF Compute
    <3>2. job[h].operation \in Operations /\ job[h].request \in Request
      BY <2>1, <2>4 DEF Compute, Loaded, CallOK
    <3>3. Successor(job[h].next, job[h].operation, job[h].request) \in Snapshot
      BY <2>4, <3>1, <3>2, SuccessorType DEF Compute
    <3>4. job[h] \in Job
      BY DEF TypeOK
    <3> QED
      BY <2>1, <2>4, <3>3, <3>4
         DEF Compute, Loaded, CallOK, Goto, TypeOK, Holding, Saving, Writers, Job
  <2>5. CASE PublishObject(h) \/ SyncObject(h) \/ ReuseObject(h) \/ PublishCurrent(h)
    BY <2>1, <2>5 DEF PublishObject, SyncObject, ReuseObject, PublishCurrent, CallOK,
                      Goto, TypeOK, Holding, Saving
  <2>6. CASE ReadObject(h) \/ Replay(h) \/ SyncCurrent(h) \/ SyncExtension(h)
    BY <2>6, FinishedCall DEF ReadObject, Replay, SyncCurrent, SyncExtension
  <2> QED
    BY <1>4, <2>2, <2>3, <2>4, <2>5, <2>6 DEF Step
<1>5. ASSUME NEW h \in Handles, Abort(h) \/ Crash(h)
      PROVE  CallOK(h)'
  BY <1>5, FinishedCall DEF Abort, Crash
<1>6. CASE \E h \in Handles : Start(h) \/ Step(h) \/ Abort(h) \/ Crash(h)
  BY <1>3, <1>4, <1>5, <1>6, OtherCalls DEF CallsOK
<1> QED
  BY <1>1, <1>2, <1>6 DEF Next

-----------------------------------------------------------------------------
LEMMA SurvivingPointer ==
    ASSUME TypeOK, NEW keep \in Survivors
    PROVE  CurrentAfter(keep) \subseteq RecoverablePointers
BY DEF Survivors, CurrentAfter, RecoverablePointers

\* How each kind of directory change changes what a power loss may leave.
LEMMA RecoverableChange ==
    ASSUME IInv
    PROVE  /\ disk' = disk /\ unsynced' = unsynced => RecoverablePointers' = RecoverablePointers
           /\ Synced => RecoverablePointers' = {current}
           /\ \A f \in File : RenameFile(f) => RecoverablePointers' = RecoverablePointers
           /\ \A h \in Handles : PublishCurrent(h) =>
                RecoverablePointers' = RecoverablePointers \cup {current'}
           /\ PowerLoss => /\ RecoverablePointers' = {current'}
                           /\ current' \in RecoverablePointers
<1> USE DEF IInv
<1>1. disk' = disk /\ unsynced' = unsynced => RecoverablePointers' = RecoverablePointers
  BY DEF RecoverablePointers
<1>2. Synced => RecoverablePointers' = {current}
  BY DEF Synced, RecoverablePointers
<1>3. ASSUME NEW f \in File, RenameFile(f)
      PROVE  RecoverablePointers' = RecoverablePointers
  <2>1. f.name # "CURRENT"
    BY DEF File
  <2>2. /\ DOMAIN unsynced \subseteq DOMAIN unsynced'
        /\ \A i \in DOMAIN unsynced : unsynced'[i] = unsynced[i]
        /\ \A i \in DOMAIN unsynced' : unsynced'[i].name = "CURRENT" => i \in DOMAIN unsynced
    BY <1>3, <2>1 DEF RenameFile, TypeOK
  <2> QED
    BY <1>3, <2>2 DEF RenameFile, RecoverablePointers
<1>4. ASSUME NEW h \in Handles, PublishCurrent(h)
      PROVE  RecoverablePointers' = RecoverablePointers \cup {current'}
  <2>1. /\ DOMAIN unsynced' = DOMAIN unsynced \cup {Len(unsynced) + 1}
        /\ \A i \in DOMAIN unsynced : unsynced'[i] = unsynced[i]
        /\ unsynced'[Len(unsynced) + 1] = Pointer(current')
    BY <1>4 DEF PublishCurrent, TypeOK
  <2> QED
    BY <1>4, <2>1 DEF PublishCurrent, RecoverablePointers, Pointer
<1>5. ASSUME PowerLoss
      PROVE  RecoverablePointers' = {current'} /\ current' \in RecoverablePointers
  <2>1. PICK keep \in Survivors :
          current' \in CurrentAfter(keep) /\ disk'.current = current' /\ unsynced' = <<>>
    BY <1>5 DEF PowerLoss
  <2> QED
    BY <2>1, SurvivingPointer DEF RecoverablePointers
<1> QED
  BY <1>1, <1>2, <1>3, <1>4, <1>5

\* Apart from a power loss and the rename of CURRENT, a step leaves the
\* directory alone, syncs it, or renames one immutable file.
LEMMA DirectoryStep ==
    ASSUME IInv, NEW h \in Handles, Start(h) \/ Step(h) \/ Abort(h) \/ Crash(h),
           ~ PublishCurrent(h)
    PROVE  /\ current' = current
           /\ \/ disk' = disk /\ unsynced' = unsynced /\ files' = files
              \/ Synced /\ files' = files
              \/ \E f \in File : RenameFile(f)
<1> USE DEF IInv
<1>1. CASE PublishObject(h)
  <2>1. Object(job[h].next) \in File
    BY <1>1, FileTypes DEF PublishObject, CallsOK, CallOK, Saving
  <2> QED
    BY <1>1, <2>1 DEF PublishObject, RenameFile
<1>2. CASE StageExtension(h)
  BY <1>2, FileTypes DEF StageExtension, folder, RenameFile
<1> QED
  BY <1>1, <1>2
     DEF Start, Step, Abort, Crash, MakeFolder, LockFolder, StartLoad, StartApply,
         StartAdopt, ReadPointer, ReadObject, Replay, Compute, SyncObject,
         ReuseObject, SyncCurrent, SyncExtension, folder

\* A step adds at most the pointer it renames to what a power loss may leave.
LEMMA RecoverableStep ==
    ASSUME IInv, [Next]_vars
    PROVE  /\ RecoverablePointers' \subseteq RecoverablePointers \cup {current'}
           /\ PowerLoss => current' \in RecoverablePointers
<1>1. CASE PowerLoss \/ \E h \in Handles : PublishCurrent(h)
  BY <1>1, RecoverableChange
<1>2. CASE UNCHANGED vars
  BY <1>2, RecoverableChange DEF vars
<1>3. ASSUME NEW h \in Handles, Start(h) \/ Step(h) \/ Abort(h) \/ Crash(h),
             ~ PublishCurrent(h)
      PROVE  RecoverablePointers' \subseteq RecoverablePointers \cup {current'}
  BY <1>3, DirectoryStep, RecoverableChange
<1> QED
  BY <1>1, <1>2, <1>3, RecoverableChange DEF Next

-----------------------------------------------------------------------------
\* While one handle is in a saving position no other handle runs a writer.
LEMMA OneWriter ==
    ASSUME TypeOK, CallsOK, NEW h \in Handles, NEW g \in Handles \ {h},
           pc[h] \in Saving \cup {"currentRenamed"}
    PROVE  /\ ~ (pc[g] \in Holding /\ job[g].kind \in Writers)
           /\ pc[g] # "idle" => job[g].kind \notin {"apply", "adopt"}
           /\ pc[g] \notin Saving \cup {"currentRenamed"}
BY DEF CallsOK, CallOK, Holding, Saving, Writers, TypeOK, PC

\* A step that leaves CURRENT alone leaves the other handles' past alone.
LEMMA OtherPasts ==
    ASSUME NEW h \in Handles, TypeOK, \A k \in Handles : PastOK(k), current' = current,
           Start(h) \/ Step(h) \/ Abort(h) \/ Crash(h)
    PROVE  \A g \in Handles \ {h} : PastOK(g)'
<1> TAKE g \in Handles \ {h}
<1>1. pc'[g] = pc[g] /\ job'[g] = job[g] /\ view'[g] = view[g]
  BY DEF Start, Step, Abort, Crash, MakeFolder, LockFolder, StartLoad, StartApply,
         StartAdopt, ReadPointer, ReadObject, Replay, Compute, PublishObject,
         SyncObject, ReuseObject, PublishCurrent, SyncCurrent, StageExtension,
         SyncExtension, Goto, Finish, TypeOK
<1> QED
  BY <1>1 DEF PastOK, OwnReceipt

LEMMA FinishedPast ==
    ASSUME NEW h \in Handles, TypeOK, Finish(h), current' = current,
           view'[h] # None => current # None /\ Prefix(view'[h], current)
    PROVE  PastOK(h)'
BY DEF Finish, Goto, PastOK, TypeOK, Saving

\* A handle's own past after any step of it other than the rename of CURRENT.
LEMMA OwnPast ==
    ASSUME NEW h \in Handles, IInv, current' = current,
           Start(h) \/ Step(h) \/ Abort(h) \/ Crash(h), ~ PublishCurrent(h)
    PROVE  PastOK(h)'
<1> USE DEF IInv
<1>1. PastOK(h) /\ CallOK(h) /\ (current # None => current \in Snapshot /\ Linear(current))
  BY DEF HistoryOK, CallsOK, TypeOK
<1>2. job[h] \in Job /\ view[h] \in Snapshot \cup {None}
  BY DEF TypeOK
<1>3. CASE MakeFolder(h)
  BY <1>1, <1>3 DEF MakeFolder, PastOK, Goto, TypeOK, Saving, NoJob
<1>4. CASE StartLoad(h)
  BY <1>1, <1>4 DEF StartLoad, PastOK, Goto, TypeOK, Saving, NoJob
<1>5. CASE StartApply(h)
  BY <1>1, <1>5 DEF StartApply, PastOK, Goto, TypeOK, Saving
<1>6. CASE StartAdopt(h)
  BY <1>1, <1>6 DEF StartAdopt, PastOK, Goto, TypeOK, Saving
<1>7. CASE StageExtension(h)
  BY <1>1, <1>7 DEF StageExtension, PastOK, Goto, TypeOK, Saving, NoJob
<1>8. CASE LockFolder(h)
  BY <1>1, <1>8 DEF LockFolder, PastOK, Goto, TypeOK, Saving
<1>9. CASE ReadPointer(h)
  <2>1. CASE job[h].kind = "create"
    BY <1>1, <1>9, <2>1 DEF ReadPointer, PastOK, Goto, TypeOK, Saving
  <2>2. CASE job[h].kind # "create"
    <3>1. job' = [job EXCEPT ![h] = [job[h] EXCEPT !.next = current]]
          /\ pc' = [pc EXCEPT ![h] = "pointed"] /\ current # None /\ view' = view
          /\ pc[h] = "read"
      BY <1>9, <2>2 DEF ReadPointer, Goto
    <3>2. Prefix(current, current)
      BY <1>1, <3>1, PrefixItself
    <3> QED
      BY <1>1, <1>2, <2>2, <3>1, <3>2 DEF PastOK, TypeOK, Saving, Job
  <2> QED
    BY <2>1, <2>2
<1>10. CASE Compute(h)
  <2>1. /\ pc[h] = "pointed" /\ job[h].kind \in {"apply", "adopt"}
        /\ job[h].next \in Snapshot
    BY <1>10, LoadedType DEF Compute, Loaded
  <2>2. job[h].next = current /\ Prefix(job[h].basis, current)
        /\ job[h].basis \in Snapshot
    BY <1>1, <2>1 DEF PastOK, CallOK, Writers
  <2>3. job[h].basis = current
    <3>1. current \in Snapshot /\ Linear(current)
      BY <1>1, <2>1, <2>2, ConstantsAssumption
    <3>2. job[h].basis.revision = current.revision
      BY <1>10, <2>2 DEF Compute, Fresh
    <3> QED
      BY <2>2, <3>1, <3>2, PrefixItself
  <2>4. \A r \in current.receipts : r.operation # job[h].operation
    BY <1>10, <2>2 DEF Compute, Fresh, Saved
  <2>5. /\ job' = [job EXCEPT ![h] = [job[h] EXCEPT
                     !.next = Successor(current, job[h].operation, job[h].request)]]
        /\ pc' = [pc EXCEPT ![h] = "checked"] /\ view' = view
        /\ current.revision < MaxRevision
    BY <1>10, <2>2 DEF Compute, Goto
  <2> QED
    BY <1>1, <1>2, <2>1, <2>2, <2>3, <2>4, <2>5 DEF PastOK, TypeOK, Saving, Job
<1>11. CASE PublishObject(h) \/ SyncObject(h) \/ ReuseObject(h)
  BY <1>1, <1>11 DEF PublishObject, SyncObject, ReuseObject, PastOK, Goto, TypeOK, Saving
<1>12. CASE ReadObject(h)
  BY <1>1, <1>12, FinishedPast DEF ReadObject, Loaded, PastOK, TypeOK
<1>13. CASE Replay(h)
  BY <1>1, <1>13, FinishedPast DEF Replay, Loaded, PastOK, TypeOK
<1>14. CASE SyncCurrent(h)
  <2>1. current = job[h].next /\ job[h].next \in Snapshot
    BY <1>1, <1>14 DEF SyncCurrent, PastOK, CallOK
  <2>2. current # None /\ Prefix(current, current)
    BY <1>1, <2>1, PrefixItself, ConstantsAssumption
  <2> QED
    BY <1>14, <2>1, <2>2, FinishedPast DEF SyncCurrent, TypeOK
<1>15. CASE SyncExtension(h) \/ Abort(h) \/ Crash(h)
  BY <1>1, <1>15, FinishedPast DEF SyncExtension, Abort, Crash, PastOK, TypeOK
<1> QED
  BY <1>3, <1>4, <1>5, <1>6, <1>7, <1>8, <1>9, <1>10, <1>11, <1>12, <1>13, <1>14, <1>15
     DEF Start, Step

\* The rename of CURRENT extends what everyone remembers.
LEMMA PublishPast ==
    ASSUME NEW h \in Handles, IInv, PublishCurrent(h)
    PROVE  /\ Linear(current')
           /\ \A g \in Handles : PastOK(g)'
<1> USE DEF IInv
<1>1. /\ pc[h] = "ready" /\ job[h].next \in Snapshot /\ current' = job[h].next
      /\ pc' = [pc EXCEPT ![h] = "currentRenamed"] /\ job' = job /\ view' = view
      /\ job[h].kind = "create" => current = None /\ job[h].next \in Seeds
      /\ job[h].kind # "create" => job[h].kind \in {"apply", "adopt"}
      /\ PastOK(h) /\ current' # None /\ pc[h] \in Saving
  BY ConstantsAssumption
     DEF PublishCurrent, CallsOK, CallOK, HistoryOK, PastOK, Saving, Goto, Writers
<1>2. CASE job[h].kind = "create"
  <2>1. Linear(current')
    BY <1>1, <1>2, ConstantsAssumption
  <2>2. PastOK(h)'
    BY <1>1, <1>2 DEF PastOK, HistoryOK, TypeOK, Saving
  <2>3. \A g \in Handles \ {h} : PastOK(g)'
    BY <1>1, <1>2, OneWriter DEF PastOK, HistoryOK, TypeOK
  <2> QED
    BY <2>1, <2>2, <2>3
<1>3. CASE job[h].kind # "create"
  <2>1. /\ current # None /\ current \in Snapshot /\ Linear(current)
        /\ current' = Successor(current, job[h].operation, job[h].request)
        /\ job[h].basis \in Snapshot /\ job[h].operation \in Operations
        /\ job[h].request \in Request /\ current.revision < MaxRevision
        /\ \A r \in current.receipts : r.operation # job[h].operation
    BY <1>1, <1>3 DEF PastOK, HistoryOK, CallsOK, CallOK, TypeOK, Saving
  <2>2. Linear(current') /\ \A p \in Snapshot : Prefix(p, current) => Prefix(p, current')
    BY <2>1, SuccessorLinear
  <2>3. OwnReceipt(h)' \in current'.receipts
    BY <1>1, <2>1 DEF OwnReceipt, Successor
  <2>4. PastOK(h)'
    BY <1>1, <1>3, <2>1, <2>2, <2>3 DEF PastOK, HistoryOK, TypeOK, Saving
  <2>5. ASSUME NEW g \in Handles \ {h}
        PROVE  PastOK(g)'
    <3>1. /\ pc'[g] = pc[g] /\ PastOK(g) /\ CallOK(g)
          /\ pc[g] \notin Saving \cup {"currentRenamed"}
          /\ pc[g] = "pointed" => job[g].kind \notin Writers
          /\ pc[g] # "idle" => job[g].kind \notin {"apply", "adopt"}
      BY <1>1, OneWriter DEF HistoryOK, CallsOK, TypeOK, Holding
    <3>2. view[g] # None => view[g] \in Snapshot
      BY DEF TypeOK
    <3>3. pc[g] = "pointed" => job[g].next \in Snapshot
      BY <3>1 DEF CallOK
    <3> QED
      BY <1>1, <2>2, <3>1, <3>2, <3>3 DEF PastOK
  <2> QED
    BY <2>2, <2>4, <2>5
<1> QED
  BY <1>2, <1>3

LEMMA HistoryStep ==
    ASSUME IInv, [Next]_vars
    PROVE  HistoryOK'
<1> USE DEF IInv
<1>1. CASE UNCHANGED vars
  BY <1>1 DEF vars, HistoryOK, PastOK, OwnReceipt, RecoverablePointers
<1>2. CASE PowerLoss
  <2>1. current' # None => Linear(current')
    BY <1>2, RecoverableStep DEF HistoryOK
  <2>2. \A s \in RecoverablePointers' : s # None => Linear(s)
    BY <2>1, RecoverableStep DEF HistoryOK
  <2>3. \A h \in Handles : PastOK(h)'
    BY <1>2 DEF PowerLoss, PastOK, Saving
  <2> QED
    BY <2>1, <2>2, <2>3 DEF HistoryOK
<1>3. CASE \E h \in Handles : PublishCurrent(h)
  <2>1. Linear(current') /\ \A h \in Handles : PastOK(h)'
    BY <1>3, PublishPast
  <2>2. \A s \in RecoverablePointers' : s # None => Linear(s)
    BY <2>1, RecoverableStep DEF HistoryOK
  <2> QED
    BY <2>1, <2>2 DEF HistoryOK
<1>4. ASSUME NEW h \in Handles, Start(h) \/ Step(h) \/ Abort(h) \/ Crash(h),
             ~ PublishCurrent(h)
      PROVE  HistoryOK'
  <2>1. current' = current
    BY <1>4, DirectoryStep
  <2>2. \A s \in RecoverablePointers' : s # None => Linear(s)
    BY <2>1, RecoverableStep DEF HistoryOK
  <2>3. \A g \in Handles : PastOK(g)'
    BY <1>4, <2>1, OwnPast, OtherPasts DEF HistoryOK
  <2> QED
    BY <2>1, <2>2, <2>3 DEF HistoryOK
<1> QED
  BY <1>1, <1>2, <1>3, <1>4 DEF Next

-----------------------------------------------------------------------------
\* The inductive invariant holds in every reachable state.
THEOREM Inductive == Spec => []IInv
<1>1. IInv /\ [Next]_vars => IInv'
  BY TypeStep, CallsStep, HistoryStep DEF IInv
<1> QED
  BY InitIInv, <1>1, PTL DEF Spec

\* Type correctness of the store.
THEOREM TypeCorrect == Spec => []TypeOK
<1>1. IInv => TypeOK
  BY DEF IInv
<1> QED
  BY <1>1, Inductive, PTL

\* Whatever processes save, crash, or lose power, in whatever order, no host
\* shows a state that is not part of CURRENT's own history.
THEOREM ViewsCorrect == Spec => []ViewsArePrefixes
<1>1. IInv => ViewsArePrefixes
  BY DEF IInv, HistoryOK, PastOK, ViewsArePrefixes
<1> QED
  BY <1>1, Inductive, PTL

\* No operation is ever saved twice and no two operations share a revision.
THEOREM AtMostOnceCorrect == Spec => []AtMostOnce
<1>1. IInv => AtMostOnce
  BY DEF IInv, HistoryOK, AtMostOnce
<1> QED
  BY <1>1, Inductive, PTL

\* A save extends exactly the snapshot its caller based it on.
THEOREM SavesCorrect == Spec => SavesExtendTheBasis
<1> DEFINE Extends == current' # current /\ current # None /\ losses' = losses =>
         \E h \in Handles :
            /\ job[h].basis = current
            /\ current' = Successor(current, job[h].operation, job[h].request)
<1>1. IInv /\ [Next]_vars => [Extends]_vars
  <2> SUFFICES ASSUME IInv, [Next]_vars, current' # current, current # None, losses' = losses
               PROVE  \E h \in Handles :
                         /\ job[h].basis = current
                         /\ current' = Successor(current, job[h].operation, job[h].request)
    OBVIOUS
  <2>1. ~ PowerLoss
    BY DEF PowerLoss, IInv, TypeOK
  <2>2. PICK h \in Handles : PublishCurrent(h)
    BY <2>1, DirectoryStep DEF Next, vars
  <2> QED
    BY <2>2 DEF PublishCurrent, IInv, HistoryOK, PastOK, Saving
<1> QED
  BY <1>1, Inductive, PTL DEF Spec, SavesExtendTheBasis

-----------------------------------------------------------------------------
(***************************************************************************)
(* What a power loss leaves.                                               *)
(***************************************************************************)
\* Every save that was acknowledged is part of whatever CURRENT a power loss may leave.
Recorded(a, s) == s # None /\ a.receipt \in s.receipts
AcknowledgedOK ==
    \A a \in acked :
        /\ a.by = "replay" /\ losses = 0 => Recorded(a, current)
        /\ a.by = "save" => \A s \in RecoverablePointers \cup {current} : Recorded(a, s)

\* A snapshot is whole where its object and its intention objects are.
Needed(s) == {Object(s)} \cup ReferencesOf(s)

\* CURRENT is whole, on the disk as well as for the processes that run, and so is each of
\* its renames in what was renamed before.
DirectoryOK ==
    /\ files \subseteq disk.files \cup {unsynced[i] : i \in DOMAIN unsynced}
    /\ current # None => Needed(current) \subseteq files
    /\ disk.current # None => Needed(disk.current) \subseteq disk.files
    /\ \A i \in DOMAIN unsynced : unsynced[i].name = "CURRENT" =>
         Needed(unsynced[i].of) \subseteq disk.files \cup {unsynced[j] : j \in 1 .. (i - 1)}

\* What a writer has in its hands will be whole when it renames CURRENT.
WriterOK(h) ==
    /\ pc[h] # "idle" /\ job[h].kind = "apply" => job[h].request \in Inputs
    /\ pc[h] \in Saving => ReferencesOf(job[h].next) \subseteq files
    /\ pc[h] \in {"objectRenamed", "ready"} => Object(job[h].next) \in files

DurableOK == DirectoryOK /\ \A h \in Handles : WriterOK(h)

LEMMA NeededFiles == \A s \in Snapshot : Needed(s) \subseteq File
<1> SUFFICES ASSUME NEW s \in Snapshot
             PROVE  Needed(s) \subseteq File
  OBVIOUS
<1>1. \A r \in s.receipts : r.request \notin Inputs => Extension(r.request.target) \in File
  BY FileTypes DEF Snapshot, Receipt, Request
<1> QED
  BY <1>1, FileTypes DEF Needed, ReferencesOf

\* What a snapshot refers to is what its receipts refer to.
LEMMA SuccessorReferences ==
    ASSUME NEW s, NEW o, NEW q, NEW f \in ReferencesOf(Successor(s, o, q))
    PROVE  f \in ReferencesOf(s) \/ (q \notin Inputs /\ f = Extension(q.target))
<1>1. PICK r \in Successor(s, o, q).receipts :
        r.request \notin Inputs /\ f = Extension(r.request.target)
  BY DEF ReferencesOf
<1>2. CASE r \in s.receipts
  BY <1>1, <1>2 DEF ReferencesOf
<1>3. CASE r = [operation |-> o, request |-> q, revision |-> s.revision + 1]
  BY <1>1, <1>3
<1> QED
  BY <1>1, <1>2, <1>3 DEF Successor

LEMMA SeedReferences == \A s \in Seeds : ReferencesOf(s) = {}
BY ConstantsAssumption DEF ReferencesOf

\* A power loss that keeps a prefix of the renames leaves a CURRENT that is whole.
LEMMA SurvivorsWhole ==
    ASSUME TypeOK, DirectoryOK, OrderedRenames, NEW keep \in Survivors,
           NEW c \in CurrentAfter(keep), c # None
    PROVE  Needed(c) \subseteq FilesAfter(keep)
<1> DEFINE pointers == {i \in keep : unsynced[i].name = "CURRENT"}
<1>1. keep \subseteq DOMAIN unsynced /\ \A i \in keep : 1 .. i \subseteq keep
  BY DEF Survivors
<1>2. CASE pointers = {}
  BY <1>2 DEF CurrentAfter, DirectoryOK, FilesAfter
<1>3. CASE pointers # {}
  <2>1. PICK i \in pointers : c = unsynced[i].of
    BY <1>3 DEF CurrentAfter
  <2>2. Needed(c) \subseteq disk.files \cup {unsynced[j] : j \in 1 .. (i - 1)}
    BY <1>1, <2>1 DEF DirectoryOK
  <2>3. c \in Snapshot
    BY <1>1, <2>1, FileTypes DEF TypeOK
  <2>4. 1 .. (i - 1) \subseteq keep
    <3>1. i \in Nat /\ 1 .. i \subseteq keep
      BY <1>1, <2>1 DEF TypeOK
    <3> QED
      BY <3>1
  <2> QED
    BY <2>2, <2>3, <2>4, NeededFiles DEF FilesAfter
<1> QED
  BY <1>2, <1>3

LEMMA DurableInit == Init => DurableOK /\ AcknowledgedOK
BY DEF Init, DurableOK, DirectoryOK, WriterOK, Saving, AcknowledgedOK

-----------------------------------------------------------------------------
\* No step but a power loss takes a file away.
LEMMA FilesStay ==
    ASSUME IInv, NEW h \in Handles, Start(h) \/ Step(h) \/ Abort(h) \/ Crash(h)
    PROVE  files \subseteq files'
<1>1. CASE PublishCurrent(h)
  BY <1>1 DEF PublishCurrent
<1>2. CASE ~ PublishCurrent(h)
  BY <1>2, DirectoryStep DEF RenameFile
<1> QED
  BY <1>1, <1>2

LEMMA DirectoryOKStep ==
    ASSUME IInv, DurableOK, OrderedRenames, [Next]_vars
    PROVE  DirectoryOK'
<1> USE DEF IInv
<1>1. CASE disk' = disk /\ unsynced' = unsynced /\ files' = files /\ current' = current
  BY <1>1 DEF DurableOK, DirectoryOK
<1>2. CASE Synced /\ files' = files /\ current' = current
  BY <1>2 DEF DurableOK, DirectoryOK, Synced
<1>3. ASSUME NEW f \in File, RenameFile(f)
      PROVE  DirectoryOK'
  <2>1. f.name # "CURRENT"
    BY DEF File
  <2>2. /\ DOMAIN unsynced' = DOMAIN unsynced \cup {Len(unsynced) + 1}
        /\ \A i \in DOMAIN unsynced : unsynced'[i] = unsynced[i] /\ 1 .. (i - 1) \subseteq DOMAIN unsynced
        /\ unsynced'[Len(unsynced) + 1] = f
    BY <1>3 DEF RenameFile, TypeOK
  <2>3. disk' = disk /\ current' = current /\ files' = files \cup {f}
    BY <1>3 DEF RenameFile
  <2>4. files' \subseteq disk'.files \cup {unsynced'[i] : i \in DOMAIN unsynced'}
    BY <2>2, <2>3 DEF DurableOK, DirectoryOK
  <2>5. ASSUME NEW i \in DOMAIN unsynced', unsynced'[i].name = "CURRENT"
        PROVE  Needed(unsynced'[i].of) \subseteq disk'.files \cup {unsynced'[j] : j \in 1 .. (i - 1)}
    <3>1. i \in DOMAIN unsynced
      BY <2>1, <2>2, <2>5
    <3> QED
      BY <2>2, <2>3, <2>5, <3>1 DEF DurableOK, DirectoryOK
  <2> QED
    BY <2>3, <2>4, <2>5 DEF DurableOK, DirectoryOK
<1>4. ASSUME NEW h \in Handles, PublishCurrent(h)
      PROVE  DirectoryOK'
  <2> DEFINE new == Pointer(job[h].next)
  <2>1. /\ DOMAIN unsynced' = DOMAIN unsynced \cup {Len(unsynced) + 1}
        /\ \A i \in DOMAIN unsynced : unsynced'[i] = unsynced[i] /\ 1 .. (i - 1) \subseteq DOMAIN unsynced
        /\ unsynced'[Len(unsynced) + 1] = new
        /\ DOMAIN unsynced = 1 .. Len(unsynced) /\ Len(unsynced) \in Nat
    BY <1>4 DEF PublishCurrent, TypeOK
  <2>2. disk' = disk /\ current' = job[h].next /\ files' = files
    BY <1>4 DEF PublishCurrent
  <2>3. Needed(job[h].next) \subseteq files
    BY <1>4 DEF PublishCurrent, DurableOK, WriterOK, Needed, Saving
  <2>4. files' \subseteq disk'.files \cup {unsynced'[i] : i \in DOMAIN unsynced'}
    BY <2>1, <2>2 DEF DurableOK, DirectoryOK
  <2>5. ASSUME NEW i \in DOMAIN unsynced', unsynced'[i].name = "CURRENT"
        PROVE  Needed(unsynced'[i].of) \subseteq disk'.files \cup {unsynced'[j] : j \in 1 .. (i - 1)}
    <3>1. CASE i \in DOMAIN unsynced
      BY <2>1, <2>2, <2>5, <3>1 DEF DurableOK, DirectoryOK
    <3>2. CASE i = Len(unsynced) + 1
      <4>1. unsynced'[i].of = job[h].next /\ 1 .. (i - 1) = DOMAIN unsynced
        BY <2>1, <3>2 DEF Pointer
      <4>2. files \subseteq disk.files \cup {unsynced[j] : j \in DOMAIN unsynced}
        BY DEF DurableOK, DirectoryOK
      <4> QED
        BY <2>1, <2>2, <2>3, <4>1, <4>2
    <3> QED
      BY <2>1, <3>1, <3>2
  <2> QED
    BY <2>2, <2>3, <2>4, <2>5 DEF DurableOK, DirectoryOK
<1>5. CASE PowerLoss
  <2>1. PICK keep \in Survivors :
          /\ files' = FilesAfter(keep)
          /\ current' \in CurrentAfter(keep)
          /\ disk' = [files |-> files', current |-> current']
    BY <1>5 DEF PowerLoss
  <2>2. current' # None => Needed(current') \subseteq files'
    BY <2>1, SurvivorsWhole DEF DurableOK
  <2> QED
    BY <1>5, <2>1, <2>2 DEF PowerLoss, DirectoryOK
<1>6. ASSUME NEW h \in Handles, Start(h) \/ Step(h) \/ Abort(h) \/ Crash(h), ~ PublishCurrent(h)
      PROVE  DirectoryOK'
  BY <1>1, <1>2, <1>3, <1>6, DirectoryStep
<1> QED
  BY <1>1, <1>4, <1>5, <1>6 DEF Next, vars

LEMMA WriterStep ==
    ASSUME IInv, DurableOK, NEW h \in Handles, Start(h) \/ Step(h) \/ Abort(h) \/ Crash(h)
    PROVE  WriterOK(h)'
<1> USE DEF IInv
<1>1. files \subseteq files' /\ WriterOK(h) /\ CallOK(h) /\ PastOK(h) /\ job[h] \in Job
  BY FilesStay DEF DurableOK, CallsOK, HistoryOK, TypeOK
<1>2. CASE MakeFolder(h)
  BY <1>2 DEF MakeFolder, WriterOK, Goto, TypeOK, Saving
<1>3. CASE StartLoad(h) \/ StartApply(h) \/ StartAdopt(h)
  BY <1>3 DEF StartLoad, StartApply, StartAdopt, WriterOK, Goto, TypeOK, Saving, NoJob
<1>4. CASE StageExtension(h)
  BY <1>4 DEF StageExtension, WriterOK, Goto, TypeOK, Saving, NoJob
<1>5. CASE LockFolder(h)
  BY <1>1, <1>5 DEF LockFolder, WriterOK, Goto, TypeOK, Saving
<1>6. CASE ReadPointer(h)
  <2>1. CASE job[h].kind = "create"
    <3>1. ReferencesOf(job[h].next) = {}
      BY <1>1, <1>6, <2>1, SeedReferences DEF ReadPointer, CallOK
    <3>2. pc' = [pc EXCEPT ![h] = "checked"] /\ job' = job
      BY <1>6, <2>1 DEF ReadPointer, Goto
    <3> QED
      BY <2>1, <3>1, <3>2 DEF WriterOK, TypeOK
  <2>2. CASE job[h].kind # "create"
    <3>1. pc' = [pc EXCEPT ![h] = "pointed"] /\ pc[h] = "read"
          /\ job' = [job EXCEPT ![h] = [job[h] EXCEPT !.next = current]]
      BY <1>6, <2>2 DEF ReadPointer, Goto
    <3> QED
      BY <1>1, <3>1 DEF WriterOK, TypeOK, Saving, Job
  <2> QED
    BY <2>1, <2>2
<1>7. CASE Compute(h)
  <2> DEFINE next == Successor(job[h].next, job[h].operation, job[h].request)
  <2>1. /\ pc[h] = "pointed" /\ job[h].kind \in {"apply", "adopt"}
        /\ job[h].next = current /\ current # None
        /\ job[h].request \in Request
    BY <1>1, <1>7 DEF Compute, Loaded, PastOK, CallOK, Writers
  <2>2. ReferencesOf(current) \subseteq files
    BY <2>1 DEF DurableOK, DirectoryOK, Needed
  <2>3. job[h].request \notin Inputs => Extension(job[h].request.target) \in files
    BY <1>1, <1>7, <2>1 DEF Compute, Fresh, WriterOK
  <2>4. ReferencesOf(next) \subseteq files
    BY <2>1, <2>2, <2>3, SuccessorReferences
  <2>5. pc' = [pc EXCEPT ![h] = "checked"] /\ job' = [job EXCEPT ![h] = [job[h] EXCEPT !.next = next]]
        /\ files' = files
    BY <1>7 DEF Compute, Goto, folder
  <2> HIDE DEF next
  <2> QED
    BY <1>1, <2>1, <2>4, <2>5 DEF WriterOK, TypeOK, Job
<1>8. CASE PublishObject(h)
  BY <1>1, <1>8 DEF PublishObject, RenameFile, WriterOK, Goto, TypeOK, Saving
<1>9. CASE SyncObject(h) \/ ReuseObject(h)
  BY <1>1, <1>9 DEF SyncObject, ReuseObject, folder, WriterOK, Goto, TypeOK, Saving
<1>10. CASE PublishCurrent(h)
  BY <1>1, <1>10 DEF PublishCurrent, WriterOK, Goto, TypeOK, Saving
<1>11. CASE ReadObject(h) \/ Replay(h) \/ SyncCurrent(h) \/ SyncExtension(h) \/ Abort(h) \/ Crash(h)
  BY <1>11 DEF ReadObject, Replay, SyncCurrent, SyncExtension, Abort, Crash, Finish, Goto,
               WriterOK, TypeOK, Saving
<1> QED
  BY <1>2, <1>3, <1>4, <1>5, <1>6, <1>7, <1>8, <1>9, <1>10, <1>11 DEF Start, Step

LEMMA OtherWriters ==
    ASSUME IInv, DurableOK, NEW h \in Handles, Start(h) \/ Step(h) \/ Abort(h) \/ Crash(h),
           NEW g \in Handles \ {h}
    PROVE  WriterOK(g)'
<1>1. pc'[g] = pc[g] /\ job'[g] = job[g]
  BY DEF Start, Step, Abort, Crash, MakeFolder, LockFolder, StartLoad, StartApply,
         StartAdopt, ReadPointer, ReadObject, Replay, Compute, PublishObject,
         SyncObject, ReuseObject, PublishCurrent, SyncCurrent, StageExtension,
         SyncExtension, Goto, Finish, TypeOK, IInv
<1> QED
  BY <1>1, FilesStay DEF DurableOK, WriterOK

LEMMA DurableStep ==
    ASSUME IInv, DurableOK, OrderedRenames, [Next]_vars
    PROVE  DurableOK'
<1>1. CASE UNCHANGED vars
  BY <1>1, DirectoryOKStep DEF vars, DurableOK, WriterOK
<1>2. CASE PowerLoss
  BY <1>2, DirectoryOKStep DEF PowerLoss, DurableOK, WriterOK, Saving
<1>3. CASE \E h \in Handles : Start(h) \/ Step(h) \/ Abort(h) \/ Crash(h)
  BY <1>3, DirectoryOKStep, WriterStep, OtherWriters DEF DurableOK
<1> QED
  BY <1>1, <1>2, <1>3 DEF Next

\* Every snapshot that CURRENT becomes has the receipts it had.
LEMMA AcknowledgedStep ==
    ASSUME IInv, AcknowledgedOK, [Next]_vars
    PROVE  AcknowledgedOK'
<1> USE DEF IInv
<1>1. RecoverablePointers' \subseteq RecoverablePointers \cup {current'}
  BY RecoverableStep
<1>2. ASSUME NEW a \in acked, current # None => current' # None /\ current.receipts \subseteq current'.receipts,
             losses' = losses
      PROVE  /\ a.by = "replay" /\ losses' = 0 => Recorded(a, current')
             /\ a.by = "save" => \A s \in RecoverablePointers' \cup {current'} : Recorded(a, s)
  BY <1>1, <1>2 DEF AcknowledgedOK, Recorded
<1>3. CASE UNCHANGED vars
  BY <1>2, <1>3 DEF vars, AcknowledgedOK, Recorded
<1>4. CASE PowerLoss
  <2>1. acked' = acked /\ losses' # 0
    BY <1>4 DEF PowerLoss, TypeOK
  <2>2. current' \in RecoverablePointers
    BY <1>4, RecoverableStep
  <2> QED
    BY <1>1, <2>1, <2>2 DEF AcknowledgedOK, Recorded
<1>5. ASSUME NEW h \in Handles, PublishCurrent(h)
      PROVE  AcknowledgedOK'
  <2>1. current # None => current' # None /\ current.receipts \subseteq current'.receipts
    <3>1. current' = job[h].next /\ pc[h] \in Saving /\ PastOK(h) /\ current' # None
      BY <1>5, ConstantsAssumption DEF PublishCurrent, Saving, HistoryOK, CallsOK, CallOK
    <3> QED
      BY <3>1 DEF PastOK, Successor
  <2>2. acked' = acked /\ losses' = losses
    BY <1>5 DEF PublishCurrent
  <2> QED
    BY <1>2, <2>1, <2>2 DEF AcknowledgedOK, Recorded
<1>6. ASSUME NEW h \in Handles, SyncCurrent(h)
      PROVE  AcknowledgedOK'
  <2>1. current' = current /\ losses' = losses /\ RecoverablePointers' = {current}
    BY <1>6, RecoverableChange DEF SyncCurrent
  <2>2. \A a \in acked' \ acked : a.by = "save" /\ Recorded(a, current)
    <3>1. job[h].kind # "create" => OwnReceipt(h) \in current.receipts /\ current # None
      BY <1>6, ConstantsAssumption DEF SyncCurrent, HistoryOK, PastOK, CallsOK, CallOK
    <3> QED
      BY <1>6, <3>1 DEF SyncCurrent, Recorded
  <2> QED
    BY <1>2, <2>1, <2>2 DEF AcknowledgedOK, Recorded
<1>7. ASSUME NEW h \in Handles, Replay(h)
      PROVE  AcknowledgedOK'
  <2>1. current' = current /\ losses' = losses
    BY <1>7 DEF Replay, folder
  <2>2. current # None /\ job[h].next = current
    BY <1>7 DEF Replay, Loaded, HistoryOK, PastOK, Writers
  <2>3. \A a \in acked' \ acked : a.by = "replay" /\ Recorded(a, current)
    BY <1>7, <2>2 DEF Replay, Recorded
  <2> QED
    BY <1>2, <2>1, <2>3 DEF AcknowledgedOK, Recorded
<1>8. ASSUME NEW h \in Handles, Start(h) \/ Step(h) \/ Abort(h) \/ Crash(h),
             ~ PublishCurrent(h), ~ SyncCurrent(h), ~ Replay(h)
      PROVE  AcknowledgedOK'
  <2>1. current' = current
    BY <1>8, DirectoryStep
  <2>2. acked' = acked /\ losses' = losses
    BY <1>8 DEF Start, Step, Abort, Crash, MakeFolder, LockFolder, StartLoad, StartApply,
                StartAdopt, ReadPointer, ReadObject, Compute, PublishObject, SyncObject,
                ReuseObject, StageExtension, SyncExtension
  <2> QED
    BY <1>2, <2>1, <2>2 DEF AcknowledgedOK, Recorded
<1> QED
  BY <1>3, <1>4, <1>5, <1>6, <1>7, <1>8 DEF Next

\* A save that was acknowledged survives every later power loss, on any file system.
THEOREM AcknowledgedCorrect == Spec => []AcknowledgedIsKept
<1>1. IInv /\ AcknowledgedOK /\ [Next]_vars => AcknowledgedOK'
  BY AcknowledgedStep
<1>2. IInv /\ AcknowledgedOK => AcknowledgedIsKept
  BY SurvivingPointer DEF IInv, AcknowledgedOK, Recorded, AcknowledgedIsKept
<1> QED
  BY <1>1, <1>2, DurableInit, Inductive, PTL DEF Spec

\* On a file system that persists renames in their order, the CURRENT that a power loss
\* leaves is whole, whenever it comes.
THEOREM ActivationCorrect == OrderedRenames /\ Spec => []ActivationIsAtomic
<1>1. IInv /\ (OrderedRenames => DurableOK) /\ [Next]_vars => (OrderedRenames => DurableOK)'
  BY DurableStep
<1>2. IInv /\ (OrderedRenames => DurableOK) => (OrderedRenames => ActivationIsAtomic)
  BY SurvivorsWhole DEF IInv, DurableOK, ActivationIsAtomic, Needed
<1>3. Spec => [](OrderedRenames => ActivationIsAtomic)
  BY <1>1, <1>2, DurableInit, Inductive, PTL DEF Spec
<1>4. CASE OrderedRenames
  <2>1. (OrderedRenames => ActivationIsAtomic) => ActivationIsAtomic
    BY <1>4
  <2> QED
    BY <1>3, <2>1, PTL
<1>5. CASE ~ OrderedRenames
  BY <1>5
<1> QED
  BY <1>4, <1>5

-----------------------------------------------------------------------------
(***************************************************************************)
(* The store implements the atomic store.                                  *)
(***************************************************************************)
Confirmed == {a.receipt : a \in {b \in acked : b.by = "save"}}

LEMMA InitRefines == Init => Atomic!Init
BY DEF Init, Atomic!Init, RecoverablePointers

\* A replay or any step without an acknowledgement confirms nothing.
LEMMA ConfirmedUnchanged ==
    ASSUME acked' = acked \/ \E r : acked' = acked \cup {[receipt |-> r, by |-> "replay"]}
    PROVE  Confirmed' = Confirmed
BY DEF Confirmed

LEMMA PublishRefines ==
    ASSUME IInv, NEW h \in Handles, PublishCurrent(h)
    PROVE  Atomic!Next
<1> USE DEF IInv
<1>1. RecoverablePointers' = RecoverablePointers \cup {current'} /\ Confirmed' = Confirmed
  BY RecoverableChange, ConfirmedUnchanged DEF PublishCurrent
<1>2. /\ current' = job[h].next /\ PastOK(h) /\ CallOK(h) /\ pc[h] = "ready"
  BY DEF PublishCurrent, HistoryOK, CallsOK
<1>3. CASE job[h].kind = "create"
  <2>1. current = None /\ job[h].next \in Seeds
    BY <1>2, <1>3 DEF PublishCurrent, CallOK
  <2> QED
    BY <1>1, <1>2, <2>1 DEF Atomic!Next, Atomic!Activate, Atomic!Install, Confirmed
<1>4. CASE job[h].kind # "create"
  <2>1. /\ current # None /\ current.revision < MaxRevision
        /\ job[h].operation \in Operations /\ job[h].request \in Request
        /\ \A r \in current.receipts : r.operation # job[h].operation
        /\ current' = Successor(current, job[h].operation, job[h].request)
    BY <1>2, <1>4 DEF PastOK, CallOK, Saving, Writers
  <2> QED
    BY <1>1, <2>1 DEF Atomic!Next, Atomic!Commit, Atomic!Install, Successor, Confirmed
<1> QED
  BY <1>3, <1>4

LEMMA SyncCurrentRefines ==
    ASSUME IInv, NEW h \in Handles, SyncCurrent(h)
    PROVE  Atomic!Next
<1> USE DEF IInv
<1>1. RecoverablePointers' = {current} /\ current' = current
  BY RecoverableChange DEF SyncCurrent
<1>2. CASE job[h].kind = "create"
  <2>1. Confirmed' = Confirmed
    BY <1>2, ConfirmedUnchanged DEF SyncCurrent
  <2> QED
    BY <1>1, <2>1 DEF Atomic!Next, Atomic!Confirm, Confirmed
<1>3. CASE job[h].kind # "create"
  <2>1. OwnReceipt(h) \in current.receipts /\ current # None
    BY <1>3, ConstantsAssumption DEF SyncCurrent, HistoryOK, PastOK, CallsOK, CallOK
  <2>2. acked' = acked \cup {[receipt |-> OwnReceipt(h), by |-> "save"]}
    BY <1>3 DEF SyncCurrent
  <2>3. Confirmed' = Confirmed \cup {OwnReceipt(h)}
    <3> DEFINE new == [receipt |-> OwnReceipt(h), by |-> "save"]
    <3>1. new.receipt = OwnReceipt(h) /\ new.by = "save"
      OBVIOUS
    <3>2. acked' = acked \cup {new}
      BY <2>2
    <3> HIDE DEF new
    <3> QED
      BY <3>1, <3>2 DEF Confirmed
  <2> QED
    BY <1>1, <2>1, <2>3 DEF Atomic!Next, Atomic!Confirm, Confirmed
<1> QED
  BY <1>2, <1>3

LEMMA NextRefines ==
    ASSUME IInv, [Next]_vars
    PROVE  [Atomic!Next]_(Atomic!vars)
<1>1. CASE UNCHANGED vars
  <2>1. UNCHANGED <<current, RecoverablePointers, Confirmed>>
    BY <1>1, RecoverableChange, ConfirmedUnchanged DEF vars
  <2> QED
    BY <2>1 DEF Atomic!vars, Confirmed
<1>2. CASE PowerLoss
  <2>1. Confirmed' = Confirmed
    BY <1>2, ConfirmedUnchanged DEF PowerLoss
  <2> QED
    BY <1>2, <2>1, RecoverableChange DEF Atomic!Next, Atomic!PowerLoss, Confirmed
<1>3. CASE \E h \in Handles : PublishCurrent(h) \/ SyncCurrent(h)
  BY <1>3, PublishRefines, SyncCurrentRefines
<1>4. ASSUME NEW h \in Handles, Start(h) \/ Step(h) \/ Abort(h) \/ Crash(h),
             ~ PublishCurrent(h), ~ SyncCurrent(h)
      PROVE  [Atomic!Next]_(Atomic!vars)
  <2>1. acked' = acked \/ \E r : acked' = acked \cup {[receipt |-> r, by |-> "replay"]}
    BY <1>4 DEF Start, Step, Abort, Crash, MakeFolder, LockFolder, StartLoad, StartApply,
                StartAdopt, ReadPointer, ReadObject, Replay, Compute, PublishObject,
                SyncObject, ReuseObject, StageExtension, SyncExtension
  <2>2. Confirmed' = Confirmed /\ current' = current
    BY <1>4, <2>1, ConfirmedUnchanged, DirectoryStep
  <2>3. RecoverablePointers' = RecoverablePointers \/ RecoverablePointers' = {current}
    BY <1>4, DirectoryStep, RecoverableChange
  <2> QED
    BY <2>2, <2>3 DEF Atomic!Next, Atomic!Confirm, Atomic!vars, Confirmed
<1> QED
  BY <1>1, <1>2, <1>3, <1>4 DEF Next

\* The folder with its locks, objects, renames, failed syncs, crashes and power
\* losses behaves as one atomic store.
THEOREM Refinement == Spec => ImplementsAtomicStore
<1>1. IInv /\ [Next]_vars => [Atomic!Next]_(Atomic!vars)
  BY NextRefines
<1> QED
  BY <1>1, InitRefines, Inductive, PTL DEF Spec, ImplementsAtomicStore, Atomic!Spec
=============================================================================
