---------------------------- MODULE GitClientProofs ----------------------------
(***************************************************************************)
(* The invariants of the parts of the Git client, each proved for its part   *)
(* from an inductive invariant (IInv) of the part's own module.              *)
(***************************************************************************)
EXTENDS MCGitClient, FiniteSetTheorems, SequenceTheorems, TLAPS

LEMMA BoundsAreNumbers ==
    /\ MaxRelease \in Nat /\ MaxRequest \in Nat /\ MaxTask \in Nat /\ MaxSource \in Nat
    /\ MaxRun \in Nat /\ MaxEdit \in Nat /\ MaxElsewhere \in Nat
BY BoundsAssumption DEF BoundsAssumption

LEMMA NobodyIsNoWindow == "nobody" \notin Windows
BY BoundsAssumption DEF BoundsAssumption

-----------------------------------------------------------------------------
(* The updater. *)

LEMMA UpdatesBegin == Updates!Init => Updates!IInv
<1> SUFFICES ASSUME Updates!Init PROVE Updates!IInv
  OBVIOUS
<1> USE BoundsAreNumbers DEF Updates!Init, Updates!Fresh, Updates!Releases, Updates!Requests,
      Updates!Torn, Updates!state, Updates!threads, Updates!dialog,
      Updates!files, Updates!TypeOK, Updates!UpdateIsCurrent,
      Updates!DownloadIsLast, Updates!FilesAreWhole
<1>1. Updates!TypeOK
  <2>1. Updates!FlagsOK
    BY DEF Updates!FlagsOK
  <2> QED
    BY <2>1 DEF Updates!TypeOK
<1>2. Updates!UpdateIsCurrent
  OBVIOUS
<1>3. Updates!DownloadIsLast
  OBVIOUS
<1>4. Updates!FilesAreWhole
  OBVIOUS
<1> QED
  BY <1>1, <1>2, <1>3, <1>4 DEF Updates!IInv

LEMMA UpdatesStutter == Updates!IInv /\ UNCHANGED Updates!vars => Updates!IInv'
BY DEF Updates!vars, Updates!Releases, Updates!Requests, Updates!Torn,
   Updates!state, Updates!threads, Updates!dialog, Updates!files,
   Updates!TypeOK, Updates!UpdateIsCurrent, Updates!DownloadIsLast,
   Updates!FilesAreWhole, Updates!FlagsOK, Updates!IInv

LEMMA UpdatesStep == Updates!IInv /\ Updates!Next => Updates!IInv'
<1> SUFFICES ASSUME Updates!IInv, Updates!Next PROVE Updates!IInv'
  OBVIOUS
<1> USE BoundsAreNumbers DEF Updates!Releases, Updates!Requests, Updates!Torn, Updates!state,
      Updates!threads, Updates!dialog, Updates!files, Updates!TypeOK,
      Updates!UpdateIsCurrent, Updates!DownloadIsLast,
      Updates!FilesAreWhole, Updates!IInv
<1>1. CASE Updates!Check
  <2>1. Updates!TypeOK'
    <3>1. Updates!FlagsOK'
      BY <1>1 DEF Updates!Check, Updates!Begin, Updates!FlagsOK
    <3> QED
      BY <1>1, <3>1 DEF Updates!Check, Updates!Begin, Updates!TypeOK
  <2>2. Updates!UpdateIsCurrent'
    BY <1>1 DEF Updates!Check, Updates!Begin
  <2>3. Updates!DownloadIsLast'
    BY <1>1 DEF Updates!Check, Updates!Begin
  <2>4. Updates!FilesAreWhole'
    BY <1>1 DEF Updates!Check, Updates!Begin
  <2> QED
    BY <2>1, <2>2, <2>3, <2>4
<1>2. CASE Updates!Download
  <2>1. Updates!TypeOK'
    <3>1. Updates!FlagsOK'
      BY <1>2 DEF Updates!Download, Updates!MayDownload, Updates!Begin, Updates!FlagsOK
    <3>2. v5' \in Updates!Requests
      BY <1>2 DEF Updates!Download, Updates!MayDownload, Updates!Begin
    <3>3. v1' \in Updates!Releases /\ v3' \in Updates!Releases /\ v16' \in Updates!Releases
      BY <1>2 DEF Updates!Download, Updates!MayDownload, Updates!Begin
    <3>4. v4' \in 0 .. v5' /\ v5' \in 0 .. MaxRequest
      BY <1>2 DEF Updates!Download, Updates!MayDownload, Updates!Begin
    <3>5. /\ v6' \in [Updates!Requests ->
                    {"none", "checking", "downloading", "persisted"}]
         /\ v7' \in [Updates!Requests -> Updates!Releases]
      BY <1>2 DEF Updates!Download, Updates!MayDownload, Updates!Begin
    <3>6. ({v11, v12, v13, v15} \subseteq Updates!Releases \cup {Updates!Torn})'
      BY <1>2 DEF Updates!Download, Updates!MayDownload, Updates!Begin
    <3>7. /\ v2' \in {"idle", "checking", "current", "available", "downloading",
                  "downloaded", "error", "exited"}
         /\ v14' \in {"none", "waiting", "staged"}
      BY <1>2 DEF Updates!Download, Updates!MayDownload, Updates!Begin
    <3>8. v8' \subseteq v8 \cup {v5'}
      BY <1>2 DEF Updates!Download, Updates!MayDownload, Updates!Begin
    <3> QED
      BY <3>1, <3>2, <3>3, <3>4, <3>5, <3>6, <3>7, <3>8 DEF Updates!TypeOK
  <2>2. Updates!UpdateIsCurrent'
    BY <1>2 DEF Updates!Download, Updates!MayDownload, Updates!Begin
  <2>3. Updates!DownloadIsLast'
    BY <1>2 DEF Updates!Download, Updates!MayDownload, Updates!Begin
  <2>4. Updates!FilesAreWhole'
    BY <1>2 DEF Updates!Download, Updates!MayDownload, Updates!Begin
  <2> QED
    BY <2>1, <2>2, <2>3, <2>4
<1>3. CASE Updates!Frame
  <2>1. Updates!TypeOK'
    <3>1. Updates!FlagsOK'
      BY <1>3 DEF Updates!Frame, Updates!FlagsOK
    <3> QED
      BY <1>3, <3>1 DEF Updates!Frame, Updates!TypeOK
  <2>2. Updates!UpdateIsCurrent'
    BY <1>3 DEF Updates!Frame
  <2>3. Updates!DownloadIsLast'
    BY <1>3 DEF Updates!Frame
  <2>4. Updates!FilesAreWhole'
    BY <1>3 DEF Updates!Frame
  <2> QED
    BY <2>1, <2>2, <2>3, <2>4
<1>4. CASE Updates!Dismiss
  <2>1. Updates!TypeOK'
    <3>1. Updates!FlagsOK'
      BY <1>4 DEF Updates!Dismiss, Updates!FlagsOK
    <3>2. v3' \in {0, v3} /\ v4' \in {v5, v4} /\ UNCHANGED <<v1, v5, v16>>
      BY <1>4 DEF Updates!Dismiss
    <3>3. /\ v6' \in [Updates!Requests ->
                    {"none", "checking", "downloading", "persisted"}]
         /\ v7' \in [Updates!Requests -> Updates!Releases]
      BY <1>4 DEF Updates!Dismiss
    <3>4. v8' \subseteq Updates!Requests
      BY <1>4 DEF Updates!Dismiss
    <3>5. ({v11, v12, v13, v15} \subseteq Updates!Releases \cup {Updates!Torn})'
      BY <1>4 DEF Updates!Dismiss
    <3>6. /\ v2' \in {"idle", "checking", "current", "available", "downloading",
                  "downloaded", "error", "exited"}
         /\ v14' \in {"none", "waiting", "staged"}
      BY <1>4 DEF Updates!Dismiss
    <3> QED
      BY SMTT(30), <3>1, <3>2, <3>3, <3>4, <3>5, <3>6 DEF Updates!TypeOK
  <2>2. Updates!UpdateIsCurrent'
    BY <1>4 DEF Updates!Dismiss
  <2>3. Updates!DownloadIsLast'
    BY <1>4 DEF Updates!Dismiss
  <2>4. Updates!FilesAreWhole'
    BY <1>4 DEF Updates!Dismiss
  <2> QED
    BY <2>1, <2>2, <2>3, <2>4
<1>5. CASE Updates!Install
  <2>1. Updates!TypeOK'
    <3>1. Updates!FlagsOK'
      BY <1>5 DEF Updates!Install, Updates!FlagsOK
    <3>2. v1' \in Updates!Releases /\ v3' \in Updates!Releases /\ v16' \in Updates!Releases
      BY <1>5 DEF Updates!Install
    <3>3. v4' \in 0 .. v5' /\ v5' \in 0 .. MaxRequest
      BY <1>5 DEF Updates!Install
    <3>4. /\ v6' \in [Updates!Requests ->
                    {"none", "checking", "downloading", "persisted"}]
         /\ v7' \in [Updates!Requests -> Updates!Releases]
      BY <1>5 DEF Updates!Install
    <3>5. v8' \subseteq Updates!Requests
      BY <1>5 DEF Updates!Install
    <3>6. ({v11, v12, v13, v15} \subseteq Updates!Releases \cup {Updates!Torn})'
      BY <1>5 DEF Updates!Install
    <3>7. /\ v2' \in {"idle", "checking", "current", "available", "downloading",
                  "downloaded", "error", "exited"}
         /\ v14' \in {"none", "waiting", "staged"}
      BY <1>5 DEF Updates!Install
    <3> QED
      BY <3>1, <3>2, <3>3, <3>4, <3>5, <3>6, <3>7 DEF Updates!TypeOK
  <2>2. Updates!UpdateIsCurrent'
    BY <1>5 DEF Updates!Install
  <2>3. Updates!DownloadIsLast'
    BY <1>5 DEF Updates!Install
  <2>4. Updates!FilesAreWhole'
    BY <1>5 DEF Updates!Install
  <2> QED
    BY <2>1, <2>2, <2>3, <2>4
<1>6. CASE Updates!Stages
  <2>1. Updates!TypeOK'
    <3>1. Updates!FlagsOK'
      BY <1>6 DEF Updates!Stages, Updates!FlagsOK
    <3> QED
      BY <1>6, <3>1 DEF Updates!Stages, Updates!TypeOK
  <2>2. Updates!UpdateIsCurrent'
    BY <1>6 DEF Updates!Stages
  <2>3. Updates!DownloadIsLast'
    BY <1>6 DEF Updates!Stages
  <2>4. Updates!FilesAreWhole'
    BY <1>6 DEF Updates!Stages
  <2> QED
    BY <2>1, <2>2, <2>3, <2>4
<1>7. CASE Updates!Replaces
  <2>1. Updates!TypeOK'
    <3>1. Updates!FlagsOK'
      BY <1>7 DEF Updates!Replaces, Updates!FlagsOK
    <3> QED
      BY <1>7, <3>1 DEF Updates!Replaces, Updates!TypeOK
  <2>2. Updates!UpdateIsCurrent'
    BY <1>7 DEF Updates!Replaces
  <2>3. Updates!DownloadIsLast'
    BY <1>7 DEF Updates!Replaces
  <2>4. Updates!FilesAreWhole'
    BY <1>7 DEF Updates!Replaces
  <2> QED
    BY <2>1, <2>2, <2>3, <2>4
<1>8. CASE Updates!Start
  <2>1. Updates!TypeOK'
    <3>1. Updates!FlagsOK'
      BY <1>8 DEF Updates!Start, Updates!FlagsOK
    <3> QED
      BY <1>8, <3>1 DEF Updates!Start, Updates!TypeOK
  <2>2. Updates!UpdateIsCurrent'
    BY <1>8 DEF Updates!Start
  <2>3. Updates!DownloadIsLast'
    BY <1>8 DEF Updates!Start
  <2>4. Updates!FilesAreWhole'
    BY <1>8 DEF Updates!Start
  <2> QED
    BY <2>1, <2>2, <2>3, <2>4
<1>9. CASE Updates!Quit
  <2>1. Updates!TypeOK'
    <3>1. Updates!FlagsOK'
      BY <1>9 DEF Updates!Quit, Updates!FlagsOK
    <3> QED
      BY <1>9, <3>1 DEF Updates!Quit, Updates!TypeOK
  <2>2. Updates!UpdateIsCurrent'
    BY <1>9 DEF Updates!Quit
  <2>3. Updates!DownloadIsLast'
    BY <1>9 DEF Updates!Quit
  <2>4. Updates!FilesAreWhole'
    BY <1>9 DEF Updates!Quit
  <2> QED
    BY <2>1, <2>2, <2>3, <2>4
<1>10. CASE Updates!Publish
  <2>1. Updates!TypeOK'
    <3>1. Updates!FlagsOK'
      BY <1>10 DEF Updates!Publish, Updates!FlagsOK
    <3> QED
      BY <1>10, <3>1 DEF Updates!Publish, Updates!TypeOK
  <2>2. Updates!UpdateIsCurrent'
    BY <1>10 DEF Updates!Publish
  <2>3. Updates!DownloadIsLast'
    BY <1>10 DEF Updates!Publish
  <2>4. Updates!FilesAreWhole'
    BY <1>10 DEF Updates!Publish
  <2> QED
    BY <2>1, <2>2, <2>3, <2>4
<1>11. CASE Updates!DownloadElsewhere
  <2>1. Updates!TypeOK'
    <3>1. Updates!FlagsOK'
      BY <1>11 DEF Updates!DownloadElsewhere, Updates!FlagsOK
    <3> QED
      BY <1>11, <3>1 DEF Updates!DownloadElsewhere, Updates!TypeOK
  <2>2. Updates!UpdateIsCurrent'
    BY <1>11 DEF Updates!DownloadElsewhere
  <2>3. Updates!DownloadIsLast'
    BY <1>11 DEF Updates!DownloadElsewhere
  <2>4. Updates!FilesAreWhole'
    BY <1>11 DEF Updates!DownloadElsewhere
  <2> QED
    BY <2>1, <2>2, <2>3, <2>4
<1>12. ASSUME NEW r \in Updates!Requests, Updates!CheckEnds(r) PROVE Updates!IInv'
  <2>1. Updates!TypeOK'
    <3>1. Updates!FlagsOK'
      BY <1>12 DEF Updates!CheckEnds, Updates!Commit, Updates!Current, Updates!FlagsOK
    <3>2. v1' \in Updates!Releases /\ v3' \in Updates!Releases /\ v16' \in Updates!Releases
      BY <1>12 DEF Updates!CheckEnds, Updates!Commit, Updates!Current
    <3>3. v4' \in 0 .. v5' /\ v5' \in 0 .. MaxRequest
      BY <1>12 DEF Updates!CheckEnds, Updates!Commit, Updates!Current
    <3>4. /\ v6' \in [Updates!Requests ->
                    {"none", "checking", "downloading", "persisted"}]
         /\ v7' \in [Updates!Requests -> Updates!Releases]
      BY <1>12 DEF Updates!CheckEnds, Updates!Commit, Updates!Current
    <3>5. v8' \subseteq Updates!Requests
      BY <1>12 DEF Updates!CheckEnds, Updates!Commit, Updates!Current
    <3>6. ({v11, v12, v13, v15} \subseteq Updates!Releases \cup {Updates!Torn})'
      BY <1>12 DEF Updates!CheckEnds, Updates!Commit, Updates!Current
    <3>7. /\ v2' \in {"idle", "checking", "current", "available", "downloading",
                  "downloaded", "error", "exited"}
         /\ v14' \in {"none", "waiting", "staged"}
      BY <1>12 DEF Updates!CheckEnds, Updates!Commit, Updates!Current
    <3> QED
      BY <3>1, <3>2, <3>3, <3>4, <3>5, <3>6, <3>7 DEF Updates!TypeOK
  <2>2. Updates!UpdateIsCurrent'
    BY <1>12 DEF Updates!CheckEnds, Updates!Commit, Updates!Current
  <2>3. Updates!DownloadIsLast'
    BY <1>12 DEF Updates!CheckEnds, Updates!Commit, Updates!Current
  <2>4. Updates!FilesAreWhole'
    BY <1>12 DEF Updates!CheckEnds, Updates!Commit, Updates!Current
  <2> QED
    BY <2>1, <2>2, <2>3, <2>4
<1>13. ASSUME NEW r \in Updates!Requests, Updates!Persist(r) PROVE Updates!IInv'
  <2>1. Updates!TypeOK'
    <3>1. Updates!FlagsOK'
      BY <1>13 DEF Updates!Persist, Updates!Digested, Updates!FlagsOK
    <3> QED
      BY <1>13, <3>1 DEF Updates!Persist, Updates!Digested, Updates!TypeOK
  <2>2. Updates!UpdateIsCurrent'
    BY <1>13 DEF Updates!Persist, Updates!Digested
  <2>3. Updates!DownloadIsLast'
    BY <1>13 DEF Updates!Persist, Updates!Digested
  <2>4. Updates!FilesAreWhole'
    BY <1>13 DEF Updates!Persist, Updates!Digested
  <2> QED
    BY <2>1, <2>2, <2>3, <2>4
<1>14. ASSUME NEW r \in Updates!Requests, Updates!DownloadEnds(r) PROVE Updates!IInv'
  <2>1. Updates!TypeOK'
    <3>1. Updates!FlagsOK'
      BY <1>14 DEF Updates!DownloadEnds, Updates!Commit, Updates!Current, Updates!FlagsOK
    <3> QED
      BY <1>14, <3>1
      DEF Updates!DownloadEnds, Updates!Commit, Updates!Current, Updates!TypeOK
  <2>2. Updates!UpdateIsCurrent'
    BY <1>14 DEF Updates!DownloadEnds, Updates!Commit, Updates!Current
  <2>3. Updates!DownloadIsLast'
    BY <1>14 DEF Updates!DownloadEnds, Updates!Commit, Updates!Current
  <2>4. Updates!FilesAreWhole'
    BY <1>14 DEF Updates!DownloadEnds, Updates!Commit, Updates!Current
  <2> QED
    BY <2>1, <2>2, <2>3, <2>4
<1>15. ASSUME NEW r \in Updates!Requests, Updates!Report(r) PROVE Updates!IInv'
  <2>1. Updates!TypeOK'
    <3>1. Updates!FlagsOK'
      BY <1>15 DEF Updates!Report, Updates!Commit, Updates!Current, Updates!FlagsOK
    <3> QED
      BY <1>15, <3>1 DEF Updates!Report, Updates!Commit, Updates!Current, Updates!TypeOK
  <2>2. Updates!UpdateIsCurrent'
    BY <1>15 DEF Updates!Report, Updates!Commit, Updates!Current
  <2>3. Updates!DownloadIsLast'
    BY <1>15 DEF Updates!Report, Updates!Commit, Updates!Current
  <2>4. Updates!FilesAreWhole'
    BY <1>15 DEF Updates!Report, Updates!Commit, Updates!Current
  <2> QED
    BY <2>1, <2>2, <2>3, <2>4
<1> QED
BY <1>1, <1>2, <1>3, <1>4, <1>5, <1>6, <1>7, <1>8, <1>9, <1>10, <1>11, <1>12, <1>13, <1>14,
     <1>15 DEF Updates!Next

-----------------------------------------------------------------------------
(* The pull request of a task. *)

LEMMA HeadIsTree == \A v \in Delivery!Trees : Delivery!Head(v) \in Delivery!Trees
BY BoundsAreNumbers DEF Delivery!Trees, Delivery!Head

LEMMA UnknownIsNoTree == Delivery!Unknown \notin Delivery!Trees
BY BoundsAreNumbers DEF Delivery!Trees, Delivery!Unknown

LEMMA RequestIsMade ==
    /\ \A h \in Delivery!Trees :
         [url |-> "a", head |-> h, merged |-> FALSE] \in Delivery!Requests
    /\ \A q \in Delivery!Requests :
         /\ \A h \in Delivery!Trees : [q EXCEPT !.head = h] \in Delivery!Requests
         /\ [q EXCEPT !.merged = TRUE] \in Delivery!Requests
BY DEF Delivery!Requests

\* The snapshots a thread has: none, with the source, fetched, compared.
LEMMA NoSnapshotIsOne ==
    /\ Delivery!NoSnapshot \in Delivery!Snapshots
    /\ ~Delivery!NoSnapshot.current /\ Delivery!NoSnapshot.reads = "there"
BY DEF Delivery!Snapshots, Delivery!NoSnapshot

LEMMA SnapshotIsFetched ==
    \A s \in Delivery!Snapshots, q \in Delivery!Requests :
        LET n == [s EXCEPT !.url = q.url, !.head = q.head, !.merged = q.merged]
        IN  /\ n \in Delivery!Snapshots /\ n.source = s.source /\ n.reads = s.reads
            /\ n.current = s.current
BY DEF Delivery!Snapshots, Delivery!Requests

LEMMA SnapshotIsCompared ==
    \A s \in Delivery!Snapshots, r \in {"there", "elsewhere", "restored"} :
        LET n == [s EXCEPT !.current = TRUE, !.reads = r]
        IN  /\ n \in Delivery!Snapshots /\ n.source = s.source /\ n.reads = r
            /\ n.head = s.head
BY DEF Delivery!Snapshots

LEMMA SnapshotIsStale ==
    \A s \in Delivery!Snapshots :
        LET n == [Delivery!NoSnapshot EXCEPT !.url = s.url, !.merged = s.merged]
        IN  n \in Delivery!Snapshots /\ ~n.current /\ n.reads = "there"
BY DEF Delivery!Snapshots, Delivery!NoSnapshot

LEMMA SnapshotIsRestored ==
    \A s \in Delivery!Snapshots :
        /\ [s EXCEPT !.reads = "restored"] \in Delivery!Snapshots
        /\ [s EXCEPT !.reads = "restored"].reads = "restored"
        /\ [s EXCEPT !.reads = "restored"].current = s.current
BY DEF Delivery!Snapshots

\* And the threads.
Stages == {"none", "creating", "fetching", "heading", "comparing", "done", "failed"}

LEMMA WorkerIsOf ==
    \A p \in Stages, s \in Delivery!Snapshots :
        LET n == [Delivery!NoWorker EXCEPT !.pc = p, !.read = s]
        IN  n \in Delivery!Workers /\ n.pc = p /\ n.read = s
BY DEF Delivery!Workers, Delivery!NoWorker, Stages

LEMMA NoWorkerIsOne ==
    /\ Delivery!NoWorker \in Delivery!Workers /\ Delivery!NoWorker.pc = "none"
    /\ Delivery!NoWorker.read = Delivery!NoSnapshot
BY NoSnapshotIsOne DEF Delivery!Workers, Delivery!NoWorker

LEMMA SnapshotStarts ==
    \A f \in Delivery!Trees \cup {Delivery!Unknown} :
        LET n == [Delivery!NoSnapshot EXCEPT !.source = f]
        IN  n \in Delivery!Snapshots /\ n.reads = "there" /\ ~n.current
BY DEF Delivery!Snapshots, Delivery!NoSnapshot

LEMMA WorkerCreates ==
    \A k \in Delivery!Workers, u \in {"a", "none"} :
        LET n == [k EXCEPT !.pc = "fetching", !.created = TRUE, !.url = u]
        IN  n \in Delivery!Workers /\ n.pc = "fetching" /\ n.read = k.read
BY DEF Delivery!Workers

LEMMA WorkerFails ==
    /\ \A k \in Delivery!Workers :
         LET n == [k EXCEPT !.pc = "failed", !.read = Delivery!NoSnapshot]
         IN  n \in Delivery!Workers /\ n.pc = "failed" /\ n.read = Delivery!NoSnapshot
    /\ LET n == [Delivery!NoWorker EXCEPT !.pc = "failed"]
       IN  n \in Delivery!Workers /\ n.pc = "failed" /\ n.read = Delivery!NoSnapshot
BY NoSnapshotIsOne DEF Delivery!Workers, Delivery!NoWorker

LEMMA SnapshotIsRead ==
    \A s \in Delivery!Snapshots, r \in {"there", "elsewhere", "restored"} :
        LET n == [s EXCEPT !.reads = r]
        IN  /\ n \in Delivery!Snapshots /\ n.reads = r /\ n.source = s.source
            /\ n.current = s.current /\ n.head = s.head
BY DEF Delivery!Snapshots

LEMMA RecordIsLinked ==
    \A e \in Delivery!Records :
        /\ \A u \in {"a", "none"} :
             /\ [e EXCEPT !.url = u] \in Delivery!Records
             /\ [e EXCEPT !.url = u].saved = e.saved
        /\ \A s \in Delivery!Snapshots :
             [e EXCEPT !.saved = s] \in Delivery!Records /\ [e EXCEPT !.saved = s].saved = s
        /\ [e EXCEPT !.cleaned = TRUE] \in Delivery!Records
        /\ [e EXCEPT !.cleaned = TRUE].saved = e.saved
BY DEF Delivery!Records

-----------------------------------------------------------------------------
\* The same proofs serve every action that leaves a half of the state alone.
LEMMA SourceIsKept ==
    Delivery!SourcesOK /\ Delivery!FingerprintsCount
    /\ UNCHANGED <<Delivery!source, Delivery!probing>> =>
        Delivery!SourcesOK' /\ Delivery!FingerprintsCount' /\ v1' = v1
BY DEF Delivery!SourcesOK, Delivery!FingerprintsCount, Delivery!source, Delivery!probing

LEMMA RecordsAreTyped ==
    /\ v8' \in {"none", "Refresh", "Create", "Associate"}
    /\ v3' \in Delivery!Requests /\ v7' \in Delivery!Records
    /\ v9' \in Delivery!Workers /\ v10' \in Delivery!Snapshots
    => Delivery!RecordsOK'
BY DEF Delivery!RecordsOK

LEMMA SnapshotsAreKept ==
    /\ Delivery!Compared(v10) /\ Delivery!Compared(v7.saved) /\ Delivery!Compared(v9.read)
    /\ v1' = v1 /\ v10' \in {v10, v9.read, v7.saved, Delivery!NoSnapshot}
    /\ v7'.saved \in {v7.saved, v9.read}
    => Delivery!Compared(v10)' /\ Delivery!Compared(v7.saved)'
BY NoSnapshotIsOne DEF Delivery!Compared

\* A thread that has not compared anything yet.
LEMMA NothingIsCompared ==
    ~v9'.read.current /\ v9'.read.reads = "there" /\ v9'.pc # "comparing"
    => Delivery!Compared(v9.read)' /\ Delivery!WorkerCompares'
BY DEF Delivery!Compared, Delivery!WorkerCompares

LEMMA DeliveryBegins == Delivery!Init => Delivery!IInv
<1> SUFFICES ASSUME Delivery!Init PROVE Delivery!IInv
  OBVIOUS
<1>1. Delivery!SourcesOK /\ Delivery!FingerprintsCount
  BY BoundsAreNumbers
  DEF Delivery!Init, Delivery!SourcesOK, Delivery!FingerprintsCount, Delivery!Trees
<1>6. Delivery!FlagsOK
  BY DEF Delivery!Init, Delivery!FlagsOK
<1>2. v7 \in Delivery!Records /\ v7.saved = Delivery!NoSnapshot
  BY NoSnapshotIsOne DEF Delivery!Init, Delivery!Records
<1>3. v3 \in Delivery!Requests
  BY BoundsAreNumbers
  DEF Delivery!Init, Delivery!Requests, Delivery!NoRequest, Delivery!Trees
<1>4. Delivery!RecordsOK
  BY <1>2, <1>3, NoSnapshotIsOne, NoWorkerIsOne DEF Delivery!Init, Delivery!RecordsOK
<1>5. Delivery!SnapshotsAreCompared
  BY <1>2, NoSnapshotIsOne, NoWorkerIsOne
  DEF Delivery!Init, Delivery!SnapshotsAreCompared, Delivery!Compared,
      Delivery!WorkerCompares
<1> QED
  BY <1>1, <1>4, <1>5, <1>6 DEF Delivery!IInv, Delivery!TypeOK

LEMMA DeliveryStutters == Delivery!IInv /\ UNCHANGED Delivery!delivery => Delivery!IInv'
BY DEF Delivery!delivery, Delivery!source, Delivery!probing, Delivery!acting,
   Delivery!answer, Delivery!TypeOK, Delivery!SourcesOK, Delivery!FlagsOK,
   Delivery!RecordsOK, Delivery!FingerprintsCount, Delivery!SnapshotsAreCompared,
   Delivery!Compared, Delivery!WorkerCompares, Delivery!IInv

LEMMA DeliveryStep == Delivery!IInv /\ Delivery!Next => Delivery!IInv'
<1> SUFFICES ASSUME Delivery!IInv, Delivery!Next PROVE Delivery!IInv'
  OBVIOUS
<1> USE DEF Delivery!source, Delivery!probing, Delivery!acting, Delivery!answer
<1>1. Delivery!SourcesOK /\ Delivery!FlagsOK /\ Delivery!FingerprintsCount
  BY DEF Delivery!IInv, Delivery!TypeOK
<1>2. /\ v8 \in {"none", "Refresh", "Create", "Associate"}
      /\ v3 \in Delivery!Requests /\ v7 \in Delivery!Records
      /\ v9 \in Delivery!Workers /\ v10 \in Delivery!Snapshots
  BY DEF Delivery!IInv, Delivery!TypeOK, Delivery!RecordsOK
<1>3. /\ v9.pc \in Stages /\ v9.read \in Delivery!Snapshots /\ v9.url \in {"a", "none"}
      /\ v9.read.url \in {"a", "none"} /\ v7.saved \in Delivery!Snapshots
      /\ v9.read.reads \in {"there", "elsewhere", "restored"} /\ v7.url \in {"a", "none"}
      /\ v3.url \in {"a", "none"}
      /\ v9.read.source \in Delivery!Trees \cup {Delivery!Unknown}
  BY <1>2 DEF Delivery!Workers, Delivery!Records, Delivery!Snapshots, Delivery!Requests,
     Stages
<1>4. /\ Delivery!Compared(v10) /\ Delivery!Compared(v7.saved)
      /\ Delivery!Compared(v9.read) /\ Delivery!WorkerCompares
  BY DEF Delivery!IInv, Delivery!SnapshotsAreCompared
<1>5. Delivery!CurrentFingerprint \in Delivery!Trees \cup {Delivery!Unknown}
  BY <1>1 DEF Delivery!CurrentFingerprint, Delivery!SourcesOK
<1>6. v1 \in Delivery!Trees /\ Delivery!Head(v1) \in Delivery!Trees
  BY <1>1, HeadIsTree DEF Delivery!SourcesOK
<1>7. v4 \in BOOLEAN /\ v11 \in BOOLEAN
  BY <1>1 DEF Delivery!FlagsOK
<1>8. SUFFICES /\ Delivery!SourcesOK' /\ Delivery!FlagsOK' /\ Delivery!RecordsOK'
               /\ Delivery!FingerprintsCount' /\ Delivery!Compared(v10)'
               /\ Delivery!Compared(v7.saved)' /\ Delivery!Compared(v9.read)'
               /\ Delivery!WorkerCompares'
  BY DEF Delivery!IInv, Delivery!TypeOK, Delivery!SnapshotsAreCompared
<1>9. CASE Delivery!ProbeStep
  <2>1. UNCHANGED <<v1, v2, v12, v3, v7, v8, v9, v10, v11>>
    BY <1>9 DEF Delivery!ProbeStep
  <2>2. CASE Delivery!Fingerprinted
    <3>1. Delivery!SourcesOK' /\ v4' = v4
      BY <2>1, <2>2, <1>1, <1>6
      DEF Delivery!Fingerprinted, Delivery!Fingerprints, Delivery!SourcesOK
    <3>2. Delivery!FingerprintsCount'
      <4> SUFFICES ASSUME ~v4', v5' # Delivery!Unknown, v2' = v12' PROVE v5' = v1'
        BY <2>2 DEF Delivery!FingerprintsCount, Delivery!Fingerprinted
      <4>1. v6 # Delivery!Idle /\ ~v4 /\ v5' \in Delivery!Fingerprints /\ v2 = v12
        BY <2>1, <2>2 DEF Delivery!Fingerprinted
      <4>2. v6 \in 0 .. v12 /\ v2 <= v6 /\ v12 \in Nat
        BY <4>1, <1>1, BoundsAreNumbers DEF Delivery!SourcesOK, Delivery!FingerprintsCount
      <4>3. v6 = v12
        BY <4>1, <4>2
      <4> QED
        BY <2>1, <4>1, <4>3 DEF Delivery!Fingerprints
    <3> QED
      <4>1. Delivery!FlagsOK'
        BY <2>1, <3>1, <1>7 DEF Delivery!FlagsOK
      <4>2. Delivery!RecordsOK'
        BY <2>1, <3>1, <3>2, <1>2, <1>4, RecordsAreTyped
      <4> QED
        BY <4>1, <4>2, <2>1, <3>1, <3>2, <1>2, <1>4
      DEF Delivery!Compared, Delivery!WorkerCompares
  <2>3. CASE Delivery!BeginsFingerprint
    <3>1. v4' = FALSE /\ v6' = v12 /\ v5' = v5 /\ v5 = Delivery!Unknown
      BY <2>3 DEF Delivery!BeginsFingerprint
    <3>2. Delivery!SourcesOK' /\ Delivery!FingerprintsCount'
      BY <3>1, <2>1, <1>1, BoundsAreNumbers
      DEF Delivery!SourcesOK, Delivery!FingerprintsCount
    <3> QED
      <4>1. Delivery!FlagsOK'
        BY <2>1, <3>1, <1>7 DEF Delivery!FlagsOK
      <4>2. Delivery!RecordsOK'
        BY <2>1, <3>1, <3>2, <1>2, <1>4, RecordsAreTyped
      <4> QED
        BY <4>1, <4>2, <2>1, <3>1, <3>2, <1>2, <1>4
      DEF Delivery!Compared, Delivery!WorkerCompares
  <2> QED
    BY <1>9, <2>2, <2>3 DEF Delivery!ProbeStep
<1>10. ASSUME NEW kind \in {"Refresh", "Create", "Associate"}, NEW u \in {"a", "none"},
              Delivery!Start(kind, u)
       PROVE  /\ Delivery!SourcesOK' /\ Delivery!FlagsOK' /\ Delivery!RecordsOK'
              /\ Delivery!FingerprintsCount' /\ Delivery!Compared(v10)'
              /\ Delivery!Compared(v7.saved)' /\ Delivery!Compared(v9.read)'
              /\ Delivery!WorkerCompares'
  <2>1. UNCHANGED <<v1, v2, v12, v3, v4, v5, v6, v7, v10>> /\ v8' = kind
    BY <1>10 DEF Delivery!Start
  <2>2. PICK p \in {"creating", "fetching"} :
          v9' = [Delivery!NoWorker EXCEPT
                   !.pc = p, !.url = u,
                   !.read = [Delivery!NoSnapshot EXCEPT
                               !.source = Delivery!CurrentFingerprint]]
    BY <1>10 DEF Delivery!Start
  <2>3. /\ v9' \in Delivery!Workers /\ v9'.pc \in {"creating", "fetching"}
        /\ v9'.read.reads = "there" /\ ~v9'.read.current
    <3> DEFINE n == [Delivery!NoSnapshot EXCEPT !.source = Delivery!CurrentFingerprint]
    <3>1. n \in Delivery!Snapshots /\ n.reads = "there" /\ ~n.current
      BY <1>5, SnapshotStarts, Zenon
    <3>2. v9' = [Delivery!NoWorker EXCEPT !.pc = p, !.url = u, !.read = n]
      BY <2>2
    <3> HIDE DEF n
    <3>3. v9' \in Delivery!Workers /\ v9'.pc = p /\ v9'.read = n
      BY <3>1, <3>2 DEF Delivery!Workers, Delivery!NoWorker
    <3> QED
      BY <3>1, <3>3
  <2>4. Delivery!SourcesOK' /\ Delivery!FingerprintsCount'
    BY <2>1, <1>1, SourceIsKept
  <2>5. Delivery!Compared(v9.read)' /\ Delivery!WorkerCompares'
    BY <2>3, NothingIsCompared
  <2>6. Delivery!Compared(v10)' /\ Delivery!Compared(v7.saved)'
    BY <2>1, <1>4, SnapshotsAreKept
  <2> QED
    <3>1. Delivery!FlagsOK'
      <4>1. v11' \in BOOLEAN
        BY <1>10, <1>7 DEF Delivery!Start, Delivery!FlagsOK
      <4> QED
        BY <4>1, <2>1, <1>7 DEF Delivery!FlagsOK
    <3>2. Delivery!RecordsOK'
      BY <2>1, <2>3, <2>4, <2>5, <2>6, <1>2, RecordsAreTyped
    <3> QED
      BY <3>1, <3>2, <2>1, <2>3, <2>4, <2>5, <2>6, <1>2
<1>11. CASE Delivery!Refresh \/ Delivery!Create \/ Delivery!Associate
  BY <1>11, <1>10, <1>3 DEF Delivery!Refresh, Delivery!Create, Delivery!Associate
<1>12. CASE Delivery!Creates
  <2>1. UNCHANGED <<v1, v2, v12, v4, v5, v6, v7, v8, v10, v11>> /\ v9.pc = "creating"
    BY <1>12 DEF Delivery!Creates
  <2>2. v3' \in Delivery!Requests
    BY <1>12, <1>2, <1>6, RequestIsMade DEF Delivery!Creates
  <2>3. /\ v9' \in Delivery!Workers /\ v9'.pc \in {"fetching", "failed"}
        /\ v9'.read \in {v9.read, Delivery!NoSnapshot}
    <3>1. CASE \E u \in {"a", "none"} :
                 v9' = [v9 EXCEPT !.pc = "fetching", !.created = TRUE, !.url = u]
      <4>1. PICK u \in {"a", "none"} :
                 v9' = [v9 EXCEPT !.pc = "fetching", !.created = TRUE, !.url = u]
        BY <3>1
      <4>2. v9' \in Delivery!Workers /\ v9'.pc = "fetching" /\ v9'.read = v9.read
        BY <4>1, <1>2, WorkerCreates, Zenon
      <4> QED
        BY <4>2
    <3>2. CASE v9' = [Delivery!NoWorker EXCEPT !.pc = "failed"]
      BY <3>2, WorkerFails
    <3> QED
      BY <1>12, <3>1, <3>2 DEF Delivery!Creates
  <2>4. Delivery!SourcesOK' /\ Delivery!FingerprintsCount'
    BY <2>1, <1>1, SourceIsKept
  <2>5. Delivery!Compared(v9.read)' /\ Delivery!WorkerCompares'
    BY <2>1, <2>3, <1>4, NoSnapshotIsOne DEF Delivery!Compared, Delivery!WorkerCompares
  <2>6. Delivery!Compared(v10)' /\ Delivery!Compared(v7.saved)'
    BY <2>1, <1>4, SnapshotsAreKept
  <2> QED
    <3>1. Delivery!FlagsOK'
      BY <2>1, <2>5, <1>7 DEF Delivery!FlagsOK
    <3>2. Delivery!RecordsOK'
      BY <2>1, <2>2, <2>3, <2>4, <2>5, <2>6, <1>2, RecordsAreTyped
    <3> QED
      BY <3>1, <3>2, <2>1, <2>2, <2>3, <2>4, <2>5, <2>6, <1>2
<1>13. CASE Delivery!Fetches
  <2>1. UNCHANGED <<v1, v2, v12, v3, v4, v5, v6, v7, v8, v10, v11>> /\ v9.pc = "fetching"
    BY <1>13 DEF Delivery!Fetches
  <2>2. /\ v9' \in Delivery!Workers /\ v9'.pc \in {"heading", "failed"}
        /\ ~v9'.read.current
        /\ v9'.read.reads = "elsewhere" =>
             v9'.read.source = v9.read.source /\ v9.read.reads = "elsewhere"
    <3>1. CASE v9' = [v9 EXCEPT !.pc = "failed", !.read = Delivery!NoSnapshot]
      <4>1. /\ v9' \in Delivery!Workers /\ v9'.pc = "failed"
            /\ v9'.read = Delivery!NoSnapshot
        BY <3>1, <1>2, WorkerFails, Zenon
      <4> QED
        BY <4>1, NoSnapshotIsOne
    <3>2. CASE v9' = [Delivery!NoWorker EXCEPT
                        !.pc = "heading",
                        !.read = [v9.read EXCEPT !.url = v3.url, !.head = v3.head,
                                                 !.merged = v3.merged]]
      <4> DEFINE n == [v9.read EXCEPT !.url = v3.url, !.head = v3.head,
                                      !.merged = v3.merged]
      <4>1. /\ n \in Delivery!Snapshots /\ n.source = v9.read.source
            /\ n.reads = v9.read.reads /\ n.current = v9.read.current
        BY <1>2, <1>3, SnapshotIsFetched, Zenon
      <4>2. v9' = [Delivery!NoWorker EXCEPT !.pc = "heading", !.read = n]
        BY <3>2
      <4> HIDE DEF n
      <4>3. "heading" \in Stages
        BY DEF Stages
      <4>4. v9' \in Delivery!Workers /\ v9'.pc = "heading" /\ v9'.read = n
        BY <4>1, <4>2, <4>3, WorkerIsOf, Zenon
      <4> QED
        BY <4>1, <4>4, <2>1, <1>4 DEF Delivery!WorkerCompares
    <3> QED
      BY <1>13, <3>1, <3>2 DEF Delivery!Fetches
  <2>3. Delivery!SourcesOK' /\ Delivery!FingerprintsCount'
    BY <2>1, <1>1, SourceIsKept
  <2>4. Delivery!Compared(v9.read)' /\ Delivery!WorkerCompares'
    BY <2>1, <2>2, <1>4 DEF Delivery!Compared, Delivery!WorkerCompares
  <2>5. Delivery!Compared(v10)' /\ Delivery!Compared(v7.saved)'
    BY <2>1, <1>4, SnapshotsAreKept
  <2> QED
    <3>1. Delivery!FlagsOK'
      BY <2>1, <2>5, <1>7 DEF Delivery!FlagsOK
    <3>2. Delivery!RecordsOK'
      BY <2>1, <2>2, <2>3, <2>4, <2>5, <1>2, RecordsAreTyped
    <3> QED
      BY <3>1, <3>2, <2>1, <2>2, <2>3, <2>4, <2>5, <1>2
<1>14. CASE Delivery!ReadsHead
  <2>1. UNCHANGED <<v1, v2, v12, v3, v4, v5, v6, v7, v8, v10, v11>> /\ v9.pc = "heading"
    BY <1>14 DEF Delivery!ReadsHead
  <2>2. Delivery!Found \in {"there", "elsewhere", "restored"}
    BY <1>3 DEF Delivery!Found
  <2>3. /\ v9' \in Delivery!Workers /\ v9'.pc = "comparing"
        /\ v9'.local = Delivery!Head(v1) /\ v9'.read.reads = Delivery!Found
        /\ v9'.read.source = v9.read.source /\ v9'.read.current = v9.read.current
    <3> DEFINE n == [v9.read EXCEPT !.reads = Delivery!Found]
    <3>1. /\ n \in Delivery!Snapshots /\ n.reads = Delivery!Found
          /\ n.source = v9.read.source /\ n.current = v9.read.current
      BY <2>2, <1>3, SnapshotIsRead, Zenon
    <3>2. v9' = [v9 EXCEPT !.pc = "comparing", !.local = Delivery!Head(v1), !.read = n]
      BY <1>14 DEF Delivery!ReadsHead
    <3> HIDE DEF n
    <3>3. /\ v9' \in Delivery!Workers /\ v9'.pc = "comparing"
          /\ v9'.local = Delivery!Head(v1) /\ v9'.read = n
      BY <3>1, <3>2, <1>2, <1>6 DEF Delivery!Workers
    <3> QED
      BY <3>1, <3>3
  <2>4. Delivery!SourcesOK' /\ Delivery!FingerprintsCount'
    BY <2>1, <1>1, SourceIsKept
  <2>5. Delivery!Compared(v9.read)' /\ Delivery!WorkerCompares'
    BY <2>1, <2>3, <1>4 DEF Delivery!Compared, Delivery!WorkerCompares, Delivery!Found
  <2>6. Delivery!Compared(v10)' /\ Delivery!Compared(v7.saved)'
    BY <2>1, <1>4, SnapshotsAreKept
  <2> QED
    <3>1. Delivery!FlagsOK'
      BY <2>1, <2>5, <1>7 DEF Delivery!FlagsOK
    <3>2. Delivery!RecordsOK'
      BY <2>1, <2>3, <2>4, <2>5, <2>6, <1>2, RecordsAreTyped
    <3> QED
      BY <3>1, <3>2, <2>1, <2>3, <2>4, <2>5, <2>6, <1>2
<1>15. CASE Delivery!Compares
  <2>1. UNCHANGED <<v1, v2, v12, v3, v4, v5, v6, v7, v8, v10, v11>> /\ v9.pc = "comparing"
    BY <1>15 DEF Delivery!Compares
  <2>2. Delivery!Found \in {"there", "elsewhere", "restored"} /\ "done" \in Stages
    BY <1>3 DEF Delivery!Found, Stages
  <2>3. /\ v9' \in Delivery!Workers /\ v9'.pc = "done"
        /\ Delivery!Compared(v9.read)'
    <3>1. CASE Delivery!IsFresh /\ v9' = [Delivery!NoWorker EXCEPT !.pc = "done",
                 !.read = [v9.read EXCEPT !.current = TRUE, !.reads = Delivery!Found]]
      <4> DEFINE n == [v9.read EXCEPT !.current = TRUE, !.reads = Delivery!Found]
      <4>1. /\ n \in Delivery!Snapshots /\ n.source = v9.read.source
            /\ n.reads = Delivery!Found /\ n.head = v9.read.head
        BY <1>3, <2>2, SnapshotIsCompared, Zenon
      <4>2. v9' = [Delivery!NoWorker EXCEPT !.pc = "done", !.read = n]
        BY <3>1
      <4> HIDE DEF n
      <4>3. v9' \in Delivery!Workers /\ v9'.pc = "done" /\ v9'.read = n
        BY <4>1, <4>2, <2>2, WorkerIsOf, Zenon
      <4>4. Delivery!Clean(v1) /\ v9.local = v9.read.head
        BY <3>1 DEF Delivery!IsFresh
      <4>5. Delivery!Compared(v9.read)'
        BY <4>1, <4>3, <4>4, <2>1, <1>4
        DEF Delivery!Compared, Delivery!WorkerCompares, Delivery!Found
      <4> QED
        BY <4>3, <4>5
    <3>2. CASE v9' = [Delivery!NoWorker EXCEPT !.pc = "done",
                 !.read = [Delivery!NoSnapshot EXCEPT !.url = v9.read.url,
                                                      !.merged = v9.read.merged]]
      <4> DEFINE n == [Delivery!NoSnapshot EXCEPT !.url = v9.read.url,
                                                  !.merged = v9.read.merged]
      <4>1. n \in Delivery!Snapshots /\ ~n.current /\ n.reads = "there"
        BY <1>3, SnapshotIsStale, Zenon
      <4>2. v9' = [Delivery!NoWorker EXCEPT !.pc = "done", !.read = n]
        BY <3>2
      <4> HIDE DEF n
      <4>3. v9' \in Delivery!Workers /\ v9'.pc = "done" /\ v9'.read = n
        BY <4>1, <4>2, <2>2, WorkerIsOf, Zenon
      <4> QED
        BY <4>1, <4>3 DEF Delivery!Compared
    <3> QED
      BY <1>15, <3>1, <3>2 DEF Delivery!Compares, Delivery!Answered
  <2>4. Delivery!SourcesOK' /\ Delivery!FingerprintsCount'
    BY <2>1, <1>1, SourceIsKept
  <2>5. Delivery!WorkerCompares'
    BY <2>3 DEF Delivery!WorkerCompares
  <2>6. Delivery!Compared(v10)' /\ Delivery!Compared(v7.saved)'
    BY <2>1, <1>4, SnapshotsAreKept
  <2> QED
    <3>1. Delivery!FlagsOK'
      BY <2>1, <2>5, <1>7 DEF Delivery!FlagsOK
    <3>2. Delivery!RecordsOK'
      BY <2>1, <2>3, <2>4, <2>5, <2>6, <1>2, RecordsAreTyped
    <3> QED
      BY <3>1, <3>2, <2>1, <2>3, <2>4, <2>5, <2>6, <1>2
<1>16. CASE Delivery!Process
  <2>1. UNCHANGED <<v1, v2, v12, v3, v4, v5, v6>> /\ v8' = "none" /\ v9' = Delivery!NoWorker
    BY <1>16 DEF Delivery!Process
  <2>2. \A e \in Delivery!Records, s \in Delivery!Snapshots :
          /\ Delivery!Kept(e, s) \in Delivery!Records
          /\ Delivery!Kept(e, s).saved \in {e.saved, s}
    BY RecordIsLinked DEF Delivery!Kept
  <2>3. \A u \in {"a", "none"} :
          Delivery!Linked(u) \in Delivery!Records /\ Delivery!Linked(u).saved = v7.saved
    BY <1>2, RecordIsLinked DEF Delivery!Linked
  <2>4. v7' \in Delivery!Records /\ v7'.saved \in {v7.saved, v9.read}
    BY <1>16, <2>2, <2>3, <1>2, <1>3, Zenon
    DEF Delivery!Process, Delivery!Succeeds, Delivery!Fails
  <2>5. v10' \in {v10, v9.read} /\ v11' \in BOOLEAN
    BY <1>16, <1>7 DEF Delivery!Process, Delivery!Succeeds, Delivery!Fails
  <2>6. v9' \in Delivery!Workers /\ v10' \in Delivery!Snapshots
    BY <2>1, <2>5, <1>2, <1>3, NoWorkerIsOne
  <2>7. Delivery!SourcesOK' /\ Delivery!FingerprintsCount'
    BY <2>1, <1>1, SourceIsKept
  <2>8. Delivery!Compared(v9.read)' /\ Delivery!WorkerCompares'
    BY <2>1, NoWorkerIsOne, NoSnapshotIsOne, NothingIsCompared
  <2>9. Delivery!Compared(v10)' /\ Delivery!Compared(v7.saved)'
    BY <2>1, <2>4, <2>5, <1>4, SnapshotsAreKept
  <2> QED
    <3>1. Delivery!FlagsOK'
      BY <2>1, <2>5, <1>7 DEF Delivery!FlagsOK
    <3>2. Delivery!RecordsOK'
      BY <2>1, <2>4, <2>5, <2>6, <2>7, <2>8, <2>9, <1>2, RecordsAreTyped
    <3> QED
      BY <3>1, <3>2, <2>1, <2>4, <2>5, <2>6, <2>7, <2>8, <2>9, <1>2
<1>17. CASE Delivery!Edit
  <2>1. /\ UNCHANGED <<v2, v3, v4, v5, v6, v8, v11>> /\ v12 < MaxEdit /\ v12' = v12 + 1
        /\ v1' \in Delivery!Trees \ {v1}
        /\ v10' = Delivery!Restored(v10)
        /\ v7' = [v7 EXCEPT !.saved = Delivery!Restored(v7.saved)]
        /\ v9' = [v9 EXCEPT !.read = Delivery!Restored(v9.read)]
    BY <1>17 DEF Delivery!Edit
  <2>2. \A s \in Delivery!Snapshots :
          /\ Delivery!Restored(s) \in Delivery!Snapshots
          /\ Delivery!Restored(s).current = s.current
          /\ \/ Delivery!Restored(s) = s /\ (s.reads = "elsewhere" => s.source # v1')
             \/ Delivery!Restored(s).reads = "restored"
    BY SnapshotIsRestored, Zenon DEF Delivery!Restored
  <2>3. v7' \in Delivery!Records /\ v7'.saved = Delivery!Restored(v7.saved)
    BY <2>1, <2>2, <1>2, <1>3 DEF Delivery!Records
  <2>4. /\ v9' \in Delivery!Workers /\ v9'.read = Delivery!Restored(v9.read)
        /\ v9'.pc = v9.pc /\ v9'.local = v9.local
    BY <2>1, <2>2, <1>2, <1>3 DEF Delivery!Workers
  <2>5. Delivery!SourcesOK' /\ Delivery!FingerprintsCount'
    BY <2>1, <1>1, BoundsAreNumbers
    DEF Delivery!SourcesOK, Delivery!FingerprintsCount, Delivery!Idle
  <2>6. /\ Delivery!Compared(v10)' /\ Delivery!Compared(v7.saved)'
        /\ Delivery!Compared(v9.read)'
    BY <2>1, <2>2, <2>3, <2>4, <1>2, <1>3, <1>4 DEF Delivery!Compared
  <2>7. Delivery!WorkerCompares'
    BY <2>2, <2>4, <1>3, <1>4 DEF Delivery!WorkerCompares
  <2>8. v10' \in Delivery!Snapshots
    BY <2>1, <2>2, <1>2
  <2> QED
    <3>1. Delivery!FlagsOK'
      BY <2>1, <2>5, <1>7 DEF Delivery!FlagsOK
    <3>2. Delivery!RecordsOK'
      BY <2>1, <2>3, <2>4, <2>5, <2>6, <2>7, <2>8, <1>2, RecordsAreTyped
    <3> QED
      BY <3>1, <3>2, <2>1, <2>3, <2>4, <2>5, <2>6, <2>7, <2>8, <1>2
<1>18. CASE Delivery!Reports
  <2>1. UNCHANGED <<v1, v12, v3, v6, v7, v8, v9, v10, v11>> /\ v4' = TRUE
    BY <1>18 DEF Delivery!Reports
  <2>2. Delivery!SourcesOK' /\ Delivery!FingerprintsCount'
    BY <1>18, <2>1, <1>1, BoundsAreNumbers
    DEF Delivery!Reports, Delivery!SourcesOK, Delivery!FingerprintsCount
  <2> QED
    <3>1. Delivery!FlagsOK'
      BY <2>1, <1>7 DEF Delivery!FlagsOK
    <3>2. Delivery!RecordsOK'
      BY <2>1, <2>2, <1>2, <1>4, RecordsAreTyped
    <3> QED
      BY <3>1, <3>2, <2>1, <2>2, <1>2, <1>4
      DEF Delivery!Compared, Delivery!WorkerCompares
<1>19. CASE Delivery!Push
  <2>1. UNCHANGED <<v1, v2, v12, v4, v5, v6, v7, v8, v9, v10, v11>>
    BY <1>19 DEF Delivery!Push
  <2>2. v3' \in Delivery!Requests
    BY <1>19, <1>2, <1>6, RequestIsMade, Zenon DEF Delivery!Push
  <2>3. Delivery!SourcesOK' /\ Delivery!FingerprintsCount'
    BY <2>1, <1>1, SourceIsKept
  <2> QED
    <3>1. Delivery!FlagsOK'
      BY <2>1, <1>7 DEF Delivery!FlagsOK
    <3>2. Delivery!RecordsOK'
      BY <2>1, <2>2, <2>3, <1>2, <1>4, RecordsAreTyped
    <3> QED
      BY <3>1, <3>2, <2>1, <2>2, <2>3, <1>2, <1>4
      DEF Delivery!Compared, Delivery!WorkerCompares
<1>20. CASE Delivery!Restart
  <2>1. /\ UNCHANGED <<v1, v2, v12, v3, v7>> /\ v4' = TRUE /\ v5' = Delivery!Unknown
        /\ v6' = Delivery!Idle /\ v8' = "none" /\ v9' = Delivery!NoWorker /\ v11' = FALSE
        /\ v10' \in {v7.saved, Delivery!NoSnapshot}
    BY <1>20 DEF Delivery!Restart
  <2>2. Delivery!SourcesOK' /\ Delivery!FingerprintsCount'
    BY <2>1, <1>1 DEF Delivery!SourcesOK, Delivery!FingerprintsCount
  <2>3. v9' \in Delivery!Workers /\ v10' \in Delivery!Snapshots
    BY <2>1, <1>3, NoWorkerIsOne, NoSnapshotIsOne
  <2>4. Delivery!Compared(v9.read)' /\ Delivery!WorkerCompares'
    BY <2>1, NoWorkerIsOne, NoSnapshotIsOne, NothingIsCompared
  <2>5. Delivery!Compared(v10)' /\ Delivery!Compared(v7.saved)'
    BY <2>1, <1>4, SnapshotsAreKept
  <2> QED
    <3>1. Delivery!FlagsOK'
      BY <2>1, <2>5 DEF Delivery!FlagsOK
    <3>2. Delivery!RecordsOK'
      BY <2>1, <2>2, <2>3, <2>4, <2>5, <1>2, RecordsAreTyped
    <3> QED
      BY <3>1, <3>2, <2>1, <2>2, <2>3, <2>4, <2>5, <1>2
<1>21. CASE Delivery!Cleaned
  <2>1. UNCHANGED <<v1, v2, v12, v3, v4, v5, v6, v8, v9, v10, v11>>
    BY <1>21 DEF Delivery!Cleaned
  <2>2. v7' \in Delivery!Records /\ v7'.saved = v7.saved
    BY <1>21, <1>2, RecordIsLinked DEF Delivery!Cleaned
  <2>3. Delivery!SourcesOK' /\ Delivery!FingerprintsCount'
    BY <2>1, <1>1, SourceIsKept
  <2> QED
    <3>1. Delivery!FlagsOK'
      BY <2>1, <1>7 DEF Delivery!FlagsOK
    <3>2. Delivery!RecordsOK'
      BY <2>1, <2>2, <2>3, <1>2, <1>4, RecordsAreTyped
    <3> QED
      BY <3>1, <3>2, <2>1, <2>2, <2>3, <1>2, <1>4
      DEF Delivery!Compared, Delivery!WorkerCompares
<1> QED
  BY <1>9, <1>11, <1>12, <1>13, <1>14, <1>15, <1>16, <1>17, <1>18, <1>19, <1>20, <1>21
  DEF Delivery!Next

LEMMA DeliveryIsCurrent == Delivery!IInv => Delivery!CurrentIsCurrent
<1> SUFFICES ASSUME Delivery!IInv, Delivery!ShownAsCurrent, v2 = v12, v10.reads # "restored"
             PROVE  Delivery!Clean(v1) /\ Delivery!Head(v1) = v10.head
  BY DEF Delivery!CurrentIsCurrent
<1>1. /\ v10.source = v5 /\ v5 # Delivery!Unknown /\ ~v4 /\ v10.current
  BY DEF Delivery!ShownAsCurrent, Delivery!CurrentFingerprint
<1>2. v10.source = v1 /\ v1 \in Delivery!Trees
  BY <1>1 DEF Delivery!IInv, Delivery!TypeOK, Delivery!SourcesOK, Delivery!FingerprintsCount
<1>3. v10.reads = "there"
  BY <1>2
  DEF Delivery!IInv, Delivery!TypeOK, Delivery!RecordsOK, Delivery!Snapshots,
      Delivery!SnapshotsAreCompared, Delivery!Compared
<1> QED
  BY <1>1, <1>2, <1>3 DEF Delivery!IInv, Delivery!SnapshotsAreCompared, Delivery!Compared

-----------------------------------------------------------------------------
(* The verification of a task. *)

\* What is kept of the parts of a source: nothing, what they are, and what they become.
LEMMA UnreadIsNoSource ==
    /\ Verification!Unread \notin Verification!Sources
    /\ Verification!NoHistory \in Verification!Histories
BY BoundsAreNumbers, BoundsAssumption
DEF BoundsAssumption, Verification!Sources, Verification!Contents, Verification!Unread,
    Verification!NoHistory, Verification!Histories

LEMMA NoPartIsUnread ==
    \A s \in Verification!Sources, p \in Parts :
        Verification!Unread[p] # s[p] /\ s[p] \in Verification!Contents
BY BoundsAreNumbers
DEF Verification!Sources, Verification!Contents, Verification!Unread

LEMMA SourceIsEdited ==
    ASSUME NEW s \in Verification!Sources, NEW p \in Parts,
           NEW c \in Verification!Contents
    PROVE  /\ [s EXCEPT ![p] = c] \in Verification!Sources
           /\ [s EXCEPT ![p] = c][p] = c
           /\ \A q \in Parts \ {p} : [s EXCEPT ![p] = c][q] = s[q]
BY DEF Verification!Sources

LEMMA NothingIsKept == \A p \in Parts : Verification!NoHistory[p] = {}
BY DEF Verification!NoHistory

LEMMA RunIsKept == UNCHANGED v11 => (Verification!HasRun' <=> Verification!HasRun)
BY DEF Verification!HasRun

LEMMA PartsAreKept ==
    v1 \in Verification!Sources =>
        /\ Verification!Begun \in Verification!Histories
        /\ \A p \in Parts : Verification!Begun[p] = {v1[p]}
BY DEF Verification!Histories, Verification!Sources, Verification!Begun

LEMMA HistoryGrows ==
    ASSUME NEW h \in Verification!Histories, NEW p \in Parts,
           NEW c \in Verification!Contents
    PROVE  /\ Verification!Seen(h, p, c) \in Verification!Histories
           /\ \A q \in Parts \ {p} : Verification!Seen(h, p, c)[q] = h[q]
           /\ h[p] # {} => Verification!Seen(h, p, c)[p] # {}
           /\ Verification!Seen(h, p, c)[p] \subseteq h[p] \cup {c}
BY DEF Verification!Histories, Verification!Seen

LEMMA FingerprintIsOfSources ==
    \A h \in Verification!Histories :
        /\ Verification!Fingerprints(h) \subseteq Verification!Sources
        /\ \A f \in Verification!Fingerprints(h), p \in Parts : f[p] \in h[p]
BY DEF Verification!Fingerprints

LEMMA VerificationBegins == Verification!Init => Verification!IInv
<1> SUFFICES ASSUME Verification!Init PROVE Verification!IInv
  OBVIOUS
<1> USE BoundsAreNumbers, NobodyIsNoWindow, UnreadIsNoSource
DEF Verification!Init, Verification!Runs, Verification!Nobody,
      Verification!NoResult, Verification!NoProbe, Verification!States,
      Verification!Over, Verification!worker, Verification!shown,
      Verification!Active, Verification!IsCurrent, Verification!TypeOK
<1>1. Verification!TypeOK
  <2>1. Verification!ResultOK
    BY DEF Verification!ResultOK
  <2> QED
    BY <2>1 DEF Verification!TypeOK, Verification!Sources, Verification!Contents
<1>2. Verification!WorkersAreHeld
  <2>1. ASSUME NEW w \in Windows PROVE v5[w] = "idle" /\ v6[w] = 0
    OBVIOUS
  <2> QED
    BY <2>1 DEF Verification!WorkersAreHeld, Verification!HeldBy
<1>3. Verification!RunsAreOfTheirTime
  BY DEF Verification!RunsAreOfTheirTime, Verification!WorkersAreHeld,
     Verification!HeldBy, Verification!ResultOK
<1>4. Verification!ProbesAreOfTheirTime
  BY DEF Verification!ProbesAreOfTheirTime, Verification!RunsAreOfTheirTime,
     Verification!WorkersAreHeld, Verification!HeldBy,
     Verification!ResultOK
<1> QED
  BY <1>1, <1>2, <1>3, <1>4 DEF Verification!IInv

LEMMA VerificationStutters == Verification!IInv /\ UNCHANGED Verification!vars => Verification!IInv'
BY RunIsKept DEF Verification!vars, Verification!Runs, Verification!Nobody,
   Verification!NoResult, Verification!NoProbe, Verification!States,
   Verification!Over, Verification!worker, Verification!shown,
   Verification!Active, Verification!IsCurrent, Verification!TypeOK,
   Verification!ResultOK, Verification!WorkersAreHeld,
   Verification!HeldBy, Verification!RunsAreOfTheirTime,
   Verification!ProbesAreOfTheirTime, Verification!IInv

LEMMA VerificationStep == Verification!IInv /\ Verification!Next => Verification!IInv'
<1> SUFFICES ASSUME Verification!IInv, Verification!Next PROVE Verification!IInv'
  OBVIOUS
<1> USE BoundsAreNumbers, NobodyIsNoWindow, UnreadIsNoSource, RunIsKept DEF
      Verification!Runs, Verification!Nobody, Verification!NoResult,
      Verification!NoProbe, Verification!States, Verification!Over,
      Verification!worker, Verification!shown, Verification!Active,
      Verification!IsCurrent, Verification!TypeOK, Verification!IInv
<1>1. ASSUME NEW p \in Parts, NEW c \in Verification!Contents, Verification!Edit(p, c)
      PROVE  Verification!IInv'
  <2>1. /\ v15 < MaxEdit /\ v15' = v15 + 1 /\ v1[p] # c /\ v1' = [v1 EXCEPT ![p] = c]
        /\ v7' = [w \in Windows |-> Verification!Seen(v7[w], p, c)]
        /\ v12' = [w \in Windows |->
                     [v12[w] EXCEPT !.during = Verification!Seen(@, p, c)]]
        /\ v14' = IF v2.source[p] = c THEN v14 \cup {p} ELSE v14
        /\ UNCHANGED <<v2, v3, v4, v5, v6, v8, v9, v10, v13>>
    BY <1>1 DEF Verification!Edit
  <2>2. v11' = IF v2.run # 0 /\ v10[v2.run] = "live" THEN Verification!Seen(v11, p, c)
               ELSE v11
    BY <1>1 DEF Verification!Edit
  <2>3. /\ v1' \in Verification!Sources /\ v1'[p] = c
        /\ \A q \in Parts \ {p} : v1'[q] = v1[q]
    <3> HIDE DEF Verification!IInv
    <3>1. v1 \in Verification!Sources
      BY DEF Verification!IInv
    <3>2. /\ [v1 EXCEPT ![p] = c] \in Verification!Sources
          /\ [v1 EXCEPT ![p] = c][p] = c
          /\ \A q \in Parts \ {p} : [v1 EXCEPT ![p] = c][q] = v1[q]
      BY <3>1, SourceIsEdited
    <3> QED
      BY <2>1, <3>2
  <2>4. /\ v11' \in Verification!Histories
        /\ \A q \in Parts \ {p} : v11'[q] = v11[q]
        /\ v11[p] # {} => v11'[p] # {}
        /\ v11'[p] \subseteq v11[p] \cup {c}
    <3>1. CASE v11' = v11
      BY <3>1
    <3>2. CASE v11' = Verification!Seen(v11, p, c)
      <4> HIDE DEF Verification!IInv
      <4>1. v11 \in Verification!Histories
        BY DEF Verification!IInv
      <4>2. /\ Verification!Seen(v11, p, c) \in Verification!Histories
            /\ \A q \in Parts \ {p} : Verification!Seen(v11, p, c)[q] = v11[q]
            /\ v11[p] # {} => Verification!Seen(v11, p, c)[p] # {}
            /\ Verification!Seen(v11, p, c)[p] \subseteq v11[p] \cup {c}
        BY <4>1, HistoryGrows
      <4> QED
        BY <3>2, <4>2
    <3> QED
      BY <2>2, <3>1, <3>2
  <2>5. ASSUME NEW w \in Windows
        PROVE  /\ v7'[w] \in Verification!Histories
               /\ v12'[w] \in [during : Verification!Histories,
                                answer : Verification!Sources \cup {Verification!Unread}]
               /\ v12'[w].answer = v12[w].answer
               /\ \A q \in Parts \ {p} : v12'[w].during[q] = v12[w].during[q]
               /\ v12'[w].during[p] \subseteq v12[w].during[p] \cup {c}
    <3>1. v7'[w] = Verification!Seen(v7[w], p, c) /\ v7[w] \in Verification!Histories
      BY <2>1
    <3>2. /\ v12'[w] = [v12[w] EXCEPT !.during = Verification!Seen(v12[w].during, p, c)]
          /\ v12[w] \in [during : Verification!Histories,
                          answer : Verification!Sources \cup {Verification!Unread}]
      BY <2>1
    <3>3. /\ Verification!Seen(v7[w], p, c) \in Verification!Histories
          /\ Verification!Seen(v12[w].during, p, c) \in Verification!Histories
          /\ \A q \in Parts \ {p} :
               Verification!Seen(v12[w].during, p, c)[q] = v12[w].during[q]
          /\ Verification!Seen(v12[w].during, p, c)[p] \subseteq v12[w].during[p] \cup {c}
      BY <3>1, <3>2, HistoryGrows
    <3> QED
      BY <3>1, <3>2, <3>3
  <2>6. Verification!TypeOK'
    <3>1. Verification!ResultOK'
      BY <2>1 DEF Verification!ResultOK
    <3>2. /\ v7' \in [Windows -> Verification!Histories]
          /\ v12' \in [Windows -> [during : Verification!Histories,
                          answer : Verification!Sources \cup {Verification!Unread}]]
      <4> HIDE DEF Verification!IInv
      <4>1. /\ v7' = [w \in Windows |-> v7'[w]]
            /\ v12' = [w \in Windows |-> v12'[w]]
        BY <2>1
      <4> QED
        BY <4>1, <2>5
    <3>3. v15' \in 0 .. MaxEdit /\ v14' \in SUBSET Parts
      BY <2>1
    <3> QED
      BY <2>1, <2>3, <2>4, <3>1, <3>2, <3>3 DEF Verification!TypeOK
  <2>7. Verification!WorkersAreHeld'
    <3>1. Verification!HasRun => Verification!HasRun'
      BY <2>4 DEF Verification!HasRun
    <3>2. ASSUME NEW w \in Windows PROVE Verification!HeldBy(w)'
      <4>1. v5[w] \in {"reading", "bound"} => v11' = v11
        BY <2>2 DEF Verification!WorkersAreHeld, Verification!HeldBy
      <4> QED
        BY <2>1, <3>1, <4>1 DEF Verification!WorkersAreHeld, Verification!HeldBy
    <3> QED
      BY <3>2 DEF Verification!WorkersAreHeld
  <2>8. Verification!RunsAreOfTheirTime'
    <3>1. Verification!HasRun => Verification!HasRun'
      BY <2>4 DEF Verification!HasRun
    <3>2. ASSUME v2.run # 0, NEW q \in Parts \ v14', v2.source[q] = v1'[q]
          PROVE  v11'[q] \subseteq {v1'[q]}
      <4>1. q # p
        BY <2>1, <2>3, <3>2
      <4> QED
        BY <2>1, <2>3, <2>4, <3>2, <4>1 DEF Verification!RunsAreOfTheirTime
    <3> QED
      BY <2>1, <3>1, <3>2 DEF Verification!RunsAreOfTheirTime
  <2>9. Verification!ProbesAreOfTheirTime'
    <3> SUFFICES ASSUME NEW w \in Windows, v2.state = "Passed", v13[w] = v2.run,
                        NEW q \in Parts \ v14',
                        v2.source[q] \in v12'[w].during[q] \cup {v12'[w].answer[q]}
                 PROVE  v11'[q] \subseteq {v2.source[q]}
      BY <2>1 DEF Verification!ProbesAreOfTheirTime
    <3>1. v11' = v11
      BY <2>2 DEF Verification!RunsAreOfTheirTime
    <3>2. q \in Parts \ v14 /\ (q = p => v2.source[q] # c)
      BY <2>1
    <3>3. v2.source[q] \in v12[w].during[q] \cup {v12[w].answer[q]}
      BY <2>5, <3>2
    <3> QED
      BY <3>1, <3>2, <3>3 DEF Verification!ProbesAreOfTheirTime
  <2> QED
    BY <2>6, <2>7, <2>8, <2>9
<1>2. ASSUME NEW r \in Verification!Runs, Verification!OrphanEnds(r) PROVE Verification!IInv'
  <2>1. Verification!TypeOK'
    <3>1. Verification!ResultOK'
      BY <1>2 DEF Verification!OrphanEnds, Verification!ResultOK
    <3> QED
      BY <1>2, <3>1 DEF Verification!OrphanEnds, Verification!TypeOK
  <2>2. Verification!WorkersAreHeld'
    BY <1>2 DEF Verification!OrphanEnds, Verification!WorkersAreHeld, Verification!HeldBy,
       Verification!ResultOK
  <2>3. Verification!RunsAreOfTheirTime'
    BY <1>2 DEF Verification!OrphanEnds, Verification!RunsAreOfTheirTime,
       Verification!WorkersAreHeld, Verification!HeldBy,
       Verification!ResultOK
  <2>4. Verification!ProbesAreOfTheirTime'
    BY <1>2 DEF Verification!OrphanEnds, Verification!ProbesAreOfTheirTime,
       Verification!RunsAreOfTheirTime, Verification!WorkersAreHeld,
       Verification!HeldBy, Verification!ResultOK
  <2> QED
    BY <2>1, <2>2, <2>3, <2>4
<1>3. ASSUME NEW w \in Windows, Verification!Start(w) PROVE Verification!IInv'
  <2>1. Verification!TypeOK'
    <3>1. Verification!ResultOK'
      BY <1>3 DEF Verification!Start, Verification!LockFree, Verification!ResultOK
    <3> QED
      BY <1>3, <3>1, PartsAreKept
      DEF Verification!Start, Verification!LockFree, Verification!TypeOK
  <2>2. Verification!WorkersAreHeld'
    <3>1. Verification!HeldBy(w)'
      BY <1>3 DEF Verification!Start, Verification!LockFree, Verification!WorkersAreHeld,
         Verification!HeldBy, Verification!ResultOK,
         Verification!RunsAreOfTheirTime
    <3>2. ASSUME NEW x \in Windows, x # w PROVE Verification!HeldBy(x)'
      BY <1>3, <3>2
      DEF Verification!Start, Verification!LockFree, Verification!WorkersAreHeld,
         Verification!HeldBy, Verification!ResultOK,
         Verification!RunsAreOfTheirTime
    <3> QED
      BY <3>1, <3>2 DEF Verification!WorkersAreHeld
  <2>3. Verification!RunsAreOfTheirTime'
    BY <1>3, NothingIsKept DEF Verification!Start, Verification!LockFree,
       Verification!RunsAreOfTheirTime, Verification!WorkersAreHeld,
       Verification!HeldBy, Verification!ResultOK
  <2>4. Verification!ProbesAreOfTheirTime'
    BY <1>3, NothingIsKept, NoPartIsUnread DEF Verification!Start, Verification!LockFree,
       Verification!ProbesAreOfTheirTime, Verification!RunsAreOfTheirTime,
       Verification!WorkersAreHeld, Verification!HeldBy,
       Verification!ResultOK
  <2> QED
    BY <2>1, <2>2, <2>3, <2>4
<1>4. ASSUME NEW w \in Windows, Verification!Fingerprint(w) PROVE Verification!IInv'
  <2>1. v5[w] = "reading" /\ v7' = [v7 EXCEPT ![w] = Verification!NoHistory]
    BY <1>4 DEF Verification!Fingerprint
  <2>2. UNCHANGED <<v1, v3, v4, v6, v9, v10, v11, v12, v13, v15>>
    BY <1>4 DEF Verification!Fingerprint
  <2>3. Verification!Fingerprints(v7[w]) \subseteq Verification!Sources
    BY <1>4, FingerprintIsOfSources DEF Verification!Fingerprint
  <2>4. ASSUME NEW f \in Verification!Sources,
             /\ Verification!IsCurrent(v6[w]) /\ v2' = [v2 EXCEPT !.source = f]
             /\ v5' = [v5 EXCEPT ![w] = "bound"] /\ v14' = {} /\ UNCHANGED v8
      PROVE  Verification!IInv'
    <3>1. Verification!TypeOK'
      <4>1. Verification!ResultOK'
        <5>1. f \in Verification!Sources
          BY <2>1, <2>2, <2>3, <2>4 DEF Verification!ResultOK
        <5>2. v2' = [v2 EXCEPT !.source = f] /\ UNCHANGED v4
          BY <2>1, <2>2, <2>3, <2>4 DEF Verification!ResultOK
        <5>3. v2 \in [run : 0 .. v4, state : Verification!States,
             source : Verification!Sources \cup {Verification!Unread}]
          BY <2>1, <2>2, <2>3, <2>4 DEF Verification!ResultOK
        <5> QED
          BY <5>1, <5>2, <5>3 DEF Verification!ResultOK
      <4> QED
        BY <2>1, <2>2, <2>3, <2>4, <4>1 DEF Verification!TypeOK
    <3>2. Verification!WorkersAreHeld'
      <4>1. Verification!HeldBy(w)'
        BY SMTT(30), <2>1, <2>2, <2>3, <2>4
        DEF Verification!WorkersAreHeld, Verification!HeldBy, Verification!ResultOK
      <4>2. ASSUME NEW x \in Windows, x # w PROVE Verification!HeldBy(x)'
        <5>1. v5[x] = "idle" /\ v6[x] = 0
          BY <2>1, <2>2, <2>3, <2>4, <4>2
          DEF Verification!WorkersAreHeld, Verification!HeldBy, Verification!ResultOK
        <5> QED
          BY <2>1, <2>2, <2>3, <2>4, <4>2, <5>1
          DEF Verification!WorkersAreHeld, Verification!HeldBy, Verification!ResultOK
      <4> QED
        BY <4>1, <4>2 DEF Verification!WorkersAreHeld
    <3>3. Verification!RunsAreOfTheirTime'
      BY SMTT(30), NothingIsKept, <2>1, <2>2, <2>3, <2>4
      DEF Verification!RunsAreOfTheirTime, Verification!WorkersAreHeld,
         Verification!HeldBy, Verification!ResultOK
    <3>4. Verification!ProbesAreOfTheirTime'
      BY <2>1, <2>2, <2>3, <2>4
      DEF Verification!ProbesAreOfTheirTime, Verification!RunsAreOfTheirTime,
         Verification!WorkersAreHeld, Verification!HeldBy,
         Verification!ResultOK
    <3> QED
      BY <3>1, <3>2, <3>3, <3>4
  <2>5. ASSUME NEW o \in {"Cancelled", "Error"},
             /\ v5' = [v5 EXCEPT ![w] = "ended"] /\ UNCHANGED <<v2, v14>>
             /\ v8' = [v8 EXCEPT ![w] = o]
      PROVE  Verification!IInv'
    <3>1. Verification!TypeOK'
      <4>1. Verification!ResultOK'
        BY <2>1, <2>2, <2>3, <2>5 DEF Verification!ResultOK
      <4> QED
        BY <2>1, <2>2, <2>3, <2>5, <4>1 DEF Verification!TypeOK
    <3>2. Verification!WorkersAreHeld'
      BY <2>1, <2>2, <2>3, <2>5
      DEF Verification!WorkersAreHeld, Verification!HeldBy, Verification!ResultOK
    <3>3. Verification!RunsAreOfTheirTime'
      BY <2>1, <2>2, <2>3, <2>5
      DEF Verification!RunsAreOfTheirTime, Verification!WorkersAreHeld,
         Verification!HeldBy, Verification!ResultOK
    <3>4. Verification!ProbesAreOfTheirTime'
      BY <2>1, <2>2, <2>3, <2>5
      DEF Verification!ProbesAreOfTheirTime, Verification!RunsAreOfTheirTime,
         Verification!WorkersAreHeld, Verification!HeldBy,
         Verification!ResultOK
    <3> QED
      BY <3>1, <3>2, <3>3, <3>4
  <2>6. CASE v5' = [v5 EXCEPT ![w] = "sent"] /\ UNCHANGED <<v2, v8, v14>>
    <3>1. Verification!TypeOK'
      <4>1. Verification!ResultOK'
        BY <2>1, <2>2, <2>3, <2>6 DEF Verification!ResultOK
      <4> QED
        BY <2>1, <2>2, <2>3, <2>6, <4>1 DEF Verification!TypeOK
    <3>2. Verification!WorkersAreHeld'
      BY <2>1, <2>2, <2>3, <2>6
      DEF Verification!WorkersAreHeld, Verification!HeldBy, Verification!ResultOK
    <3>3. Verification!RunsAreOfTheirTime'
      BY <2>1, <2>2, <2>3, <2>6
      DEF Verification!RunsAreOfTheirTime, Verification!WorkersAreHeld,
         Verification!HeldBy, Verification!ResultOK
    <3>4. Verification!ProbesAreOfTheirTime'
      BY <2>1, <2>2, <2>3, <2>6
      DEF Verification!ProbesAreOfTheirTime, Verification!RunsAreOfTheirTime,
         Verification!WorkersAreHeld, Verification!HeldBy,
         Verification!ResultOK
    <3> QED
      BY <3>1, <3>2, <3>3, <3>4
  <2> QED
    BY <1>4, <2>3, <2>4, <2>5, <2>6 DEF Verification!Fingerprint
<1>5. ASSUME NEW w \in Windows, Verification!Spawn(w) PROVE Verification!IInv'
  <2>1. v5[w] = "bound" /\ UNCHANGED <<v1, v2, v3, v4, v6, v7, v9, v12, v13, v14, v15>>
    BY <1>5 DEF Verification!Spawn
  <2>2. v6[w] \in Verification!Runs
    BY <1>5 DEF Verification!Spawn, Verification!WorkersAreHeld, Verification!HeldBy
  <2>3. ASSUME NEW o \in {"Cancelled", "Error"},
             /\ v8' = [v8 EXCEPT ![w] = o] /\ v5' = [v5 EXCEPT ![w] = "ended"]
             /\ UNCHANGED <<v10, v11>>
      PROVE  Verification!IInv'
    <3>1. Verification!TypeOK'
      <4>1. Verification!ResultOK'
        BY <2>1, <2>2, <2>3 DEF Verification!ResultOK
      <4> QED
        BY <2>1, <2>2, <2>3, <4>1 DEF Verification!TypeOK
    <3>2. Verification!WorkersAreHeld'
      BY <2>1, <2>2, <2>3
      DEF Verification!WorkersAreHeld, Verification!HeldBy, Verification!ResultOK
    <3>3. Verification!RunsAreOfTheirTime'
      BY <2>1, <2>2, <2>3 DEF Verification!RunsAreOfTheirTime, Verification!WorkersAreHeld,
         Verification!HeldBy, Verification!ResultOK
    <3>4. Verification!ProbesAreOfTheirTime'
      BY <2>1, <2>2, <2>3
      DEF Verification!ProbesAreOfTheirTime, Verification!RunsAreOfTheirTime,
         Verification!WorkersAreHeld, Verification!HeldBy,
         Verification!ResultOK
    <3> QED
      BY <3>1, <3>2, <3>3, <3>4
  <2>4. CASE /\ v10' = [v10 EXCEPT ![v6[w]] = "live"]
            /\ v11' = Verification!Begun
            /\ v5' = [v5 EXCEPT ![w] = "running"] /\ UNCHANGED v8
    <3>1. Verification!TypeOK'
      <4>1. Verification!ResultOK'
        BY <2>1, <2>2, <2>4 DEF Verification!ResultOK
      <4> QED
        BY <2>1, <2>2, <2>4, <4>1, PartsAreKept DEF Verification!TypeOK
    <3>2. Verification!WorkersAreHeld'
      <4>1. Verification!HeldBy(w)'
        <5>1. Verification!HasRun'
          BY <2>4, PartsAreKept DEF Verification!HasRun
        <5> QED
          BY <2>1, <2>2, <2>4, <5>1
          DEF Verification!WorkersAreHeld, Verification!HeldBy, Verification!ResultOK
      <4>2. ASSUME NEW x \in Windows, x # w PROVE Verification!HeldBy(x)'
        <5>1. v5[x] = "idle" /\ v6[x] = 0
          BY <2>1, <2>2, <2>4, <4>2
          DEF Verification!WorkersAreHeld, Verification!HeldBy, Verification!ResultOK
        <5> QED
          BY <2>1, <2>2, <2>4, <4>2, <5>1
          DEF Verification!WorkersAreHeld, Verification!HeldBy, Verification!ResultOK
      <4> QED
        BY <4>1, <4>2 DEF Verification!WorkersAreHeld
    <3>3. Verification!RunsAreOfTheirTime'
      BY <2>1, <2>2, <2>4, PartsAreKept
      DEF Verification!RunsAreOfTheirTime, Verification!WorkersAreHeld,
         Verification!HeldBy, Verification!ResultOK
    <3>4. Verification!ProbesAreOfTheirTime'
      BY <2>1, <2>2, <2>4
      DEF Verification!ProbesAreOfTheirTime, Verification!RunsAreOfTheirTime,
         Verification!WorkersAreHeld, Verification!HeldBy,
         Verification!ResultOK
    <3> QED
      BY <3>1, <3>2, <3>3, <3>4
  <2> QED
    BY <1>5, <2>3, <2>4 DEF Verification!Spawn
<1>6. ASSUME NEW w \in Windows, Verification!CommandEnds(w) PROVE Verification!IInv'
  <2>1. /\ v5[w] = "running" /\ v5' = [v5 EXCEPT ![w] = "collecting"]
        /\ UNCHANGED <<v1, v2, v3, v4, v6, v7, v9, v11, v12, v13, v14, v15>>
    BY <1>6 DEF Verification!CommandEnds, Verification!Stopped
  <2>2. ASSUME NEW o \in Verification!Over,
             /\ v8' = [v8 EXCEPT ![w] = o]
             /\ v10' = [v10 EXCEPT ![v6[w]] = "ended"]
      PROVE  Verification!IInv'
    <3>1. Verification!TypeOK'
      <4>1. Verification!ResultOK'
        BY <2>1, <2>2 DEF Verification!ResultOK
      <4> QED
        BY <2>1, <2>2, <4>1 DEF Verification!TypeOK
    <3>2. Verification!WorkersAreHeld'
      <4>1. Verification!HeldBy(w)'
        BY <2>1, <2>2
        DEF Verification!WorkersAreHeld, Verification!HeldBy, Verification!ResultOK
      <4>2. ASSUME NEW x \in Windows, x # w PROVE Verification!HeldBy(x)'
        <5>1. v5[x] = "idle" /\ v6[x] = 0
          BY <2>1, <2>2, <4>2
          DEF Verification!WorkersAreHeld, Verification!HeldBy, Verification!ResultOK
        <5> QED
          BY <2>1, <2>2, <4>2, <5>1
          DEF Verification!WorkersAreHeld, Verification!HeldBy, Verification!ResultOK
      <4> QED
        BY <4>1, <4>2 DEF Verification!WorkersAreHeld
    <3>3. Verification!RunsAreOfTheirTime'
      BY <2>1, <2>2 DEF Verification!RunsAreOfTheirTime, Verification!WorkersAreHeld,
         Verification!HeldBy, Verification!ResultOK
    <3>4. Verification!ProbesAreOfTheirTime'
      BY <2>1, <2>2 DEF Verification!ProbesAreOfTheirTime, Verification!RunsAreOfTheirTime,
         Verification!WorkersAreHeld, Verification!HeldBy,
         Verification!ResultOK
    <3> QED
      BY <3>1, <3>2, <3>3, <3>4
  <2>3. CASE v8' = [v8 EXCEPT ![w] = "Error"] /\ UNCHANGED v10
    <3>1. Verification!TypeOK'
      <4>1. Verification!ResultOK'
        BY <2>1, <2>3 DEF Verification!ResultOK
      <4> QED
        BY <2>1, <2>3, <4>1 DEF Verification!TypeOK
    <3>2. Verification!WorkersAreHeld'
      BY <2>1, <2>3
      DEF Verification!WorkersAreHeld, Verification!HeldBy, Verification!ResultOK
    <3>3. Verification!RunsAreOfTheirTime'
      BY <2>1, <2>3 DEF Verification!RunsAreOfTheirTime, Verification!WorkersAreHeld,
         Verification!HeldBy, Verification!ResultOK
    <3>4. Verification!ProbesAreOfTheirTime'
      BY <2>1, <2>3 DEF Verification!ProbesAreOfTheirTime, Verification!RunsAreOfTheirTime,
         Verification!WorkersAreHeld, Verification!HeldBy,
         Verification!ResultOK
    <3> QED
      BY <3>1, <3>2, <3>3, <3>4
  <2> QED
    BY <1>6, <2>2, <2>3 DEF Verification!CommandEnds, Verification!Stopped
<1>7. ASSUME NEW w \in Windows, Verification!Collect(w) PROVE Verification!IInv'
  <2>1. Verification!TypeOK'
    <3>1. Verification!ResultOK'
      BY <1>7 DEF Verification!Collect, Verification!Stopped, Verification!ResultOK
    <3> QED
      BY <1>7, <3>1 DEF Verification!Collect, Verification!Stopped, Verification!TypeOK
  <2>2. Verification!WorkersAreHeld'
    BY <1>7 DEF Verification!Collect, Verification!Stopped, Verification!WorkersAreHeld,
       Verification!HeldBy, Verification!ResultOK
  <2>3. Verification!RunsAreOfTheirTime'
    BY <1>7 DEF Verification!Collect, Verification!Stopped,
       Verification!RunsAreOfTheirTime, Verification!WorkersAreHeld,
       Verification!HeldBy, Verification!ResultOK
  <2>4. Verification!ProbesAreOfTheirTime'
    BY <1>7 DEF Verification!Collect, Verification!Stopped,
       Verification!ProbesAreOfTheirTime, Verification!RunsAreOfTheirTime,
       Verification!WorkersAreHeld, Verification!HeldBy,
       Verification!ResultOK
  <2> QED
    BY <2>1, <2>2, <2>3, <2>4
<1>8. ASSUME NEW w \in Windows, Verification!RecordResult(w) PROVE Verification!IInv'
  <2>1. /\ v5[w] = "ended" /\ v5' = [v5 EXCEPT ![w] = "sent"]
        /\ v8' = [v8 EXCEPT ![w] = "none"] /\ v9' = [v9 EXCEPT ![w] = FALSE]
        /\ UNCHANGED <<v1, v3, v4, v6, v7, v10, v11, v12, v13, v14, v15>>
    BY <1>8 DEF Verification!RecordResult
  <2>2. CASE Verification!IsCurrent(v6[w]) /\ v2' = [v2 EXCEPT !.state = v8[w]]
    <3>1. Verification!TypeOK'
      <4>1. Verification!ResultOK'
        BY <2>1, <2>2 DEF Verification!ResultOK
      <4> QED
        BY <2>1, <2>2, <4>1 DEF Verification!TypeOK
    <3>2. Verification!WorkersAreHeld'
      BY SMTT(30), <2>1, <2>2
      DEF Verification!WorkersAreHeld, Verification!HeldBy, Verification!ResultOK
    <3>3. Verification!RunsAreOfTheirTime'
      BY <2>1, <2>2 DEF Verification!RunsAreOfTheirTime, Verification!WorkersAreHeld,
         Verification!HeldBy, Verification!ResultOK
    <3>4. Verification!ProbesAreOfTheirTime'
      BY SMTT(30), <2>1, <2>2
      DEF Verification!ProbesAreOfTheirTime, Verification!RunsAreOfTheirTime,
         Verification!WorkersAreHeld, Verification!HeldBy,
         Verification!ResultOK
    <3> QED
      BY <3>1, <3>2, <3>3, <3>4
  <2>3. CASE UNCHANGED v2
    <3>1. Verification!TypeOK'
      <4>1. Verification!ResultOK'
        BY <2>1, <2>3 DEF Verification!ResultOK
      <4> QED
        BY <2>1, <2>3, <4>1 DEF Verification!TypeOK
    <3>2. Verification!WorkersAreHeld'
      BY <2>1, <2>3
      DEF Verification!WorkersAreHeld, Verification!HeldBy, Verification!ResultOK
    <3>3. Verification!RunsAreOfTheirTime'
      BY <2>1, <2>3 DEF Verification!RunsAreOfTheirTime, Verification!WorkersAreHeld,
         Verification!HeldBy, Verification!ResultOK
    <3>4. Verification!ProbesAreOfTheirTime'
      BY <2>1, <2>3 DEF Verification!ProbesAreOfTheirTime, Verification!RunsAreOfTheirTime,
         Verification!WorkersAreHeld, Verification!HeldBy,
         Verification!ResultOK
    <3> QED
      BY <3>1, <3>2, <3>3, <3>4
  <2> QED
    BY <1>8, <2>2, <2>3 DEF Verification!RecordResult
<1>9. ASSUME NEW w \in Windows, Verification!ProcessResult(w) PROVE Verification!IInv'
  <2>1. Verification!TypeOK'
    <3>1. Verification!ResultOK'
      BY <1>9 DEF Verification!ProcessResult, Verification!Idle, Verification!ResultOK
    <3> QED
      BY <1>9, <3>1 DEF Verification!ProcessResult, Verification!Idle, Verification!TypeOK
  <2>2. Verification!WorkersAreHeld'
    BY <1>9 DEF Verification!ProcessResult, Verification!Idle,
       Verification!WorkersAreHeld, Verification!HeldBy,
       Verification!ResultOK
  <2>3. Verification!RunsAreOfTheirTime'
    BY <1>9 DEF Verification!ProcessResult, Verification!Idle,
       Verification!RunsAreOfTheirTime, Verification!WorkersAreHeld,
       Verification!HeldBy, Verification!ResultOK
  <2>4. Verification!ProbesAreOfTheirTime'
    BY <1>9, NothingIsKept, NoPartIsUnread DEF Verification!ProcessResult, Verification!Idle,
       Verification!ProbesAreOfTheirTime, Verification!RunsAreOfTheirTime,
       Verification!WorkersAreHeld, Verification!HeldBy,
       Verification!ResultOK
  <2> QED
    BY <2>1, <2>2, <2>3, <2>4
<1>10. ASSUME NEW w \in Windows, Verification!Cancel(w) PROVE Verification!IInv'
  <2>1. Verification!TypeOK'
    <3>1. Verification!ResultOK'
      BY <1>10 DEF Verification!Cancel, Verification!ResultOK
    <3> QED
      BY <1>10, <3>1 DEF Verification!Cancel, Verification!TypeOK
  <2>2. Verification!WorkersAreHeld'
    BY <1>10 DEF Verification!Cancel, Verification!WorkersAreHeld, Verification!HeldBy,
       Verification!ResultOK
  <2>3. Verification!RunsAreOfTheirTime'
    BY <1>10 DEF Verification!Cancel, Verification!RunsAreOfTheirTime,
       Verification!WorkersAreHeld, Verification!HeldBy,
       Verification!ResultOK
  <2>4. Verification!ProbesAreOfTheirTime'
    BY <1>10 DEF Verification!Cancel, Verification!ProbesAreOfTheirTime,
       Verification!RunsAreOfTheirTime, Verification!WorkersAreHeld,
       Verification!HeldBy, Verification!ResultOK
  <2> QED
    BY <2>1, <2>2, <2>3, <2>4
<1>11. ASSUME NEW w \in Windows, Verification!StartProbe(w) PROVE Verification!IInv'
  <2>1. Verification!TypeOK'
    <3>1. Verification!ResultOK'
      BY <1>11 DEF Verification!StartProbe, Verification!ResultOK
    <3> QED
      BY <1>11, <3>1, PartsAreKept DEF Verification!StartProbe, Verification!TypeOK
  <2>2. Verification!WorkersAreHeld'
    BY <1>11 DEF Verification!StartProbe, Verification!WorkersAreHeld, Verification!HeldBy,
       Verification!ResultOK
  <2>3. Verification!RunsAreOfTheirTime'
    BY <1>11 DEF Verification!StartProbe, Verification!RunsAreOfTheirTime,
       Verification!WorkersAreHeld, Verification!HeldBy,
       Verification!ResultOK
  <2>4. Verification!ProbesAreOfTheirTime'
    <3> SUFFICES ASSUME NEW x \in Windows, v2.state = "Passed", v13[x] = v2.run,
                        NEW q \in Parts \ v14,
                        v2.source[q] \in v12'[x].during[q] \cup {v12'[x].answer[q]}
                 PROVE  v11[q] \subseteq {v2.source[q]}
      BY <1>11 DEF Verification!StartProbe, Verification!ProbesAreOfTheirTime
    <3>1. CASE x = w
      <4>1. v12'[x].during = Verification!Begun /\ v12'[x].answer = Verification!Unread
        BY <1>11, <3>1 DEF Verification!StartProbe
      <4>2. v2.source \in Verification!Sources /\ v2.run # 0
        BY DEF Verification!RunsAreOfTheirTime, Verification!ResultOK
      <4>3. v2.source[q] = v1[q]
        BY <4>1, <4>2, PartsAreKept, NoPartIsUnread
      <4> QED
        BY <4>2, <4>3 DEF Verification!RunsAreOfTheirTime
    <3>2. CASE x # w
      BY <1>11, <3>2 DEF Verification!StartProbe, Verification!ProbesAreOfTheirTime
    <3> QED
      BY <3>1, <3>2
  <2> QED
    BY <2>1, <2>2, <2>3, <2>4
<1>12. ASSUME NEW w \in Windows, Verification!AnswerProbe(w) PROVE Verification!IInv'
  <2>1. Verification!TypeOK'
    <3>1. Verification!ResultOK'
      BY FingerprintIsOfSources, <1>12
      DEF Verification!AnswerProbe, Verification!ResultOK
    <3> QED
      BY FingerprintIsOfSources, <1>12, <3>1
      DEF Verification!AnswerProbe, Verification!TypeOK
  <2>2. Verification!WorkersAreHeld'
    BY FingerprintIsOfSources, <1>12 DEF Verification!AnswerProbe,
       Verification!WorkersAreHeld, Verification!HeldBy,
       Verification!ResultOK
  <2>3. Verification!RunsAreOfTheirTime'
    BY FingerprintIsOfSources, <1>12 DEF Verification!AnswerProbe,
       Verification!RunsAreOfTheirTime, Verification!WorkersAreHeld,
       Verification!HeldBy, Verification!ResultOK
  <2>4. Verification!ProbesAreOfTheirTime'
    BY SMTT(30), NothingIsKept, FingerprintIsOfSources, <1>12 DEF Verification!AnswerProbe,
       Verification!ProbesAreOfTheirTime, Verification!RunsAreOfTheirTime,
       Verification!WorkersAreHeld, Verification!HeldBy,
       Verification!ResultOK
  <2> QED
    BY <2>1, <2>2, <2>3, <2>4
<1>13. ASSUME NEW w \in Windows, Verification!Dies(w) PROVE Verification!IInv'
  <2>1. Verification!TypeOK'
    <3>1. Verification!ResultOK'
      BY <1>13 DEF Verification!Dies, Verification!Idle, Verification!ResultOK
    <3> QED
      BY <1>13, <3>1 DEF Verification!Dies, Verification!Idle, Verification!TypeOK
  <2>2. Verification!WorkersAreHeld'
    BY <1>13 DEF Verification!Dies, Verification!Idle, Verification!WorkersAreHeld,
       Verification!HeldBy, Verification!ResultOK
  <2>3. Verification!RunsAreOfTheirTime'
    BY <1>13 DEF Verification!Dies, Verification!Idle, Verification!RunsAreOfTheirTime,
       Verification!WorkersAreHeld, Verification!HeldBy,
       Verification!ResultOK
  <2>4. Verification!ProbesAreOfTheirTime'
    BY <1>13, NothingIsKept, NoPartIsUnread
    DEF Verification!Dies, Verification!Idle, Verification!ProbesAreOfTheirTime,
       Verification!RunsAreOfTheirTime, Verification!WorkersAreHeld,
       Verification!HeldBy, Verification!ResultOK
  <2> QED
    BY <2>1, <2>2, <2>3, <2>4
<1> QED
BY <1>1, <1>2, <1>3, <1>4, <1>5, <1>6, <1>7, <1>8, <1>9, <1>10, <1>11, <1>12, <1>13 DEF
     Verification!Next
\* A part that was not put back since the run was bound is all that the run has seen.
LEMMA VerificationIsRight ==
    Verification!IInv => Verification!PassedMeansRun /\ Verification!RunsAreRecorded
<1> SUFFICES ASSUME Verification!IInv
             PROVE  Verification!PassedMeansRun /\ Verification!RunsAreRecorded
  OBVIOUS
<1> USE DEF Verification!IInv, Verification!TypeOK
<1>1. ASSUME NEW w \in Windows, v13[w] # 0, v2.run = v13[w], Verification!ShownPassed(w),
             NEW p \in Parts \ v14
      PROVE  v11[p] = {v12[w].answer[p]}
  <2>1. /\ v2.state = "Passed" /\ v2.source = v12[w].answer
        /\ v2.source[p] \in v12[w].during[p] \cup {v12[w].answer[p]}
    BY <1>1 DEF Verification!ShownPassed
  <2>2. v11[p] \subseteq {v2.source[p]}
    BY <1>1, <2>1 DEF Verification!ProbesAreOfTheirTime
  <2>3. v11[p] # {}
    BY <2>1 DEF Verification!RunsAreOfTheirTime, Verification!HasRun
  <2> QED
    BY <2>1, <2>2, <2>3
<1>2. Verification!RunsAreRecorded
  BY DEF Verification!RunsAreRecorded, Verification!WorkersAreHeld, Verification!HeldBy,
     Verification!RunsAreOfTheirTime, Verification!Over, Verification!Active,
     Verification!IsCurrent
<1> QED
  BY <1>1, <1>2 DEF Verification!PassedMeansRun

-----------------------------------------------------------------------------
(* Checkouts, merges and pulls. *)

LEMMA BranchConstants ==
    Branch!Paths = {"f", "g"} /\ Branch!Originals = 1 .. 3 /\ Branch!Branches = 1 .. 3
BY DEF Branch!Paths, Branch!Originals, Branch!Branches, Trees, Tips

LEMMA OriginalsAreWhole ==
    \A o \in Branch!Originals :
        /\ Trees[o] \in [Branch!Paths -> {1, 2}]
        /\ o \in Below[o] /\ Below[o] \subseteq Branch!Originals
BY BranchConstants DEF Trees, Below

LEMMA SameCardinality == \A s : Branch!Cardinality(s) = Cardinality(s)
BY DEF Branch!Cardinality, Cardinality, Branch!IsFiniteSet, IsFiniteSet

\* A tree has a file at every path, and none of them is a local change.
LEMMA TreeIsWhole ==
    \A c \in Branch!Commits : c # {} => Branch!Tree(c) \in [Branch!Paths -> {1, 2}]
<1> SUFFICES ASSUME NEW c \in Branch!Commits, c # {}
             PROVE  Branch!Tree(c) \in [Branch!Paths -> {1, 2}]
  OBVIOUS
<1>1. CASE Branch!Cardinality(c) = 1
  <2>1. Branch!Original(c) \in Branch!Originals
    BY DEF Branch!Original, Branch!Commits
  <2> QED
    BY <1>1, <2>1, OriginalsAreWhole DEF Branch!Tree
<1>2. CASE Branch!Cardinality(c) # 1
  <2> DEFINE pair == CHOOSE q \in c \X c : q[1] < q[2]
  <2>1. \E a \in c, b \in c : a < b
    <3> PICK a \in c : TRUE
      BY DEF Branch!Commits
    <3>1. c # {a}
      BY <1>2, SameCardinality, FS_Singleton
    <3>2. PICK b \in c : b # a
      BY <3>1
    <3> QED
      BY <3>2, BranchConstants DEF Branch!Commits
  <2>2. pair \in c \X c
    <3> PICK a \in c, b \in c : a < b
      BY <2>1
    <3>1. <<a, b>> \in c \X c /\ <<a, b>>[1] < <<a, b>>[2]
      OBVIOUS
    <3> QED
      BY <3>1
  <2>3. pair[1] \in Branch!Originals /\ pair[2] \in Branch!Originals
    BY <2>2 DEF Branch!Commits
  <2>4. 1 \in Branch!Originals
    BY BranchConstants
  <2> HIDE DEF pair
  <2>5. Branch!Merged(pair[1], pair[2]) \in [Branch!Paths -> {1, 2}]
    BY <2>3, <2>4, OriginalsAreWhole DEF Branch!Merged
  <2> QED
    BY <1>2, <2>5 DEF Branch!Tree, pair
<1> QED
  BY <1>1, <1>2

LEMMA TreeIsOfFiles ==
    \A c \in Branch!Commits :
        c # {} => /\ Branch!Tree(c) \in Branch!Files
                  /\ \A p \in Branch!Paths : Branch!Tree(c)[p] # Branch!Edit
BY TreeIsWhole DEF Branch!Files, Branch!Edit

LEMMA TipsAreCommits ==
    /\ Tips \in [Branch!Branches -> Branch!Commits] /\ Tips[1] # {}
    /\ 1 \in Branch!Branches /\ {} \in Branch!Commits
BY BranchConstants DEF Tips, Branch!Commits

LEMMA ParentsAreCommits == \A c \in Branch!Commits : Branch!Parents(c) \subseteq Branch!Commits
BY OriginalsAreWhole DEF Branch!Parents, Branch!Contains, Branch!Commits

LEMMA OpIsKept ==
    \A o \in Branch!Operations :
        /\ [o EXCEPT !.torn = TRUE] \in Branch!Operations
        /\ [o EXCEPT !.torn = TRUE].kind = o.kind
        /\ \A c \in Branch!Commits : [o EXCEPT !.new = c] \in Branch!Operations
        /\ \A r \in SUBSET Branch!Paths :
             /\ [o EXCEPT !.clean = r] \in Branch!Operations
             /\ [o EXCEPT !.restore = r] \in Branch!Operations
             /\ [o EXCEPT !.restore = r, !.torn = TRUE] \in Branch!Operations
BY ZenonT(60) DEF Branch!Operations

LEMMA OpBegins ==
    /\ Branch!NoOp \in Branch!Operations
    /\ \A k \in {"checkout", "merge", "pull"}, b \in Branch!Branches, f \in Branch!Branches,
         old \in Branch!Commits, new \in Branch!Commits, i \in Branch!Files :
        [Branch!NoOp EXCEPT !.kind = k, !.branch = b, !.from = f, !.old = old, !.new = new,
                            !.index = i] \in Branch!Operations
<1>1. Branch!NoOp \in Branch!Operations
  BY TipsAreCommits, TreeIsOfFiles DEF Branch!NoOp, Branch!Operations, Branch!NoCommit
<1> QED
  BY <1>1, ZenonT(60) DEF Branch!Operations

LEMMA WithoutIsKept ==
    \A w \in [worktree : Branch!Files, index : Branch!Files, head : Branch!Branches,
              refs : [Branch!Branches -> Branch!Commits]] :
        /\ \A b \in Branch!Branches, c \in Branch!Commits :
             [w EXCEPT !.refs[b] = c] \in
                [worktree : Branch!Files, index : Branch!Files, head : Branch!Branches,
                 refs : [Branch!Branches -> Branch!Commits]]
        /\ \A b \in Branch!Branches :
             [w EXCEPT !.head = b] \in
                [worktree : Branch!Files, index : Branch!Files, head : Branch!Branches,
                 refs : [Branch!Branches -> Branch!Commits]]
OBVIOUS

LEMMA UntouchedIsWhole ==
    Branch!Untouched \in [worktree : Branch!Files, index : Branch!Files,
                          head : Branch!Branches, refs : [Branch!Branches -> Branch!Commits]]
BY TipsAreCommits, TreeIsOfFiles DEF Branch!Untouched

LEMMA ContainsItself ==
    \A c \in Branch!Commits : \A d : d \subseteq c => d \subseteq Branch!Contains(c)
BY OriginalsAreWhole DEF Branch!Contains, Branch!Commits

LEMMA BranchBegins == Branch!Init => Branch!IInv
<1> SUFFICES ASSUME Branch!Init PROVE Branch!IInv
  OBVIOUS
<1> USE BoundsAreNumbers, TipsAreCommits, TreeIsOfFiles DEF Branch!Init, Branch!NoOp,
   Branch!NoRace, Branch!Untouched,
      Branch!branchUpdate, Branch!repository, Branch!Edit,
      Branch!NoCommit, Branch!TypeOK
<1>1. Branch!TypeOK
  <2>1. Branch!StageOK
    BY DEF Branch!StageOK
  <2>2. Branch!OpOK
    BY DEF Branch!OpOK, Branch!Operations, Branch!Commits, Branch!RepositoryOK,
       Branch!StageOK
  <2>3. Branch!RepositoryOK
    BY DEF Branch!RepositoryOK, Branch!StageOK, Branch!OpOK, Branch!Operations,
       Branch!Files
  <2>4. Branch!WithoutOK
    BY DEF Branch!WithoutOK, Branch!RepositoryOK, Branch!Files
  <2>5. Branch!RacedOK
    BY DEF Branch!RacedOK, Branch!OpOK, Branch!Operations
  <2> QED
    BY <2>1, <2>2, <2>3, <2>4, <2>5 DEF Branch!TypeOK
<1>2. Branch!InputsAreRead
  BY DEF Branch!InputsAreRead, Branch!Old, Branch!New, Branch!Updated,
     Branch!Undoable, Branch!Untried, Branch!StageOK, Branch!RepositoryOK,
     Branch!WithoutOK, Branch!RacedOK, Branch!Files, Branch!OpOK,
     Branch!Operations, Branch!Commits
<1>3. Branch!FilesAreWritten
  BY DEF Branch!FilesAreWritten, Branch!InputsAreRead, Branch!Written, Branch!Old,
     Branch!New, Branch!Updated, Branch!Undoable, Branch!Untried,
     Branch!StageOK, Branch!RepositoryOK, Branch!WithoutOK,
     Branch!RacedOK, Branch!Files, Branch!OpOK, Branch!Operations,
     Branch!Commits
<1>4. Branch!IndexIsHeld
  BY DEF Branch!IndexIsHeld, Branch!InputsAreRead, Branch!Old, Branch!New,
     Branch!Updated, Branch!Undoable, Branch!Untried, Branch!StageOK,
     Branch!RepositoryOK, Branch!WithoutOK, Branch!RacedOK, Branch!Files,
     Branch!OpOK, Branch!Operations, Branch!Commits
<1>5. Branch!IndexIsMerged
  BY DEF Branch!IndexIsMerged, Branch!MergedIndex, Branch!InputsAreRead,
     Branch!Old, Branch!New, Branch!Updated, Branch!Undoable,
     Branch!Untried, Branch!StageOK, Branch!RepositoryOK,
     Branch!WithoutOK, Branch!RacedOK, Branch!Files, Branch!OpOK,
     Branch!Operations, Branch!Commits
<1>6. Branch!HeadIsSet
  BY DEF Branch!HeadIsSet, Branch!Undoable, Branch!StageOK, Branch!RepositoryOK,
     Branch!WithoutOK, Branch!RacedOK, Branch!OpOK, Branch!Operations,
     Branch!Commits
<1>7. Branch!RefsAreMoved
  BY DEF Branch!RefsAreMoved, Branch!InputsAreRead, Branch!Undoable,
     Branch!StageOK, Branch!RepositoryOK, Branch!WithoutOK,
     Branch!RacedOK, Branch!Files, Branch!OpOK, Branch!Operations,
     Branch!Commits
<1> QED
  BY <1>1, <1>2, <1>3, <1>4, <1>5, <1>6, <1>7 DEF Branch!IInv

LEMMA BranchStutters == Branch!IInv /\ UNCHANGED Branch!branchUpdate => Branch!IInv'
BY DEF Branch!branchUpdate, Branch!repository, Branch!Edit, Branch!NoCommit,
   Branch!TypeOK, Branch!StageOK, Branch!OpOK, Branch!Operations,
   Branch!Commits, Branch!RepositoryOK, Branch!Files, Branch!WithoutOK,
   Branch!RacedOK, Branch!InputsAreRead, Branch!Old, Branch!New,
   Branch!Updated, Branch!Undoable, Branch!Untried,
   Branch!FilesAreWritten, Branch!Written, Branch!IndexIsHeld,
   Branch!IndexIsMerged, Branch!MergedIndex, Branch!HeadIsSet,
   Branch!RefsAreMoved, Branch!IInv

LEMMA BranchStep == Branch!IInv /\ Branch!Next => Branch!IInv'
<1> SUFFICES ASSUME Branch!IInv, Branch!Next PROVE Branch!IInv'
  OBVIOUS
<1> USE BoundsAreNumbers, BranchConstants, TreeIsOfFiles DEF Branch!branchUpdate,
   Branch!repository, Branch!Edit, Branch!NoCommit,
      Branch!TypeOK, Branch!IInv
<1>1. CASE Branch!StartCheckout
  <2>1. Branch!TypeOK'
    <3>1. Branch!StageOK'
      BY <1>1 DEF Branch!StartCheckout, Branch!Begin, Branch!Here, Branch!NoRace,
         Branch!Ends, Branch!StageOK, Branch!NoOp
    <3>2. Branch!OpOK'
      <4>1. PICK b \in Branch!Branches :
               v7' = [Branch!NoOp EXCEPT !.kind = "checkout", !.branch = b, !.from = v3,
                        !.old = v4[v3], !.new = v4[b], !.index = v2]
        BY <1>1 DEF Branch!StartCheckout, Branch!Begin, Branch!Here, Branch!NoRace,
               Branch!Ends
      <4>2. v3 \in Branch!Branches /\ v2 \in Branch!Files
             /\ \A c \in Branch!Branches : v4[c] \in Branch!Commits
        BY DEF Branch!RepositoryOK
      <4>3. "checkout" \in {"checkout", "merge", "pull"}
        OBVIOUS
      <4> QED
        BY <4>1, <4>2, <4>3, OpBegins, Zenon DEF Branch!OpOK
    <3>3. Branch!RepositoryOK'
      BY <1>1 DEF Branch!StartCheckout, Branch!Begin, Branch!Here, Branch!NoRace,
         Branch!Ends, Branch!RepositoryOK, Branch!StageOK, Branch!OpOK,
         Branch!Operations, Branch!Files, Branch!NoOp
    <3>4. Branch!WithoutOK'
      BY <1>1 DEF Branch!StartCheckout, Branch!Begin, Branch!Here, Branch!NoRace,
         Branch!Ends, Branch!WithoutOK, Branch!RepositoryOK, Branch!Files
    <3>5. Branch!RacedOK'
      BY <1>1 DEF Branch!StartCheckout, Branch!Begin, Branch!Here, Branch!NoRace,
         Branch!Ends, Branch!RacedOK, Branch!OpOK, Branch!Operations
    <3> QED
      BY <3>1, <3>2, <3>3, <3>4, <3>5 DEF Branch!TypeOK
  <2>2. Branch!InputsAreRead'
    BY <1>1 DEF Branch!StartCheckout, Branch!Begin, Branch!Here, Branch!NoRace,
       Branch!Ends, Branch!InputsAreRead, Branch!Old, Branch!New,
       Branch!Updated, Branch!Undoable, Branch!Untried, Branch!StageOK,
       Branch!RepositoryOK, Branch!WithoutOK, Branch!RacedOK,
       Branch!Files, Branch!OpOK, Branch!Operations, Branch!Commits,
       Branch!NoOp
  <2>3. Branch!FilesAreWritten'
    BY <1>1 DEF Branch!StartCheckout, Branch!Begin, Branch!Here, Branch!NoRace,
       Branch!Ends, Branch!FilesAreWritten, Branch!InputsAreRead,
       Branch!Written, Branch!Old, Branch!New, Branch!Updated,
       Branch!Undoable, Branch!Untried, Branch!StageOK,
       Branch!RepositoryOK, Branch!WithoutOK, Branch!RacedOK,
       Branch!Files, Branch!OpOK, Branch!Operations, Branch!Commits,
       Branch!NoOp
  <2>4. Branch!IndexIsHeld'
    BY <1>1 DEF Branch!StartCheckout, Branch!Begin, Branch!Here, Branch!NoRace,
       Branch!Ends, Branch!IndexIsHeld, Branch!InputsAreRead, Branch!Old,
       Branch!New, Branch!Updated, Branch!Undoable, Branch!Untried,
       Branch!StageOK, Branch!RepositoryOK, Branch!WithoutOK,
       Branch!RacedOK, Branch!Files, Branch!OpOK, Branch!Operations,
       Branch!Commits, Branch!NoOp
  <2>5. Branch!IndexIsMerged'
    BY <1>1 DEF Branch!StartCheckout, Branch!Begin, Branch!Here, Branch!NoRace,
       Branch!Ends, Branch!IndexIsMerged, Branch!MergedIndex,
       Branch!InputsAreRead, Branch!Old, Branch!New, Branch!Updated,
       Branch!Undoable, Branch!Untried, Branch!StageOK,
       Branch!RepositoryOK, Branch!WithoutOK, Branch!RacedOK,
       Branch!Files, Branch!OpOK, Branch!Operations, Branch!Commits,
       Branch!NoOp
  <2>6. Branch!HeadIsSet'
    BY <1>1 DEF Branch!StartCheckout, Branch!Begin, Branch!Here, Branch!NoRace,
       Branch!Ends, Branch!HeadIsSet, Branch!Undoable, Branch!StageOK,
       Branch!RepositoryOK, Branch!WithoutOK, Branch!RacedOK, Branch!OpOK,
       Branch!Operations, Branch!Commits, Branch!NoOp
  <2>7. Branch!RefsAreMoved'
    BY <1>1 DEF Branch!StartCheckout, Branch!Begin, Branch!Here, Branch!NoRace,
       Branch!Ends, Branch!RefsAreMoved, Branch!InputsAreRead,
       Branch!Undoable, Branch!StageOK, Branch!RepositoryOK,
       Branch!WithoutOK, Branch!RacedOK, Branch!Files, Branch!OpOK,
       Branch!Operations, Branch!Commits, Branch!NoOp
  <2> QED
    BY <2>1, <2>2, <2>3, <2>4, <2>5, <2>6, <2>7
<1>2. CASE Branch!TakeIndexLock
  <2>1. Branch!TypeOK'
    <3>1. Branch!StageOK'
      BY <1>2 DEF Branch!TakeIndexLock, Branch!Ends, Branch!IndexIsRead, Branch!StageOK
    <3>2. Branch!OpOK'
      BY <1>2 DEF Branch!TakeIndexLock, Branch!Ends, Branch!IndexIsRead, Branch!OpOK,
         Branch!Operations, Branch!Commits, Branch!RepositoryOK,
         Branch!StageOK
    <3>3. Branch!RepositoryOK'
      BY <1>2 DEF Branch!TakeIndexLock, Branch!Ends, Branch!IndexIsRead,
         Branch!RepositoryOK, Branch!StageOK, Branch!OpOK,
         Branch!Operations, Branch!Files
    <3>4. Branch!WithoutOK'
      BY <1>2 DEF Branch!TakeIndexLock, Branch!Ends, Branch!IndexIsRead, Branch!WithoutOK,
         Branch!RepositoryOK, Branch!Files
    <3>5. Branch!RacedOK'
      BY <1>2 DEF Branch!TakeIndexLock, Branch!Ends, Branch!IndexIsRead, Branch!RacedOK,
         Branch!OpOK, Branch!Operations
    <3> QED
      BY <3>1, <3>2, <3>3, <3>4, <3>5 DEF Branch!TypeOK
  <2>2. Branch!InputsAreRead'
    BY <1>2 DEF Branch!TakeIndexLock, Branch!Ends, Branch!IndexIsRead,
       Branch!InputsAreRead, Branch!Old, Branch!New, Branch!Updated,
       Branch!Undoable, Branch!Untried, Branch!StageOK,
       Branch!RepositoryOK, Branch!WithoutOK, Branch!RacedOK,
       Branch!Files, Branch!OpOK, Branch!Operations, Branch!Commits
  <2>3. Branch!FilesAreWritten'
    BY <1>2 DEF Branch!TakeIndexLock, Branch!Ends, Branch!IndexIsRead,
       Branch!FilesAreWritten, Branch!InputsAreRead, Branch!Written,
       Branch!Old, Branch!New, Branch!Updated, Branch!Undoable,
       Branch!Untried, Branch!StageOK, Branch!RepositoryOK,
       Branch!WithoutOK, Branch!RacedOK, Branch!Files, Branch!OpOK,
       Branch!Operations, Branch!Commits
  <2>4. Branch!IndexIsHeld'
    BY <1>2 DEF Branch!TakeIndexLock, Branch!Ends, Branch!IndexIsRead, Branch!IndexIsHeld,
       Branch!InputsAreRead, Branch!Old, Branch!New, Branch!Updated,
       Branch!Undoable, Branch!Untried, Branch!StageOK,
       Branch!RepositoryOK, Branch!WithoutOK, Branch!RacedOK,
       Branch!Files, Branch!OpOK, Branch!Operations, Branch!Commits
  <2>5. Branch!IndexIsMerged'
    BY <1>2 DEF Branch!TakeIndexLock, Branch!Ends, Branch!IndexIsRead,
       Branch!IndexIsMerged, Branch!MergedIndex, Branch!InputsAreRead,
       Branch!Old, Branch!New, Branch!Updated, Branch!Undoable,
       Branch!Untried, Branch!StageOK, Branch!RepositoryOK,
       Branch!WithoutOK, Branch!RacedOK, Branch!Files, Branch!OpOK,
       Branch!Operations, Branch!Commits
  <2>6. Branch!HeadIsSet'
    BY <1>2 DEF Branch!TakeIndexLock, Branch!Ends, Branch!IndexIsRead, Branch!HeadIsSet,
       Branch!Undoable, Branch!StageOK, Branch!RepositoryOK,
       Branch!WithoutOK, Branch!RacedOK, Branch!OpOK, Branch!Operations,
       Branch!Commits
  <2>7. Branch!RefsAreMoved'
    BY <1>2 DEF Branch!TakeIndexLock, Branch!Ends, Branch!IndexIsRead,
       Branch!RefsAreMoved, Branch!InputsAreRead, Branch!Undoable,
       Branch!StageOK, Branch!RepositoryOK, Branch!WithoutOK,
       Branch!RacedOK, Branch!Files, Branch!OpOK, Branch!Operations,
       Branch!Commits
  <2> QED
    BY <2>1, <2>2, <2>3, <2>4, <2>5, <2>6, <2>7
<1>3. CASE Branch!SetHead
  <2>1. Branch!TypeOK'
    <3>1. Branch!StageOK'
      BY <1>3 DEF Branch!SetHead, Branch!Ends, Branch!StageOK
    <3>2. Branch!OpOK'
      BY <1>3 DEF Branch!SetHead, Branch!Ends, Branch!OpOK, Branch!Operations,
         Branch!Commits, Branch!RepositoryOK, Branch!StageOK
    <3>3. Branch!RepositoryOK'
      BY <1>3 DEF Branch!SetHead, Branch!Ends, Branch!RepositoryOK, Branch!StageOK,
         Branch!OpOK, Branch!Operations, Branch!Files
    <3>4. Branch!WithoutOK'
      BY <1>3 DEF Branch!SetHead, Branch!Ends, Branch!WithoutOK, Branch!RepositoryOK,
         Branch!Files
    <3>5. Branch!RacedOK'
      BY <1>3 DEF Branch!SetHead, Branch!Ends, Branch!RacedOK, Branch!OpOK,
         Branch!Operations
    <3> QED
      BY <3>1, <3>2, <3>3, <3>4, <3>5 DEF Branch!TypeOK
  <2>2. Branch!InputsAreRead'
    BY <1>3 DEF Branch!SetHead, Branch!Ends, Branch!InputsAreRead, Branch!Old, Branch!New,
       Branch!Updated, Branch!Undoable, Branch!Untried, Branch!StageOK,
       Branch!RepositoryOK, Branch!WithoutOK, Branch!RacedOK,
       Branch!Files, Branch!OpOK, Branch!Operations, Branch!Commits
  <2>3. Branch!FilesAreWritten'
    BY <1>3 DEF Branch!SetHead, Branch!Ends, Branch!FilesAreWritten, Branch!InputsAreRead,
       Branch!Written, Branch!Old, Branch!New, Branch!Updated,
       Branch!Undoable, Branch!Untried, Branch!StageOK,
       Branch!RepositoryOK, Branch!WithoutOK, Branch!RacedOK,
       Branch!Files, Branch!OpOK, Branch!Operations, Branch!Commits
  <2>4. Branch!IndexIsHeld'
    BY <1>3 DEF Branch!SetHead, Branch!Ends, Branch!IndexIsHeld, Branch!InputsAreRead,
       Branch!Old, Branch!New, Branch!Updated, Branch!Undoable,
       Branch!Untried, Branch!StageOK, Branch!RepositoryOK,
       Branch!WithoutOK, Branch!RacedOK, Branch!Files, Branch!OpOK,
       Branch!Operations, Branch!Commits
  <2>5. Branch!IndexIsMerged'
    BY <1>3 DEF Branch!SetHead, Branch!Ends, Branch!IndexIsMerged, Branch!MergedIndex,
       Branch!InputsAreRead, Branch!Old, Branch!New, Branch!Updated,
       Branch!Undoable, Branch!Untried, Branch!StageOK,
       Branch!RepositoryOK, Branch!WithoutOK, Branch!RacedOK,
       Branch!Files, Branch!OpOK, Branch!Operations, Branch!Commits
  <2>6. Branch!HeadIsSet'
    BY <1>3 DEF Branch!SetHead, Branch!Ends, Branch!HeadIsSet, Branch!Undoable,
       Branch!StageOK, Branch!RepositoryOK, Branch!WithoutOK,
       Branch!RacedOK, Branch!OpOK, Branch!Operations, Branch!Commits
  <2>7. Branch!RefsAreMoved'
    BY <1>3 DEF Branch!SetHead, Branch!Ends, Branch!RefsAreMoved, Branch!InputsAreRead,
       Branch!Undoable, Branch!StageOK, Branch!RepositoryOK,
       Branch!WithoutOK, Branch!RacedOK, Branch!Files, Branch!OpOK,
       Branch!Operations, Branch!Commits
  <2> QED
    BY <2>1, <2>2, <2>3, <2>4, <2>5, <2>6, <2>7
<1>4. CASE Branch!Install
  <2>1. Branch!TypeOK'
    <3>1. Branch!StageOK'
      BY <1>4, OpIsKept
      DEF Branch!Install, Branch!Ends, Branch!TargetIndex, Branch!StageOK,
         Branch!OpOK
    <3>2. Branch!OpOK'
      BY ZenonT(40), <1>4 DEF Branch!Install, Branch!Ends, Branch!TargetIndex, Branch!OpOK,
         Branch!Operations, Branch!Commits, Branch!RepositoryOK,
         Branch!StageOK
    <3>3. Branch!RepositoryOK'
      <4>1. Branch!Tree(v7.old) \in Branch!Files /\ Branch!Tree(v7.new) \in Branch!Files
        BY <1>4 DEF Branch!Install, Branch!Ends, Branch!TargetIndex, Branch!RepositoryOK,
           Branch!StageOK, Branch!OpOK, Branch!Operations, Branch!Files,
           Branch!InputsAreRead, Branch!Commits
      <4>2. v1 \in Branch!Files /\ v2 \in Branch!Files /\ v7.index \in Branch!Files
        BY <1>4 DEF Branch!Install, Branch!Ends, Branch!TargetIndex, Branch!RepositoryOK,
           Branch!StageOK, Branch!OpOK, Branch!Operations, Branch!Files,
           Branch!Commits
      <4>3. Branch!TargetIndex \in Branch!Files
        BY <1>4, <4>1, <4>2
        DEF Branch!Install, Branch!Ends, Branch!TargetIndex, Branch!RepositoryOK,
           Branch!StageOK, Branch!OpOK, Branch!Operations, Branch!Files,
           Branch!InputsAreRead, Branch!Commits
      <4> QED
        BY <4>1, <4>2, <4>3, <1>4
        DEF Branch!RepositoryOK, Branch!StageOK, Branch!OpOK, Branch!Operations,
           Branch!Files, Branch!Install, Branch!Ends, Branch!Commits
    <3>4. Branch!WithoutOK'
      BY <1>4 DEF Branch!Install, Branch!Ends, Branch!TargetIndex, Branch!WithoutOK,
         Branch!RepositoryOK, Branch!Files
    <3>5. Branch!RacedOK'
      BY <1>4 DEF Branch!Install, Branch!Ends, Branch!TargetIndex, Branch!RacedOK,
         Branch!OpOK, Branch!Operations
    <3> QED
      BY <3>1, <3>2, <3>3, <3>4, <3>5 DEF Branch!TypeOK
  <2>2. Branch!InputsAreRead'
    BY <1>4 DEF Branch!Install, Branch!Ends, Branch!TargetIndex, Branch!InputsAreRead,
       Branch!Old, Branch!New, Branch!Updated, Branch!Undoable,
       Branch!Untried, Branch!StageOK, Branch!RepositoryOK,
       Branch!WithoutOK, Branch!RacedOK, Branch!Files, Branch!OpOK,
       Branch!Operations, Branch!Commits
  <2>3. Branch!FilesAreWritten'
    BY <1>4 DEF Branch!Install, Branch!Ends, Branch!TargetIndex, Branch!FilesAreWritten,
       Branch!InputsAreRead, Branch!Written, Branch!Old, Branch!New,
       Branch!Updated, Branch!Undoable, Branch!Untried, Branch!StageOK,
       Branch!RepositoryOK, Branch!WithoutOK, Branch!RacedOK,
       Branch!Files, Branch!OpOK, Branch!Operations, Branch!Commits
  <2>4. Branch!IndexIsHeld'
    BY <1>4 DEF Branch!Install, Branch!Ends, Branch!TargetIndex, Branch!IndexIsHeld,
       Branch!InputsAreRead, Branch!Old, Branch!New, Branch!Updated,
       Branch!Undoable, Branch!Untried, Branch!StageOK,
       Branch!RepositoryOK, Branch!WithoutOK, Branch!RacedOK,
       Branch!Files, Branch!OpOK, Branch!Operations, Branch!Commits
  <2>5. Branch!IndexIsMerged'
    BY <1>4 DEF Branch!Install, Branch!Ends, Branch!TargetIndex, Branch!IndexIsMerged,
       Branch!MergedIndex, Branch!InputsAreRead, Branch!Old, Branch!New,
       Branch!Updated, Branch!Undoable, Branch!Untried, Branch!StageOK,
       Branch!RepositoryOK, Branch!WithoutOK, Branch!RacedOK,
       Branch!Files, Branch!OpOK, Branch!Operations, Branch!Commits
  <2>6. Branch!HeadIsSet'
    BY <1>4 DEF Branch!Install, Branch!Ends, Branch!TargetIndex, Branch!HeadIsSet,
       Branch!Undoable, Branch!StageOK, Branch!RepositoryOK,
       Branch!WithoutOK, Branch!RacedOK, Branch!OpOK, Branch!Operations,
       Branch!Commits
  <2>7. Branch!RefsAreMoved'
    BY <1>4, ContainsItself
    DEF Branch!Install, Branch!Ends, Branch!TargetIndex, Branch!RefsAreMoved,
       Branch!InputsAreRead, Branch!Undoable, Branch!StageOK,
       Branch!RepositoryOK, Branch!WithoutOK, Branch!RacedOK,
       Branch!Files, Branch!OpOK, Branch!Operations, Branch!Commits
  <2> QED
    BY <2>1, <2>2, <2>3, <2>4, <2>5, <2>6, <2>7
<1>5. ASSUME NEW k \in {"merge", "pull"}, Branch!StartMerge(k) PROVE Branch!IInv'
  <2>1. Branch!TypeOK'
    <3>1. Branch!StageOK'
      BY <1>5 DEF Branch!StartMerge, Branch!Begin, Branch!Here, Branch!NoRace, Branch!Ends,
         Branch!StageOK, Branch!NoOp
    <3>2. Branch!OpOK'
      <4>1. PICK b \in Branch!Branches :
               v7' = [Branch!NoOp EXCEPT !.kind = k, !.branch = b, !.from = v3,
                        !.old = v4[v3], !.new = v4[b], !.index = v2]
        BY <1>5
           DEF Branch!StartMerge, Branch!Begin, Branch!Here, Branch!NoRace, Branch!Ends
      <4>2. v3 \in Branch!Branches /\ v2 \in Branch!Files
             /\ \A c \in Branch!Branches : v4[c] \in Branch!Commits
        BY DEF Branch!RepositoryOK
      <4>3. k \in {"checkout", "merge", "pull"}
        OBVIOUS
      <4> QED
        BY <4>1, <4>2, <4>3, OpBegins, Zenon DEF Branch!OpOK
    <3>3. Branch!RepositoryOK'
      BY <1>5 DEF Branch!StartMerge, Branch!Begin, Branch!Here, Branch!NoRace, Branch!Ends,
         Branch!RepositoryOK, Branch!StageOK, Branch!OpOK,
         Branch!Operations, Branch!Files, Branch!NoOp
    <3>4. Branch!WithoutOK'
      BY <1>5 DEF Branch!StartMerge, Branch!Begin, Branch!Here, Branch!NoRace, Branch!Ends,
         Branch!WithoutOK, Branch!RepositoryOK, Branch!Files
    <3>5. Branch!RacedOK'
      BY <1>5 DEF Branch!StartMerge, Branch!Begin, Branch!Here, Branch!NoRace, Branch!Ends,
         Branch!RacedOK, Branch!OpOK, Branch!Operations
    <3> QED
      BY <3>1, <3>2, <3>3, <3>4, <3>5 DEF Branch!TypeOK
  <2>2. Branch!InputsAreRead'
    BY <1>5 DEF Branch!StartMerge, Branch!Begin, Branch!Here, Branch!NoRace, Branch!Ends,
       Branch!InputsAreRead, Branch!Old, Branch!New, Branch!Updated,
       Branch!Undoable, Branch!Untried, Branch!StageOK,
       Branch!RepositoryOK, Branch!WithoutOK, Branch!RacedOK,
       Branch!Files, Branch!OpOK, Branch!Operations, Branch!Commits,
       Branch!NoOp
  <2>3. Branch!FilesAreWritten'
    BY <1>5 DEF Branch!StartMerge, Branch!Begin, Branch!Here, Branch!NoRace, Branch!Ends,
       Branch!FilesAreWritten, Branch!InputsAreRead, Branch!Written,
       Branch!Old, Branch!New, Branch!Updated, Branch!Undoable,
       Branch!Untried, Branch!StageOK, Branch!RepositoryOK,
       Branch!WithoutOK, Branch!RacedOK, Branch!Files, Branch!OpOK,
       Branch!Operations, Branch!Commits, Branch!NoOp
  <2>4. Branch!IndexIsHeld'
    BY <1>5 DEF Branch!StartMerge, Branch!Begin, Branch!Here, Branch!NoRace, Branch!Ends,
       Branch!IndexIsHeld, Branch!InputsAreRead, Branch!Old, Branch!New,
       Branch!Updated, Branch!Undoable, Branch!Untried, Branch!StageOK,
       Branch!RepositoryOK, Branch!WithoutOK, Branch!RacedOK,
       Branch!Files, Branch!OpOK, Branch!Operations, Branch!Commits,
       Branch!NoOp
  <2>5. Branch!IndexIsMerged'
    BY <1>5 DEF Branch!StartMerge, Branch!Begin, Branch!Here, Branch!NoRace, Branch!Ends,
       Branch!IndexIsMerged, Branch!MergedIndex, Branch!InputsAreRead,
       Branch!Old, Branch!New, Branch!Updated, Branch!Undoable,
       Branch!Untried, Branch!StageOK, Branch!RepositoryOK,
       Branch!WithoutOK, Branch!RacedOK, Branch!Files, Branch!OpOK,
       Branch!Operations, Branch!Commits, Branch!NoOp
  <2>6. Branch!HeadIsSet'
    BY <1>5 DEF Branch!StartMerge, Branch!Begin, Branch!Here, Branch!NoRace, Branch!Ends,
       Branch!HeadIsSet, Branch!Undoable, Branch!StageOK,
       Branch!RepositoryOK, Branch!WithoutOK, Branch!RacedOK, Branch!OpOK,
       Branch!Operations, Branch!Commits, Branch!NoOp
  <2>7. Branch!RefsAreMoved'
    BY <1>5 DEF Branch!StartMerge, Branch!Begin, Branch!Here, Branch!NoRace, Branch!Ends,
       Branch!RefsAreMoved, Branch!InputsAreRead, Branch!Undoable,
       Branch!StageOK, Branch!RepositoryOK, Branch!WithoutOK,
       Branch!RacedOK, Branch!Files, Branch!OpOK, Branch!Operations,
       Branch!Commits, Branch!NoOp
  <2> QED
    BY <2>1, <2>2, <2>3, <2>4, <2>5, <2>6, <2>7
<1>6. CASE Branch!Combine
  <2>1. Branch!TypeOK'
    <3>1. Branch!StageOK'
      BY <1>6 DEF Branch!Combine, Branch!StageOK
    <3>2. Branch!OpOK'
      BY <1>6 DEF Branch!Combine, Branch!OpOK, Branch!Operations, Branch!Commits,
         Branch!RepositoryOK, Branch!StageOK
    <3>3. Branch!RepositoryOK'
      BY <1>6 DEF Branch!Combine, Branch!RepositoryOK, Branch!StageOK, Branch!OpOK,
         Branch!Operations, Branch!Files
    <3>4. Branch!WithoutOK'
      BY <1>6 DEF Branch!Combine, Branch!WithoutOK, Branch!RepositoryOK, Branch!Files
    <3>5. Branch!RacedOK'
      BY <1>6 DEF Branch!Combine, Branch!RacedOK, Branch!OpOK, Branch!Operations
    <3> QED
      BY <3>1, <3>2, <3>3, <3>4, <3>5 DEF Branch!TypeOK
  <2>2. Branch!InputsAreRead'
    BY <1>6, ContainsItself
    DEF Branch!Combine, Branch!InputsAreRead, Branch!Old, Branch!New,
       Branch!Updated, Branch!Undoable, Branch!Untried, Branch!StageOK,
       Branch!RepositoryOK, Branch!WithoutOK, Branch!RacedOK,
       Branch!Files, Branch!OpOK, Branch!Operations, Branch!Commits
  <2>3. Branch!FilesAreWritten'
    BY <1>6 DEF Branch!Combine, Branch!FilesAreWritten, Branch!InputsAreRead,
       Branch!Written, Branch!Old, Branch!New, Branch!Updated,
       Branch!Undoable, Branch!Untried, Branch!StageOK,
       Branch!RepositoryOK, Branch!WithoutOK, Branch!RacedOK,
       Branch!Files, Branch!OpOK, Branch!Operations, Branch!Commits
  <2>4. Branch!IndexIsHeld'
    BY <1>6 DEF Branch!Combine, Branch!IndexIsHeld, Branch!InputsAreRead, Branch!Old,
       Branch!New, Branch!Updated, Branch!Undoable, Branch!Untried,
       Branch!StageOK, Branch!RepositoryOK, Branch!WithoutOK,
       Branch!RacedOK, Branch!Files, Branch!OpOK, Branch!Operations,
       Branch!Commits
  <2>5. Branch!IndexIsMerged'
    BY <1>6 DEF Branch!Combine, Branch!IndexIsMerged, Branch!MergedIndex,
       Branch!InputsAreRead, Branch!Old, Branch!New, Branch!Updated,
       Branch!Undoable, Branch!Untried, Branch!StageOK,
       Branch!RepositoryOK, Branch!WithoutOK, Branch!RacedOK,
       Branch!Files, Branch!OpOK, Branch!Operations, Branch!Commits
  <2>6. Branch!HeadIsSet'
    BY <1>6 DEF Branch!Combine, Branch!HeadIsSet, Branch!Undoable, Branch!StageOK,
       Branch!RepositoryOK, Branch!WithoutOK, Branch!RacedOK, Branch!OpOK,
       Branch!Operations, Branch!Commits
  <2>7. Branch!RefsAreMoved'
    BY <1>6 DEF Branch!Combine, Branch!RefsAreMoved, Branch!InputsAreRead,
       Branch!Undoable, Branch!StageOK, Branch!RepositoryOK,
       Branch!WithoutOK, Branch!RacedOK, Branch!Files, Branch!OpOK,
       Branch!Operations, Branch!Commits
  <2> QED
    BY <2>1, <2>2, <2>3, <2>4, <2>5, <2>6, <2>7
<1>7. CASE Branch!SyncIndex
  <2>1. Branch!TypeOK'
    <3>1. Branch!StageOK'
      BY <1>7 DEF Branch!SyncIndex, Branch!Ends, Branch!StageOK
    <3>2. Branch!OpOK'
      BY <1>7 DEF Branch!SyncIndex, Branch!Ends, Branch!OpOK, Branch!Operations,
         Branch!Commits, Branch!RepositoryOK, Branch!StageOK
    <3>3. Branch!RepositoryOK'
      <4>1. Branch!Tree(v7.old) \in Branch!Files /\ Branch!Tree(v7.new) \in Branch!Files
        BY <1>7 DEF Branch!SyncIndex, Branch!Ends, Branch!RepositoryOK, Branch!StageOK,
           Branch!OpOK, Branch!Operations, Branch!Files,
           Branch!InputsAreRead, Branch!Commits
      <4>2. v1 \in Branch!Files /\ v2 \in Branch!Files /\ v7.index \in Branch!Files
        BY <1>7 DEF Branch!SyncIndex, Branch!Ends, Branch!RepositoryOK, Branch!StageOK,
           Branch!OpOK, Branch!Operations, Branch!Files, Branch!Commits
      <4>3. Branch!MergedIndex \in Branch!Files
        BY <1>7, <4>1, <4>2
        DEF Branch!SyncIndex, Branch!Ends, Branch!RepositoryOK, Branch!StageOK,
           Branch!OpOK, Branch!Operations, Branch!Files,
           Branch!InputsAreRead, Branch!Commits, Branch!MergedIndex
      <4> QED
        BY <4>1, <4>2, <4>3, <1>7
        DEF Branch!RepositoryOK, Branch!StageOK, Branch!OpOK, Branch!Operations,
           Branch!Files, Branch!SyncIndex, Branch!Ends, Branch!Commits
    <3>4. Branch!WithoutOK'
      BY <1>7 DEF Branch!SyncIndex, Branch!Ends, Branch!WithoutOK, Branch!RepositoryOK,
         Branch!Files
    <3>5. Branch!RacedOK'
      BY <1>7 DEF Branch!SyncIndex, Branch!Ends, Branch!RacedOK, Branch!OpOK,
         Branch!Operations
    <3> QED
      BY <3>1, <3>2, <3>3, <3>4, <3>5 DEF Branch!TypeOK
  <2>2. Branch!InputsAreRead'
    BY <1>7 DEF Branch!SyncIndex, Branch!Ends, Branch!InputsAreRead, Branch!Old,
       Branch!New, Branch!Updated, Branch!Undoable, Branch!Untried,
       Branch!StageOK, Branch!RepositoryOK, Branch!WithoutOK,
       Branch!RacedOK, Branch!Files, Branch!OpOK, Branch!Operations,
       Branch!Commits
  <2>3. Branch!FilesAreWritten'
    BY <1>7 DEF Branch!SyncIndex, Branch!Ends, Branch!FilesAreWritten,
       Branch!InputsAreRead, Branch!Written, Branch!Old, Branch!New,
       Branch!Updated, Branch!Undoable, Branch!Untried, Branch!StageOK,
       Branch!RepositoryOK, Branch!WithoutOK, Branch!RacedOK,
       Branch!Files, Branch!OpOK, Branch!Operations, Branch!Commits
  <2>4. Branch!IndexIsHeld'
    BY <1>7 DEF Branch!SyncIndex, Branch!Ends, Branch!IndexIsHeld, Branch!InputsAreRead,
       Branch!Old, Branch!New, Branch!Updated, Branch!Undoable,
       Branch!Untried, Branch!StageOK, Branch!RepositoryOK,
       Branch!WithoutOK, Branch!RacedOK, Branch!Files, Branch!OpOK,
       Branch!Operations, Branch!Commits
  <2>5. Branch!IndexIsMerged'
    BY <1>7 DEF Branch!SyncIndex, Branch!Ends, Branch!IndexIsMerged, Branch!MergedIndex,
       Branch!InputsAreRead, Branch!Old, Branch!New, Branch!Updated,
       Branch!Undoable, Branch!Untried, Branch!StageOK,
       Branch!RepositoryOK, Branch!WithoutOK, Branch!RacedOK,
       Branch!Files, Branch!OpOK, Branch!Operations, Branch!Commits
  <2>6. Branch!HeadIsSet'
    BY <1>7 DEF Branch!SyncIndex, Branch!Ends, Branch!HeadIsSet, Branch!Undoable,
       Branch!StageOK, Branch!RepositoryOK, Branch!WithoutOK,
       Branch!RacedOK, Branch!OpOK, Branch!Operations, Branch!Commits
  <2>7. Branch!RefsAreMoved'
    BY <1>7 DEF Branch!SyncIndex, Branch!Ends, Branch!RefsAreMoved, Branch!InputsAreRead,
       Branch!Undoable, Branch!StageOK, Branch!RepositoryOK,
       Branch!WithoutOK, Branch!RacedOK, Branch!Files, Branch!OpOK,
       Branch!Operations, Branch!Commits
  <2> QED
    BY <2>1, <2>2, <2>3, <2>4, <2>5, <2>6, <2>7
<1>8. CASE Branch!MoveRef
  <2>1. Branch!TypeOK'
    <3>1. Branch!StageOK'
      BY <1>8 DEF Branch!MoveRef, Branch!Ends, Branch!HeadIsRead, Branch!StageOK
    <3>2. Branch!OpOK'
      BY <1>8 DEF Branch!MoveRef, Branch!Ends, Branch!HeadIsRead, Branch!OpOK,
         Branch!Operations, Branch!Commits, Branch!RepositoryOK,
         Branch!StageOK
    <3>3. Branch!RepositoryOK'
      BY <1>8 DEF Branch!MoveRef, Branch!Ends, Branch!HeadIsRead, Branch!RepositoryOK,
         Branch!StageOK, Branch!OpOK, Branch!Operations, Branch!Files
    <3>4. Branch!WithoutOK'
      BY <1>8 DEF Branch!MoveRef, Branch!Ends, Branch!HeadIsRead, Branch!WithoutOK,
         Branch!RepositoryOK, Branch!Files
    <3>5. Branch!RacedOK'
      BY <1>8 DEF Branch!MoveRef, Branch!Ends, Branch!HeadIsRead, Branch!RacedOK,
         Branch!OpOK, Branch!Operations
    <3> QED
      BY <3>1, <3>2, <3>3, <3>4, <3>5 DEF Branch!TypeOK
  <2>2. Branch!InputsAreRead'
    BY <1>8 DEF Branch!MoveRef, Branch!Ends, Branch!HeadIsRead, Branch!InputsAreRead,
       Branch!Old, Branch!New, Branch!Updated, Branch!Undoable,
       Branch!Untried, Branch!StageOK, Branch!RepositoryOK,
       Branch!WithoutOK, Branch!RacedOK, Branch!Files, Branch!OpOK,
       Branch!Operations, Branch!Commits
  <2>3. Branch!FilesAreWritten'
    BY <1>8 DEF Branch!MoveRef, Branch!Ends, Branch!HeadIsRead, Branch!FilesAreWritten,
       Branch!InputsAreRead, Branch!Written, Branch!Old, Branch!New,
       Branch!Updated, Branch!Undoable, Branch!Untried, Branch!StageOK,
       Branch!RepositoryOK, Branch!WithoutOK, Branch!RacedOK,
       Branch!Files, Branch!OpOK, Branch!Operations, Branch!Commits
  <2>4. Branch!IndexIsHeld'
    BY <1>8 DEF Branch!MoveRef, Branch!Ends, Branch!HeadIsRead, Branch!IndexIsHeld,
       Branch!InputsAreRead, Branch!Old, Branch!New, Branch!Updated,
       Branch!Undoable, Branch!Untried, Branch!StageOK,
       Branch!RepositoryOK, Branch!WithoutOK, Branch!RacedOK,
       Branch!Files, Branch!OpOK, Branch!Operations, Branch!Commits
  <2>5. Branch!IndexIsMerged'
    BY <1>8 DEF Branch!MoveRef, Branch!Ends, Branch!HeadIsRead, Branch!IndexIsMerged,
       Branch!MergedIndex, Branch!InputsAreRead, Branch!Old, Branch!New,
       Branch!Updated, Branch!Undoable, Branch!Untried, Branch!StageOK,
       Branch!RepositoryOK, Branch!WithoutOK, Branch!RacedOK,
       Branch!Files, Branch!OpOK, Branch!Operations, Branch!Commits
  <2>6. Branch!HeadIsSet'
    BY <1>8 DEF Branch!MoveRef, Branch!Ends, Branch!HeadIsRead, Branch!HeadIsSet,
       Branch!Undoable, Branch!StageOK, Branch!RepositoryOK,
       Branch!WithoutOK, Branch!RacedOK, Branch!OpOK, Branch!Operations,
       Branch!Commits
  <2>7. Branch!RefsAreMoved'
    BY <1>8, ContainsItself
    DEF Branch!MoveRef, Branch!Ends, Branch!HeadIsRead, Branch!RefsAreMoved,
       Branch!InputsAreRead, Branch!Undoable, Branch!StageOK,
       Branch!RepositoryOK, Branch!WithoutOK, Branch!RacedOK,
       Branch!Files, Branch!OpOK, Branch!Operations, Branch!Commits
  <2> QED
    BY <2>1, <2>2, <2>3, <2>4, <2>5, <2>6, <2>7
<1>9. CASE Branch!RestoreIndex
  <2>1. Branch!TypeOK'
    <3>1. Branch!StageOK'
      BY <1>9, OpIsKept DEF Branch!RestoreIndex, Branch!Ends, Branch!StageOK, Branch!OpOK
    <3>2. Branch!OpOK'
      BY ZenonT(40), <1>9 DEF Branch!RestoreIndex, Branch!Ends, Branch!OpOK, Branch!Operations,
         Branch!Commits, Branch!RepositoryOK, Branch!StageOK
    <3>3. Branch!RepositoryOK'
      BY <1>9 DEF Branch!RestoreIndex, Branch!Ends, Branch!RepositoryOK, Branch!StageOK,
         Branch!OpOK, Branch!Operations, Branch!Files
    <3>4. Branch!WithoutOK'
      BY <1>9 DEF Branch!RestoreIndex, Branch!Ends, Branch!WithoutOK, Branch!RepositoryOK,
         Branch!Files
    <3>5. Branch!RacedOK'
      BY <1>9 DEF Branch!RestoreIndex, Branch!Ends, Branch!RacedOK, Branch!OpOK,
         Branch!Operations
    <3> QED
      BY <3>1, <3>2, <3>3, <3>4, <3>5 DEF Branch!TypeOK
  <2>2. Branch!InputsAreRead'
    BY <1>9 DEF Branch!RestoreIndex, Branch!Ends, Branch!InputsAreRead, Branch!Old,
       Branch!New, Branch!Updated, Branch!Undoable, Branch!Untried,
       Branch!StageOK, Branch!RepositoryOK, Branch!WithoutOK,
       Branch!RacedOK, Branch!Files, Branch!OpOK, Branch!Operations,
       Branch!Commits
  <2>3. Branch!FilesAreWritten'
    BY <1>9 DEF Branch!RestoreIndex, Branch!Ends, Branch!FilesAreWritten,
       Branch!InputsAreRead, Branch!Written, Branch!Old, Branch!New,
       Branch!Updated, Branch!Undoable, Branch!Untried, Branch!StageOK,
       Branch!RepositoryOK, Branch!WithoutOK, Branch!RacedOK,
       Branch!Files, Branch!OpOK, Branch!Operations, Branch!Commits
  <2>4. Branch!IndexIsHeld'
    BY <1>9 DEF Branch!RestoreIndex, Branch!Ends, Branch!IndexIsHeld,
       Branch!InputsAreRead, Branch!Old, Branch!New, Branch!Updated,
       Branch!Undoable, Branch!Untried, Branch!StageOK,
       Branch!RepositoryOK, Branch!WithoutOK, Branch!RacedOK,
       Branch!Files, Branch!OpOK, Branch!Operations, Branch!Commits
  <2>5. Branch!IndexIsMerged'
    BY <1>9 DEF Branch!RestoreIndex, Branch!Ends, Branch!IndexIsMerged,
       Branch!MergedIndex, Branch!InputsAreRead, Branch!Old, Branch!New,
       Branch!Updated, Branch!Undoable, Branch!Untried, Branch!StageOK,
       Branch!RepositoryOK, Branch!WithoutOK, Branch!RacedOK,
       Branch!Files, Branch!OpOK, Branch!Operations, Branch!Commits
  <2>6. Branch!HeadIsSet'
    BY <1>9 DEF Branch!RestoreIndex, Branch!Ends, Branch!HeadIsSet, Branch!Undoable,
       Branch!StageOK, Branch!RepositoryOK, Branch!WithoutOK,
       Branch!RacedOK, Branch!OpOK, Branch!Operations, Branch!Commits
  <2>7. Branch!RefsAreMoved'
    BY <1>9 DEF Branch!RestoreIndex, Branch!Ends, Branch!RefsAreMoved,
       Branch!InputsAreRead, Branch!Undoable, Branch!StageOK,
       Branch!RepositoryOK, Branch!WithoutOK, Branch!RacedOK,
       Branch!Files, Branch!OpOK, Branch!Operations, Branch!Commits
  <2> QED
    BY <2>1, <2>2, <2>3, <2>4, <2>5, <2>6, <2>7
<1>10. CASE Branch!Inspect
  <2>1. Branch!TypeOK'
    <3>1. Branch!StageOK'
      BY <1>10 DEF Branch!Inspect, Branch!StageOK
    <3>2. Branch!OpOK'
      <4>1. {p \in Branch!Updated : v1[p] = Branch!Old[p]} \in SUBSET Branch!Paths
        BY DEF Branch!Updated, Branch!Changed
      <4> QED
        BY <1>10, <4>1, OpIsKept
           DEF Branch!Inspect, Branch!OpOK, Branch!Updated, Branch!Old
    <3>3. Branch!RepositoryOK'
      BY <1>10 DEF Branch!Inspect, Branch!RepositoryOK, Branch!StageOK, Branch!OpOK,
         Branch!Operations, Branch!Files
    <3>4. Branch!WithoutOK'
      BY <1>10 DEF Branch!Inspect, Branch!WithoutOK, Branch!RepositoryOK, Branch!Files
    <3>5. Branch!RacedOK'
      BY <1>10 DEF Branch!Inspect, Branch!RacedOK, Branch!OpOK, Branch!Operations
    <3> QED
      BY <3>1, <3>2, <3>3, <3>4, <3>5 DEF Branch!TypeOK
  <2>2. Branch!InputsAreRead'
    <3>1. /\ v7'.clean = {p \in Branch!Updated : v1[p] = Branch!Old[p]}
           /\ v7'.old = v7.old /\ v7'.new = v7.new /\ v7'.kind = v7.kind /\ v9' = v9
           /\ v6 = "inspect" /\ v6' \in {"lock", "apply"}
      BY <1>10
         DEF Branch!Inspect, Branch!OpOK, Branch!Operations, Branch!Updated, Branch!Old
    <3>2. Branch!Undoable => v1 = v9.worktree
      BY <3>1 DEF Branch!FilesAreWritten, Branch!Untried
    <3> QED
      BY <3>1, <3>2
         DEF Branch!InputsAreRead, Branch!Undoable, Branch!Updated, Branch!Old,
             Branch!StageOK
  <2>3. Branch!FilesAreWritten'
    BY <1>10 DEF Branch!Inspect, Branch!FilesAreWritten, Branch!InputsAreRead,
       Branch!Written, Branch!Old, Branch!New, Branch!Updated,
       Branch!Undoable, Branch!Untried, Branch!StageOK,
       Branch!RepositoryOK, Branch!WithoutOK, Branch!RacedOK,
       Branch!Files, Branch!OpOK, Branch!Operations, Branch!Commits
  <2>4. Branch!IndexIsHeld'
    BY <1>10 DEF Branch!Inspect, Branch!IndexIsHeld, Branch!InputsAreRead, Branch!Old,
       Branch!New, Branch!Updated, Branch!Undoable, Branch!Untried,
       Branch!StageOK, Branch!RepositoryOK, Branch!WithoutOK,
       Branch!RacedOK, Branch!Files, Branch!OpOK, Branch!Operations,
       Branch!Commits
  <2>5. Branch!IndexIsMerged'
    BY <1>10 DEF Branch!Inspect, Branch!IndexIsMerged, Branch!MergedIndex,
       Branch!InputsAreRead, Branch!Old, Branch!New, Branch!Updated,
       Branch!Undoable, Branch!Untried, Branch!StageOK,
       Branch!RepositoryOK, Branch!WithoutOK, Branch!RacedOK,
       Branch!Files, Branch!OpOK, Branch!Operations, Branch!Commits
  <2>6. Branch!HeadIsSet'
    BY <1>10 DEF Branch!Inspect, Branch!HeadIsSet, Branch!Undoable, Branch!StageOK,
       Branch!RepositoryOK, Branch!WithoutOK, Branch!RacedOK, Branch!OpOK,
       Branch!Operations, Branch!Commits
  <2>7. Branch!RefsAreMoved'
    BY <1>10 DEF Branch!Inspect, Branch!RefsAreMoved, Branch!InputsAreRead,
       Branch!Undoable, Branch!StageOK, Branch!RepositoryOK,
       Branch!WithoutOK, Branch!RacedOK, Branch!Files, Branch!OpOK,
       Branch!Operations, Branch!Commits
  <2> QED
    BY <2>1, <2>2, <2>3, <2>4, <2>5, <2>6, <2>7
<1>11. CASE Branch!Apply
  <2>1. Branch!TypeOK'
    <3>1. Branch!StageOK'
      BY <1>11 DEF Branch!Apply, Branch!Ends, Branch!StageOK
    <3>2. Branch!OpOK'
      BY <1>11
      DEF Branch!Apply, Branch!Ends, Branch!OpOK, Branch!Operations, Branch!Commits,
         Branch!RepositoryOK, Branch!StageOK
    <3>3. Branch!RepositoryOK'
      <4>1. Branch!Tree(v7.old) \in Branch!Files /\ Branch!Tree(v7.new) \in Branch!Files
        BY <1>11 DEF Branch!Apply, Branch!Ends, Branch!RepositoryOK, Branch!StageOK,
           Branch!OpOK, Branch!Operations, Branch!Files,
           Branch!InputsAreRead, Branch!Commits
      <4>2. v1 \in Branch!Files /\ v2 \in Branch!Files /\ v7.index \in Branch!Files
        BY <1>11 DEF Branch!Apply, Branch!Ends, Branch!RepositoryOK, Branch!StageOK,
           Branch!OpOK, Branch!Operations, Branch!Files, Branch!Commits
      <4> QED
        BY <4>1, <4>2, <1>11
        DEF Branch!RepositoryOK, Branch!StageOK, Branch!OpOK, Branch!Operations,
           Branch!Files, Branch!Apply, Branch!Ends, Branch!Commits
    <3>4. Branch!WithoutOK'
      BY <1>11 DEF Branch!Apply, Branch!Ends, Branch!WithoutOK, Branch!RepositoryOK,
         Branch!Files
    <3>5. Branch!RacedOK'
      BY <1>11
      DEF Branch!Apply, Branch!Ends, Branch!RacedOK, Branch!OpOK, Branch!Operations
    <3> QED
      BY <3>1, <3>2, <3>3, <3>4, <3>5 DEF Branch!TypeOK
  <2>2. Branch!InputsAreRead'
    BY <1>11 DEF Branch!Apply, Branch!Ends, Branch!InputsAreRead, Branch!Old, Branch!New,
       Branch!Updated, Branch!Undoable, Branch!Untried, Branch!StageOK,
       Branch!RepositoryOK, Branch!WithoutOK, Branch!RacedOK,
       Branch!Files, Branch!OpOK, Branch!Operations, Branch!Commits
  <2>3. Branch!FilesAreWritten'
    BY <1>11 DEF Branch!Apply, Branch!Ends, Branch!FilesAreWritten, Branch!InputsAreRead,
       Branch!Written, Branch!Old, Branch!New, Branch!Updated,
       Branch!Undoable, Branch!Untried, Branch!StageOK,
       Branch!RepositoryOK, Branch!WithoutOK, Branch!RacedOK,
       Branch!Files, Branch!OpOK, Branch!Operations, Branch!Commits
  <2>4. Branch!IndexIsHeld'
    BY <1>11 DEF Branch!Apply, Branch!Ends, Branch!IndexIsHeld, Branch!InputsAreRead,
       Branch!Old, Branch!New, Branch!Updated, Branch!Undoable,
       Branch!Untried, Branch!StageOK, Branch!RepositoryOK,
       Branch!WithoutOK, Branch!RacedOK, Branch!Files, Branch!OpOK,
       Branch!Operations, Branch!Commits
  <2>5. Branch!IndexIsMerged'
    BY <1>11 DEF Branch!Apply, Branch!Ends, Branch!IndexIsMerged, Branch!MergedIndex,
       Branch!InputsAreRead, Branch!Old, Branch!New, Branch!Updated,
       Branch!Undoable, Branch!Untried, Branch!StageOK,
       Branch!RepositoryOK, Branch!WithoutOK, Branch!RacedOK,
       Branch!Files, Branch!OpOK, Branch!Operations, Branch!Commits
  <2>6. Branch!HeadIsSet'
    BY <1>11 DEF Branch!Apply, Branch!Ends, Branch!HeadIsSet, Branch!Undoable,
       Branch!StageOK, Branch!RepositoryOK, Branch!WithoutOK,
       Branch!RacedOK, Branch!OpOK, Branch!Operations, Branch!Commits
  <2>7. Branch!RefsAreMoved'
    BY <1>11 DEF Branch!Apply, Branch!Ends, Branch!RefsAreMoved, Branch!InputsAreRead,
       Branch!Undoable, Branch!StageOK, Branch!RepositoryOK,
       Branch!WithoutOK, Branch!RacedOK, Branch!Files, Branch!OpOK,
       Branch!Operations, Branch!Commits
  <2> QED
    BY <2>1, <2>2, <2>3, <2>4, <2>5, <2>6, <2>7
<1>12. CASE Branch!Rollback
  <2>1. Branch!TypeOK'
    <3>1. Branch!StageOK'
      <4>1. v7'.kind = v7.kind
        BY <1>12 DEF Branch!Rollback, Branch!OpOK, Branch!Operations
      <4> QED
        BY <1>12, <4>1 DEF Branch!Rollback, Branch!StageOK
    <3>2. Branch!OpOK'
      <4>1. {p \in v7.clean : v1[p] = Branch!New[p]} \in SUBSET Branch!Paths
             /\ v7.clean \in SUBSET Branch!Paths /\ v7 \in Branch!Operations
        BY DEF Branch!OpOK, Branch!Operations
      <4> QED
        BY <1>12, <4>1, OpIsKept DEF Branch!Rollback, Branch!OpOK, Branch!New
    <3>3. Branch!RepositoryOK'
      BY <1>12 DEF Branch!Rollback, Branch!RepositoryOK, Branch!StageOK, Branch!OpOK,
         Branch!Operations, Branch!Files
    <3>4. Branch!WithoutOK'
      BY <1>12 DEF Branch!Rollback, Branch!WithoutOK, Branch!RepositoryOK, Branch!Files
    <3>5. Branch!RacedOK'
      BY <1>12 DEF Branch!Rollback, Branch!RacedOK, Branch!OpOK, Branch!Operations
    <3> QED
      BY <3>1, <3>2, <3>3, <3>4, <3>5 DEF Branch!TypeOK
  <2>2. Branch!InputsAreRead'
    BY ZenonT(40), <1>12 DEF Branch!Rollback, Branch!InputsAreRead, Branch!Old, Branch!New,
       Branch!Updated, Branch!Undoable, Branch!Untried, Branch!StageOK,
       Branch!RepositoryOK, Branch!WithoutOK, Branch!RacedOK,
       Branch!Files, Branch!OpOK, Branch!Operations, Branch!Commits
  <2>3. Branch!FilesAreWritten'
    <3>1. /\ \/ v7'.torn
              \/ v7'.restore = {p \in v7.clean : v1[p] = Branch!New[p]}
           /\ v7'.old = v7.old /\ v7'.new = v7.new /\ v7'.kind = v7.kind
           /\ v1' = v1 /\ v9' = v9 /\ v6 = "rollback" /\ v6' = "restore"
      BY <1>12 DEF Branch!Rollback, Branch!OpOK, Branch!Operations, Branch!New
    <3> SUFFICES ASSUME Branch!Undoable, NEW p \in Branch!Paths, ~v7'.torn
                  PROVE  IF p \in v7'.restore THEN v9.worktree[p] = Branch!Old[p]
                         ELSE v1[p] = v9.worktree[p]
      BY <3>1 DEF Branch!FilesAreWritten, Branch!Undoable, Branch!Old, Branch!Untried
    <3>2. v1[p] = v9.worktree[p] \/ Branch!Written(p)
      BY <3>1 DEF Branch!FilesAreWritten
    <3>3. p \in v7.clean => /\ v9.worktree[p] \in {Branch!Old[p], Branch!Edit}
                             /\ Branch!Old[p] # Branch!New[p]
      BY DEF Branch!InputsAreRead, Branch!Updated, Branch!Changed, Branch!Old, Branch!New
    <3>4. Branch!New[p] # Branch!Edit
      BY DEF Branch!InputsAreRead, Branch!Undoable, Branch!New, Branch!OpOK, Branch!Operations
    <3> QED
      BY <3>1, <3>2, <3>3, <3>4 DEF Branch!Written
  <2>4. Branch!IndexIsHeld'
    BY <1>12 DEF Branch!Rollback, Branch!IndexIsHeld, Branch!InputsAreRead, Branch!Old,
       Branch!New, Branch!Updated, Branch!Undoable, Branch!Untried,
       Branch!StageOK, Branch!RepositoryOK, Branch!WithoutOK,
       Branch!RacedOK, Branch!Files, Branch!OpOK, Branch!Operations,
       Branch!Commits
  <2>5. Branch!IndexIsMerged'
    BY ZenonT(40), <1>12 DEF Branch!Rollback, Branch!IndexIsMerged, Branch!MergedIndex,
       Branch!InputsAreRead, Branch!Old, Branch!New, Branch!Updated,
       Branch!Undoable, Branch!Untried, Branch!StageOK,
       Branch!RepositoryOK, Branch!WithoutOK, Branch!RacedOK,
       Branch!Files, Branch!OpOK, Branch!Operations, Branch!Commits
  <2>6. Branch!HeadIsSet'
    BY <1>12 DEF Branch!Rollback, Branch!HeadIsSet, Branch!Undoable, Branch!StageOK,
       Branch!RepositoryOK, Branch!WithoutOK, Branch!RacedOK, Branch!OpOK,
       Branch!Operations, Branch!Commits
  <2>7. Branch!RefsAreMoved'
    BY <1>12 DEF Branch!Rollback, Branch!RefsAreMoved, Branch!InputsAreRead,
       Branch!Undoable, Branch!StageOK, Branch!RepositoryOK,
       Branch!WithoutOK, Branch!RacedOK, Branch!Files, Branch!OpOK,
       Branch!Operations, Branch!Commits
  <2> QED
    BY <2>1, <2>2, <2>3, <2>4, <2>5, <2>6, <2>7
<1>13. CASE Branch!Restore
  <2>1. Branch!TypeOK'
    <3>1. Branch!StageOK'
      BY <1>13, OpIsKept
      DEF Branch!Restore, Branch!Ends, Branch!Gives, Branch!StageOK, Branch!OpOK
    <3>2. Branch!OpOK'
      BY ZenonT(40), <1>13
      DEF Branch!Restore, Branch!Ends, Branch!Gives, Branch!OpOK, Branch!Operations,
         Branch!Commits, Branch!RepositoryOK, Branch!StageOK
    <3>3. Branch!RepositoryOK'
      <4>1. Branch!Tree(v7.old) \in Branch!Files /\ Branch!Tree(v7.new) \in Branch!Files
        BY <1>13 DEF Branch!Restore, Branch!Ends, Branch!Gives, Branch!RepositoryOK,
           Branch!StageOK, Branch!OpOK, Branch!Operations, Branch!Files,
           Branch!InputsAreRead, Branch!Commits
      <4>2. v1 \in Branch!Files /\ v2 \in Branch!Files /\ v7.index \in Branch!Files
        BY <1>13 DEF Branch!Restore, Branch!Ends, Branch!Gives, Branch!RepositoryOK,
           Branch!StageOK, Branch!OpOK, Branch!Operations, Branch!Files,
           Branch!Commits
      <4> QED
        BY <4>1, <4>2, <1>13
        DEF Branch!RepositoryOK, Branch!StageOK, Branch!OpOK, Branch!Operations,
           Branch!Files, Branch!Restore, Branch!Ends, Branch!Gives,
           Branch!Commits
    <3>4. Branch!WithoutOK'
      BY <1>13 DEF Branch!Restore, Branch!Ends, Branch!Gives, Branch!WithoutOK,
         Branch!RepositoryOK, Branch!Files
    <3>5. Branch!RacedOK'
      BY <1>13 DEF Branch!Restore, Branch!Ends, Branch!Gives, Branch!RacedOK, Branch!OpOK,
         Branch!Operations
    <3> QED
      BY <3>1, <3>2, <3>3, <3>4, <3>5 DEF Branch!TypeOK
  <2>2. Branch!InputsAreRead'
    BY <1>13 DEF Branch!Restore, Branch!Ends, Branch!Gives, Branch!InputsAreRead,
       Branch!Old, Branch!New, Branch!Updated, Branch!Undoable,
       Branch!Untried, Branch!StageOK, Branch!RepositoryOK,
       Branch!WithoutOK, Branch!RacedOK, Branch!Files, Branch!OpOK,
       Branch!Operations, Branch!Commits
  <2>3. Branch!FilesAreWritten'
    BY <1>13 DEF Branch!Restore, Branch!Ends, Branch!Gives, Branch!FilesAreWritten,
       Branch!InputsAreRead, Branch!Written, Branch!Old, Branch!New,
       Branch!Updated, Branch!Undoable, Branch!Untried, Branch!StageOK,
       Branch!RepositoryOK, Branch!WithoutOK, Branch!RacedOK,
       Branch!Files, Branch!OpOK, Branch!Operations, Branch!Commits
  <2>4. Branch!IndexIsHeld'
    BY <1>13 DEF Branch!Restore, Branch!Ends, Branch!Gives, Branch!IndexIsHeld,
       Branch!InputsAreRead, Branch!Old, Branch!New, Branch!Updated,
       Branch!Undoable, Branch!Untried, Branch!StageOK,
       Branch!RepositoryOK, Branch!WithoutOK, Branch!RacedOK,
       Branch!Files, Branch!OpOK, Branch!Operations, Branch!Commits
  <2>5. Branch!IndexIsMerged'
    BY <1>13 DEF Branch!Restore, Branch!Ends, Branch!Gives, Branch!IndexIsMerged,
       Branch!MergedIndex, Branch!InputsAreRead, Branch!Old, Branch!New,
       Branch!Updated, Branch!Undoable, Branch!Untried, Branch!StageOK,
       Branch!RepositoryOK, Branch!WithoutOK, Branch!RacedOK,
       Branch!Files, Branch!OpOK, Branch!Operations, Branch!Commits
  <2>6. Branch!HeadIsSet'
    BY <1>13 DEF Branch!Restore, Branch!Ends, Branch!Gives, Branch!HeadIsSet,
       Branch!Undoable, Branch!StageOK, Branch!RepositoryOK,
       Branch!WithoutOK, Branch!RacedOK, Branch!OpOK, Branch!Operations,
       Branch!Commits
  <2>7. Branch!RefsAreMoved'
    BY <1>13 DEF Branch!Restore, Branch!Ends, Branch!Gives, Branch!RefsAreMoved,
       Branch!InputsAreRead, Branch!Undoable, Branch!StageOK,
       Branch!RepositoryOK, Branch!WithoutOK, Branch!RacedOK,
       Branch!Files, Branch!OpOK, Branch!Operations, Branch!Commits
  <2> QED
    BY <2>1, <2>2, <2>3, <2>4, <2>5, <2>6, <2>7
<1>14. CASE Branch!PullForward
  <2>1. Branch!TypeOK'
    <3>1. Branch!StageOK'
      BY <1>14 DEF Branch!PullForward, Branch!Ends, Branch!TargetIndex, Branch!StageOK
    <3>2. Branch!OpOK'
      BY <1>14 DEF Branch!PullForward, Branch!Ends, Branch!TargetIndex, Branch!OpOK,
         Branch!Operations, Branch!Commits, Branch!RepositoryOK,
         Branch!StageOK
    <3>3. Branch!RepositoryOK'
      <4>1. Branch!Tree(v7.old) \in Branch!Files /\ Branch!Tree(v7.new) \in Branch!Files
        BY <1>14
        DEF Branch!PullForward, Branch!Ends, Branch!TargetIndex, Branch!RepositoryOK,
           Branch!StageOK, Branch!OpOK, Branch!Operations, Branch!Files,
           Branch!InputsAreRead, Branch!Commits
      <4>2. v1 \in Branch!Files /\ v2 \in Branch!Files /\ v7.index \in Branch!Files
        BY <1>14
        DEF Branch!PullForward, Branch!Ends, Branch!TargetIndex, Branch!RepositoryOK,
           Branch!StageOK, Branch!OpOK, Branch!Operations, Branch!Files,
           Branch!Commits
      <4>3. Branch!TargetIndex \in Branch!Files
        BY <1>14, <4>1, <4>2
        DEF Branch!PullForward, Branch!Ends, Branch!TargetIndex, Branch!RepositoryOK,
           Branch!StageOK, Branch!OpOK, Branch!Operations, Branch!Files,
           Branch!InputsAreRead, Branch!Commits
      <4> QED
        BY <4>1, <4>2, <4>3, <1>14
        DEF Branch!RepositoryOK, Branch!StageOK, Branch!OpOK, Branch!Operations,
           Branch!Files, Branch!PullForward, Branch!Ends, Branch!Commits
    <3>4. Branch!WithoutOK'
      BY <1>14 DEF Branch!PullForward, Branch!Ends, Branch!TargetIndex, Branch!WithoutOK,
         Branch!RepositoryOK, Branch!Files
    <3>5. Branch!RacedOK'
      BY <1>14 DEF Branch!PullForward, Branch!Ends, Branch!TargetIndex, Branch!RacedOK,
         Branch!OpOK, Branch!Operations
    <3> QED
      BY <3>1, <3>2, <3>3, <3>4, <3>5 DEF Branch!TypeOK
  <2>2. Branch!InputsAreRead'
    BY <1>14 DEF Branch!PullForward, Branch!Ends, Branch!TargetIndex, Branch!InputsAreRead,
       Branch!Old, Branch!New, Branch!Updated, Branch!Undoable,
       Branch!Untried, Branch!StageOK, Branch!RepositoryOK,
       Branch!WithoutOK, Branch!RacedOK, Branch!Files, Branch!OpOK,
       Branch!Operations, Branch!Commits
  <2>3. Branch!FilesAreWritten'
    BY <1>14 DEF Branch!PullForward, Branch!Ends, Branch!TargetIndex,
       Branch!FilesAreWritten, Branch!InputsAreRead, Branch!Written,
       Branch!Old, Branch!New, Branch!Updated, Branch!Undoable,
       Branch!Untried, Branch!StageOK, Branch!RepositoryOK,
       Branch!WithoutOK, Branch!RacedOK, Branch!Files, Branch!OpOK,
       Branch!Operations, Branch!Commits
  <2>4. Branch!IndexIsHeld'
    BY <1>14 DEF Branch!PullForward, Branch!Ends, Branch!TargetIndex, Branch!IndexIsHeld,
       Branch!InputsAreRead, Branch!Old, Branch!New, Branch!Updated,
       Branch!Undoable, Branch!Untried, Branch!StageOK,
       Branch!RepositoryOK, Branch!WithoutOK, Branch!RacedOK,
       Branch!Files, Branch!OpOK, Branch!Operations, Branch!Commits
  <2>5. Branch!IndexIsMerged'
    BY <1>14 DEF Branch!PullForward, Branch!Ends, Branch!TargetIndex, Branch!IndexIsMerged,
       Branch!MergedIndex, Branch!InputsAreRead, Branch!Old, Branch!New,
       Branch!Updated, Branch!Undoable, Branch!Untried, Branch!StageOK,
       Branch!RepositoryOK, Branch!WithoutOK, Branch!RacedOK,
       Branch!Files, Branch!OpOK, Branch!Operations, Branch!Commits
  <2>6. Branch!HeadIsSet'
    BY <1>14 DEF Branch!PullForward, Branch!Ends, Branch!TargetIndex, Branch!HeadIsSet,
       Branch!Undoable, Branch!StageOK, Branch!RepositoryOK,
       Branch!WithoutOK, Branch!RacedOK, Branch!OpOK, Branch!Operations,
       Branch!Commits
  <2>7. Branch!RefsAreMoved'
    BY <1>14 DEF Branch!PullForward, Branch!Ends, Branch!TargetIndex, Branch!RefsAreMoved,
       Branch!InputsAreRead, Branch!Undoable, Branch!StageOK,
       Branch!RepositoryOK, Branch!WithoutOK, Branch!RacedOK,
       Branch!Files, Branch!OpOK, Branch!Operations, Branch!Commits
  <2> QED
    BY <2>1, <2>2, <2>3, <2>4, <2>5, <2>6, <2>7
<1>15. CASE Branch!PullMerge
  <2>1. Branch!TypeOK'
    <3>1. Branch!StageOK'
      BY <1>15 DEF Branch!PullMerge, Branch!Ends, Branch!StageOK
    <3>2. Branch!OpOK'
      BY <1>15 DEF Branch!PullMerge, Branch!Ends, Branch!OpOK, Branch!Operations,
         Branch!Commits, Branch!RepositoryOK, Branch!StageOK
    <3>3. Branch!RepositoryOK'
      <4>1. Branch!Tree(v7.old) \in Branch!Files /\ Branch!Tree(v7.new) \in Branch!Files
        BY <1>15 DEF Branch!PullMerge, Branch!Ends, Branch!RepositoryOK, Branch!StageOK,
           Branch!OpOK, Branch!Operations, Branch!Files,
           Branch!InputsAreRead, Branch!Commits
      <4>2. v1 \in Branch!Files /\ v2 \in Branch!Files /\ v7.index \in Branch!Files
        BY <1>15 DEF Branch!PullMerge, Branch!Ends, Branch!RepositoryOK, Branch!StageOK,
           Branch!OpOK, Branch!Operations, Branch!Files, Branch!Commits
      <4>3. Branch!Tree(v7.old \cup v7.new) \in Branch!Files
        BY <1>15, <4>1, <4>2
        DEF Branch!PullMerge, Branch!Ends, Branch!RepositoryOK, Branch!StageOK,
           Branch!OpOK, Branch!Operations, Branch!Files,
           Branch!InputsAreRead, Branch!Commits
      <4> QED
        BY <4>1, <4>2, <4>3, <1>15
        DEF Branch!RepositoryOK, Branch!StageOK, Branch!OpOK, Branch!Operations,
           Branch!Files, Branch!PullMerge, Branch!Ends, Branch!Commits
    <3>4. Branch!WithoutOK'
      BY <1>15 DEF Branch!PullMerge, Branch!Ends, Branch!WithoutOK, Branch!RepositoryOK,
         Branch!Files
    <3>5. Branch!RacedOK'
      BY <1>15 DEF Branch!PullMerge, Branch!Ends, Branch!RacedOK, Branch!OpOK,
         Branch!Operations
    <3> QED
      BY <3>1, <3>2, <3>3, <3>4, <3>5 DEF Branch!TypeOK
  <2>2. Branch!InputsAreRead'
    BY <1>15 DEF Branch!PullMerge, Branch!Ends, Branch!InputsAreRead, Branch!Old,
       Branch!New, Branch!Updated, Branch!Undoable, Branch!Untried,
       Branch!StageOK, Branch!RepositoryOK, Branch!WithoutOK,
       Branch!RacedOK, Branch!Files, Branch!OpOK, Branch!Operations,
       Branch!Commits
  <2>3. Branch!FilesAreWritten'
    BY <1>15 DEF Branch!PullMerge, Branch!Ends, Branch!FilesAreWritten,
       Branch!InputsAreRead, Branch!Written, Branch!Old, Branch!New,
       Branch!Updated, Branch!Undoable, Branch!Untried, Branch!StageOK,
       Branch!RepositoryOK, Branch!WithoutOK, Branch!RacedOK,
       Branch!Files, Branch!OpOK, Branch!Operations, Branch!Commits
  <2>4. Branch!IndexIsHeld'
    BY <1>15 DEF Branch!PullMerge, Branch!Ends, Branch!IndexIsHeld, Branch!InputsAreRead,
       Branch!Old, Branch!New, Branch!Updated, Branch!Undoable,
       Branch!Untried, Branch!StageOK, Branch!RepositoryOK,
       Branch!WithoutOK, Branch!RacedOK, Branch!Files, Branch!OpOK,
       Branch!Operations, Branch!Commits
  <2>5. Branch!IndexIsMerged'
    BY <1>15 DEF Branch!PullMerge, Branch!Ends, Branch!IndexIsMerged, Branch!MergedIndex,
       Branch!InputsAreRead, Branch!Old, Branch!New, Branch!Updated,
       Branch!Undoable, Branch!Untried, Branch!StageOK,
       Branch!RepositoryOK, Branch!WithoutOK, Branch!RacedOK,
       Branch!Files, Branch!OpOK, Branch!Operations, Branch!Commits
  <2>6. Branch!HeadIsSet'
    BY <1>15 DEF Branch!PullMerge, Branch!Ends, Branch!HeadIsSet, Branch!Undoable,
       Branch!StageOK, Branch!RepositoryOK, Branch!WithoutOK,
       Branch!RacedOK, Branch!OpOK, Branch!Operations, Branch!Commits
  <2>7. Branch!RefsAreMoved'
    BY <1>15 DEF Branch!PullMerge, Branch!Ends, Branch!RefsAreMoved, Branch!InputsAreRead,
       Branch!Undoable, Branch!StageOK, Branch!RepositoryOK,
       Branch!WithoutOK, Branch!RacedOK, Branch!Files, Branch!OpOK,
       Branch!Operations, Branch!Commits
  <2> QED
    BY <2>1, <2>2, <2>3, <2>4, <2>5, <2>6, <2>7
<1>16. CASE Branch!PullCommit
  <2>1. Branch!TypeOK'
    <3>1. Branch!StageOK'
      BY <1>16 DEF Branch!PullCommit, Branch!Ends, Branch!StageOK
    <3>2. Branch!OpOK'
      BY <1>16 DEF Branch!PullCommit, Branch!Ends, Branch!OpOK, Branch!Operations,
         Branch!Commits, Branch!RepositoryOK, Branch!StageOK
    <3>3. Branch!RepositoryOK'
      BY <1>16 DEF Branch!PullCommit, Branch!Ends, Branch!RepositoryOK, Branch!StageOK,
         Branch!OpOK, Branch!Operations, Branch!Files
    <3>4. Branch!WithoutOK'
      BY <1>16 DEF Branch!PullCommit, Branch!Ends, Branch!WithoutOK, Branch!RepositoryOK,
         Branch!Files
    <3>5. Branch!RacedOK'
      BY <1>16 DEF Branch!PullCommit, Branch!Ends, Branch!RacedOK, Branch!OpOK,
         Branch!Operations
    <3> QED
      BY <3>1, <3>2, <3>3, <3>4, <3>5 DEF Branch!TypeOK
  <2>2. Branch!InputsAreRead'
    BY <1>16 DEF Branch!PullCommit, Branch!Ends, Branch!InputsAreRead, Branch!Old,
       Branch!New, Branch!Updated, Branch!Undoable, Branch!Untried,
       Branch!StageOK, Branch!RepositoryOK, Branch!WithoutOK,
       Branch!RacedOK, Branch!Files, Branch!OpOK, Branch!Operations,
       Branch!Commits
  <2>3. Branch!FilesAreWritten'
    BY <1>16 DEF Branch!PullCommit, Branch!Ends, Branch!FilesAreWritten,
       Branch!InputsAreRead, Branch!Written, Branch!Old, Branch!New,
       Branch!Updated, Branch!Undoable, Branch!Untried, Branch!StageOK,
       Branch!RepositoryOK, Branch!WithoutOK, Branch!RacedOK,
       Branch!Files, Branch!OpOK, Branch!Operations, Branch!Commits
  <2>4. Branch!IndexIsHeld'
    BY <1>16 DEF Branch!PullCommit, Branch!Ends, Branch!IndexIsHeld, Branch!InputsAreRead,
       Branch!Old, Branch!New, Branch!Updated, Branch!Undoable,
       Branch!Untried, Branch!StageOK, Branch!RepositoryOK,
       Branch!WithoutOK, Branch!RacedOK, Branch!Files, Branch!OpOK,
       Branch!Operations, Branch!Commits
  <2>5. Branch!IndexIsMerged'
    BY <1>16 DEF Branch!PullCommit, Branch!Ends, Branch!IndexIsMerged, Branch!MergedIndex,
       Branch!InputsAreRead, Branch!Old, Branch!New, Branch!Updated,
       Branch!Undoable, Branch!Untried, Branch!StageOK,
       Branch!RepositoryOK, Branch!WithoutOK, Branch!RacedOK,
       Branch!Files, Branch!OpOK, Branch!Operations, Branch!Commits
  <2>6. Branch!HeadIsSet'
    BY <1>16 DEF Branch!PullCommit, Branch!Ends, Branch!HeadIsSet, Branch!Undoable,
       Branch!StageOK, Branch!RepositoryOK, Branch!WithoutOK,
       Branch!RacedOK, Branch!OpOK, Branch!Operations, Branch!Commits
  <2>7. Branch!RefsAreMoved'
    BY <1>16 DEF Branch!PullCommit, Branch!Ends, Branch!RefsAreMoved, Branch!InputsAreRead,
       Branch!Undoable, Branch!StageOK, Branch!RepositoryOK,
       Branch!WithoutOK, Branch!RacedOK, Branch!Files, Branch!OpOK,
       Branch!Operations, Branch!Commits
  <2> QED
    BY <2>1, <2>2, <2>3, <2>4, <2>5, <2>6, <2>7
<1>17. CASE Branch!FileOperations
  <2>1. Branch!TypeOK'
    <3>1. Branch!StageOK'
      BY <1>17 DEF Branch!FileOperations, Branch!StageOK
    <3>2. Branch!OpOK'
      BY <1>17 DEF Branch!FileOperations, Branch!OpOK, Branch!Operations, Branch!Commits,
         Branch!RepositoryOK, Branch!StageOK
    <3>3. Branch!RepositoryOK'
      BY <1>17 DEF Branch!FileOperations, Branch!RepositoryOK, Branch!StageOK, Branch!OpOK,
         Branch!Operations, Branch!Files
    <3>4. Branch!WithoutOK'
      BY <1>17
      DEF Branch!FileOperations, Branch!WithoutOK, Branch!RepositoryOK, Branch!Files
    <3>5. Branch!RacedOK'
      BY <1>17 DEF Branch!FileOperations, Branch!RacedOK, Branch!OpOK, Branch!Operations
    <3> QED
      BY <3>1, <3>2, <3>3, <3>4, <3>5 DEF Branch!TypeOK
  <2>2. Branch!InputsAreRead'
    BY <1>17 DEF Branch!FileOperations, Branch!InputsAreRead, Branch!Old, Branch!New,
       Branch!Updated, Branch!Undoable, Branch!Untried, Branch!StageOK,
       Branch!RepositoryOK, Branch!WithoutOK, Branch!RacedOK,
       Branch!Files, Branch!OpOK, Branch!Operations, Branch!Commits
  <2>3. Branch!FilesAreWritten'
    BY <1>17 DEF Branch!FileOperations, Branch!FilesAreWritten, Branch!InputsAreRead,
       Branch!Written, Branch!Old, Branch!New, Branch!Updated,
       Branch!Undoable, Branch!Untried, Branch!StageOK,
       Branch!RepositoryOK, Branch!WithoutOK, Branch!RacedOK,
       Branch!Files, Branch!OpOK, Branch!Operations, Branch!Commits
  <2>4. Branch!IndexIsHeld'
    BY <1>17 DEF Branch!FileOperations, Branch!IndexIsHeld, Branch!InputsAreRead,
       Branch!Old, Branch!New, Branch!Updated, Branch!Undoable,
       Branch!Untried, Branch!StageOK, Branch!RepositoryOK,
       Branch!WithoutOK, Branch!RacedOK, Branch!Files, Branch!OpOK,
       Branch!Operations, Branch!Commits
  <2>5. Branch!IndexIsMerged'
    BY <1>17 DEF Branch!FileOperations, Branch!IndexIsMerged, Branch!MergedIndex,
       Branch!InputsAreRead, Branch!Old, Branch!New, Branch!Updated,
       Branch!Undoable, Branch!Untried, Branch!StageOK,
       Branch!RepositoryOK, Branch!WithoutOK, Branch!RacedOK,
       Branch!Files, Branch!OpOK, Branch!Operations, Branch!Commits
  <2>6. Branch!HeadIsSet'
    BY <1>17 DEF Branch!FileOperations, Branch!HeadIsSet, Branch!Undoable, Branch!StageOK,
       Branch!RepositoryOK, Branch!WithoutOK, Branch!RacedOK, Branch!OpOK,
       Branch!Operations, Branch!Commits
  <2>7. Branch!RefsAreMoved'
    BY <1>17 DEF Branch!FileOperations, Branch!RefsAreMoved, Branch!InputsAreRead,
       Branch!Undoable, Branch!StageOK, Branch!RepositoryOK,
       Branch!WithoutOK, Branch!RacedOK, Branch!Files, Branch!OpOK,
       Branch!Operations, Branch!Commits
  <2> QED
    BY <2>1, <2>2, <2>3, <2>4, <2>5, <2>6, <2>7
<1>18. CASE Branch!Uncommit
  <2>1. Branch!TypeOK'
    <3>1. Branch!StageOK'
      BY <1>18 DEF Branch!Uncommit, Branch!StageOK
    <3>2. Branch!OpOK'
      BY <1>18 DEF Branch!Uncommit, Branch!OpOK, Branch!Operations, Branch!Commits,
         Branch!RepositoryOK, Branch!StageOK
    <3>3. Branch!RepositoryOK'
      BY <1>18, ParentsAreCommits
      DEF Branch!Uncommit, Branch!RepositoryOK, Branch!StageOK, Branch!OpOK,
         Branch!Operations, Branch!Files
    <3>4. Branch!WithoutOK'
      BY <1>18 DEF Branch!Uncommit, Branch!WithoutOK, Branch!RepositoryOK, Branch!Files
    <3>5. Branch!RacedOK'
      BY <1>18 DEF Branch!Uncommit, Branch!RacedOK, Branch!OpOK, Branch!Operations
    <3> QED
      BY <3>1, <3>2, <3>3, <3>4, <3>5 DEF Branch!TypeOK
  <2>2. Branch!InputsAreRead'
    BY <1>18 DEF Branch!Uncommit, Branch!InputsAreRead, Branch!Old, Branch!New,
       Branch!Updated, Branch!Undoable, Branch!Untried, Branch!StageOK,
       Branch!RepositoryOK, Branch!WithoutOK, Branch!RacedOK,
       Branch!Files, Branch!OpOK, Branch!Operations, Branch!Commits
  <2>3. Branch!FilesAreWritten'
    BY <1>18 DEF Branch!Uncommit, Branch!FilesAreWritten, Branch!InputsAreRead,
       Branch!Written, Branch!Old, Branch!New, Branch!Updated,
       Branch!Undoable, Branch!Untried, Branch!StageOK,
       Branch!RepositoryOK, Branch!WithoutOK, Branch!RacedOK,
       Branch!Files, Branch!OpOK, Branch!Operations, Branch!Commits
  <2>4. Branch!IndexIsHeld'
    BY <1>18 DEF Branch!Uncommit, Branch!IndexIsHeld, Branch!InputsAreRead, Branch!Old,
       Branch!New, Branch!Updated, Branch!Undoable, Branch!Untried,
       Branch!StageOK, Branch!RepositoryOK, Branch!WithoutOK,
       Branch!RacedOK, Branch!Files, Branch!OpOK, Branch!Operations,
       Branch!Commits
  <2>5. Branch!IndexIsMerged'
    BY <1>18 DEF Branch!Uncommit, Branch!IndexIsMerged, Branch!MergedIndex,
       Branch!InputsAreRead, Branch!Old, Branch!New, Branch!Updated,
       Branch!Undoable, Branch!Untried, Branch!StageOK,
       Branch!RepositoryOK, Branch!WithoutOK, Branch!RacedOK,
       Branch!Files, Branch!OpOK, Branch!Operations, Branch!Commits
  <2>6. Branch!HeadIsSet'
    BY <1>18 DEF Branch!Uncommit, Branch!HeadIsSet, Branch!Undoable, Branch!StageOK,
       Branch!RepositoryOK, Branch!WithoutOK, Branch!RacedOK, Branch!OpOK,
       Branch!Operations, Branch!Commits
  <2>7. Branch!RefsAreMoved'
    BY <1>18 DEF Branch!Uncommit, Branch!RefsAreMoved, Branch!InputsAreRead,
       Branch!Undoable, Branch!StageOK, Branch!RepositoryOK,
       Branch!WithoutOK, Branch!RacedOK, Branch!Files, Branch!OpOK,
       Branch!Operations, Branch!Commits
  <2> QED
    BY <2>1, <2>2, <2>3, <2>4, <2>5, <2>6, <2>7
<1>19. CASE Branch!DeleteBranch
  <2>1. Branch!TypeOK'
    <3>1. Branch!StageOK'
      BY <1>19 DEF Branch!DeleteBranch, Branch!StageOK
    <3>2. Branch!OpOK'
      BY <1>19 DEF Branch!DeleteBranch, Branch!OpOK, Branch!Operations, Branch!Commits,
         Branch!RepositoryOK, Branch!StageOK
    <3>3. Branch!RepositoryOK'
      BY <1>19, TipsAreCommits
      DEF Branch!DeleteBranch, Branch!RepositoryOK, Branch!StageOK, Branch!OpOK,
         Branch!Operations, Branch!Files
    <3>4. Branch!WithoutOK'
      BY <1>19 DEF Branch!DeleteBranch, Branch!WithoutOK, Branch!RepositoryOK, Branch!Files
    <3>5. Branch!RacedOK'
      BY <1>19 DEF Branch!DeleteBranch, Branch!RacedOK, Branch!OpOK, Branch!Operations
    <3> QED
      BY <3>1, <3>2, <3>3, <3>4, <3>5 DEF Branch!TypeOK
  <2>2. Branch!InputsAreRead'
    BY <1>19 DEF Branch!DeleteBranch, Branch!InputsAreRead, Branch!Old, Branch!New,
       Branch!Updated, Branch!Undoable, Branch!Untried, Branch!StageOK,
       Branch!RepositoryOK, Branch!WithoutOK, Branch!RacedOK,
       Branch!Files, Branch!OpOK, Branch!Operations, Branch!Commits
  <2>3. Branch!FilesAreWritten'
    BY <1>19 DEF Branch!DeleteBranch, Branch!FilesAreWritten, Branch!InputsAreRead,
       Branch!Written, Branch!Old, Branch!New, Branch!Updated,
       Branch!Undoable, Branch!Untried, Branch!StageOK,
       Branch!RepositoryOK, Branch!WithoutOK, Branch!RacedOK,
       Branch!Files, Branch!OpOK, Branch!Operations, Branch!Commits
  <2>4. Branch!IndexIsHeld'
    BY <1>19 DEF Branch!DeleteBranch, Branch!IndexIsHeld, Branch!InputsAreRead, Branch!Old,
       Branch!New, Branch!Updated, Branch!Undoable, Branch!Untried,
       Branch!StageOK, Branch!RepositoryOK, Branch!WithoutOK,
       Branch!RacedOK, Branch!Files, Branch!OpOK, Branch!Operations,
       Branch!Commits
  <2>5. Branch!IndexIsMerged'
    BY <1>19 DEF Branch!DeleteBranch, Branch!IndexIsMerged, Branch!MergedIndex,
       Branch!InputsAreRead, Branch!Old, Branch!New, Branch!Updated,
       Branch!Undoable, Branch!Untried, Branch!StageOK,
       Branch!RepositoryOK, Branch!WithoutOK, Branch!RacedOK,
       Branch!Files, Branch!OpOK, Branch!Operations, Branch!Commits
  <2>6. Branch!HeadIsSet'
    BY <1>19 DEF Branch!DeleteBranch, Branch!HeadIsSet, Branch!Undoable, Branch!StageOK,
       Branch!RepositoryOK, Branch!WithoutOK, Branch!RacedOK, Branch!OpOK,
       Branch!Operations, Branch!Commits
  <2>7. Branch!RefsAreMoved'
    BY <1>19 DEF Branch!DeleteBranch, Branch!RefsAreMoved, Branch!InputsAreRead,
       Branch!Undoable, Branch!StageOK, Branch!RepositoryOK,
       Branch!WithoutOK, Branch!RacedOK, Branch!Files, Branch!OpOK,
       Branch!Operations, Branch!Commits
  <2> QED
    BY <2>1, <2>2, <2>3, <2>4, <2>5, <2>6, <2>7
<1>20. CASE Branch!Acknowledge
  <2>1. Branch!TypeOK'
    <3>1. Branch!StageOK'
      BY <1>20 DEF Branch!Acknowledge, Branch!NoRace, Branch!StageOK, Branch!NoOp
    <3>2. Branch!OpOK'
      BY <1>20, OpBegins
      DEF Branch!Acknowledge, Branch!NoRace, Branch!OpOK, Branch!Operations,
         Branch!Commits, Branch!RepositoryOK, Branch!StageOK
    <3>3. Branch!RepositoryOK'
      BY <1>20 DEF Branch!Acknowledge, Branch!NoRace, Branch!RepositoryOK, Branch!StageOK,
         Branch!OpOK, Branch!Operations, Branch!Files, Branch!NoOp
    <3>4. Branch!WithoutOK'
      BY <1>20, UntouchedIsWhole
      DEF Branch!Acknowledge, Branch!NoRace, Branch!WithoutOK, Branch!RepositoryOK,
         Branch!Files
    <3>5. Branch!RacedOK'
      BY <1>20 DEF Branch!Acknowledge, Branch!NoRace, Branch!RacedOK, Branch!OpOK,
         Branch!Operations
    <3> QED
      BY <3>1, <3>2, <3>3, <3>4, <3>5 DEF Branch!TypeOK
  <2>2. Branch!InputsAreRead'
    BY <1>20 DEF Branch!Acknowledge, Branch!NoRace, Branch!InputsAreRead, Branch!Old,
       Branch!New, Branch!Updated, Branch!Undoable, Branch!Untried,
       Branch!StageOK, Branch!RepositoryOK, Branch!WithoutOK,
       Branch!RacedOK, Branch!Files, Branch!OpOK, Branch!Operations,
       Branch!Commits, Branch!NoOp
  <2>3. Branch!FilesAreWritten'
    BY <1>20 DEF Branch!Acknowledge, Branch!NoRace, Branch!FilesAreWritten,
       Branch!InputsAreRead, Branch!Written, Branch!Old, Branch!New,
       Branch!Updated, Branch!Undoable, Branch!Untried, Branch!StageOK,
       Branch!RepositoryOK, Branch!WithoutOK, Branch!RacedOK,
       Branch!Files, Branch!OpOK, Branch!Operations, Branch!Commits,
       Branch!NoOp
  <2>4. Branch!IndexIsHeld'
    BY <1>20 DEF Branch!Acknowledge, Branch!NoRace, Branch!IndexIsHeld,
       Branch!InputsAreRead, Branch!Old, Branch!New, Branch!Updated,
       Branch!Undoable, Branch!Untried, Branch!StageOK,
       Branch!RepositoryOK, Branch!WithoutOK, Branch!RacedOK,
       Branch!Files, Branch!OpOK, Branch!Operations, Branch!Commits,
       Branch!NoOp
  <2>5. Branch!IndexIsMerged'
    BY <1>20 DEF Branch!Acknowledge, Branch!NoRace, Branch!IndexIsMerged,
       Branch!MergedIndex, Branch!InputsAreRead, Branch!Old, Branch!New,
       Branch!Updated, Branch!Undoable, Branch!Untried, Branch!StageOK,
       Branch!RepositoryOK, Branch!WithoutOK, Branch!RacedOK,
       Branch!Files, Branch!OpOK, Branch!Operations, Branch!Commits,
       Branch!NoOp
  <2>6. Branch!HeadIsSet'
    BY <1>20 DEF Branch!Acknowledge, Branch!NoRace, Branch!HeadIsSet, Branch!Undoable,
       Branch!StageOK, Branch!RepositoryOK, Branch!WithoutOK,
       Branch!RacedOK, Branch!OpOK, Branch!Operations, Branch!Commits,
       Branch!NoOp
  <2>7. Branch!RefsAreMoved'
    BY <1>20 DEF Branch!Acknowledge, Branch!NoRace, Branch!RefsAreMoved,
       Branch!InputsAreRead, Branch!Undoable, Branch!StageOK,
       Branch!RepositoryOK, Branch!WithoutOK, Branch!RacedOK,
       Branch!Files, Branch!OpOK, Branch!Operations, Branch!Commits,
       Branch!NoOp
  <2> QED
    BY <2>1, <2>2, <2>3, <2>4, <2>5, <2>6, <2>7
<1>21. ASSUME NEW p \in Branch!Paths, Branch!EditFile(p) PROVE Branch!IInv'
  <2>1. Branch!TypeOK'
    <3>1. Branch!StageOK'
      BY <1>21 DEF Branch!EditFile, Branch!Also, Branch!StageOK
    <3>2. Branch!OpOK'
      BY <1>21 DEF Branch!EditFile, Branch!Also, Branch!OpOK, Branch!Operations,
         Branch!Commits, Branch!RepositoryOK, Branch!StageOK
    <3>3. Branch!RepositoryOK'
      BY <1>21 DEF Branch!EditFile, Branch!Also, Branch!RepositoryOK, Branch!StageOK,
         Branch!OpOK, Branch!Operations, Branch!Files
    <3>4. Branch!WithoutOK'
      BY <1>21 DEF Branch!EditFile, Branch!Also, Branch!WithoutOK, Branch!RepositoryOK,
         Branch!Files
    <3>5. Branch!RacedOK'
      BY <1>21 DEF Branch!EditFile, Branch!Also, Branch!RacedOK, Branch!OpOK,
         Branch!Operations
    <3> QED
      BY <3>1, <3>2, <3>3, <3>4, <3>5 DEF Branch!TypeOK
  <2>2. Branch!InputsAreRead'
    BY <1>21 DEF Branch!EditFile, Branch!Also, Branch!InputsAreRead, Branch!Old,
       Branch!New, Branch!Updated, Branch!Undoable, Branch!Untried,
       Branch!StageOK, Branch!RepositoryOK, Branch!WithoutOK,
       Branch!RacedOK, Branch!Files, Branch!OpOK, Branch!Operations,
       Branch!Commits
  <2>3. Branch!FilesAreWritten'
    <3>1. CASE ~Branch!Undoable
      BY <1>21, <3>1
         DEF Branch!EditFile, Branch!Also, Branch!FilesAreWritten, Branch!Undoable
    <3>2. CASE Branch!Undoable
      <4>1. /\ v1' = [v1 EXCEPT ![p] = 0] /\ v9'.worktree = [v9.worktree EXCEPT ![p] = 0]
             /\ UNCHANGED <<v6, v7>>
             /\ v10'.edits = IF v6 = "restore" THEN v10.edits \cup {p} ELSE v10.edits
        BY <1>21, <3>2 DEF Branch!EditFile, Branch!Also, Branch!Undoable, Branch!StageOK,
               Branch!WithoutOK, Branch!RacedOK
      <4>2. Branch!Old[p] # 0
        BY <3>2 DEF Branch!Old, Branch!InputsAreRead, Branch!Undoable, Branch!OpOK,
               Branch!Operations
      <4>3. /\ v1'[p] = 0 /\ v9'.worktree[p] = 0
             /\ \A q \in Branch!Paths \ {p} :
                  v1'[q] = v1[q] /\ v9'.worktree[q] = v9.worktree[q]
        BY <4>1 DEF Branch!RepositoryOK, Branch!WithoutOK, Branch!Files
      <4>4. v6 \in Branch!Untried => v1' = v9'.worktree
        BY <4>1, <3>2 DEF Branch!FilesAreWritten
      <4>5. v6 \in {"lock", "apply"} =>
               \A q \in Branch!Updated \ v7.clean : v1'[q] # Branch!Old[q]
        BY <4>2, <4>3, <3>2 DEF Branch!FilesAreWritten, Branch!Updated, Branch!Changed
      <4>6. v6 \in {"head", "install", "index", "ref", "rollback", "done"} =>
               \A q \in Branch!Paths :
                  v1'[q] = v9'.worktree[q] \/ Branch!Written(q)'
        BY <4>1, <4>3, <3>2
           DEF Branch!FilesAreWritten, Branch!Written, Branch!New, Branch!Old
      <4>7. v6 = "restore" /\ ~v7.torn =>
               \A q \in Branch!Paths \ v10'.edits :
                  IF q \in v7.restore THEN v9'.worktree[q] = Branch!Old[q]
                  ELSE v1'[q] = v9'.worktree[q]
        BY <4>1, <4>3, <3>2 DEF Branch!FilesAreWritten
      <4>8. v6 \in {"restoreIndex", "failed"} /\ ~v7.torn =>
               \A q \in Branch!Paths \ v10'.edits : v1'[q] = v9'.worktree[q]
        BY <4>1, <4>3, <3>2 DEF Branch!FilesAreWritten
      <4> QED
        BY <4>1, <4>4, <4>5, <4>6, <4>7, <4>8
           DEF Branch!FilesAreWritten, Branch!Untried, Branch!Updated, Branch!Old
    <3> QED
      BY <3>1, <3>2
  <2>4. Branch!IndexIsHeld'
    BY <1>21 DEF Branch!EditFile, Branch!Also, Branch!IndexIsHeld, Branch!InputsAreRead,
       Branch!Old, Branch!New, Branch!Updated, Branch!Undoable,
       Branch!Untried, Branch!StageOK, Branch!RepositoryOK,
       Branch!WithoutOK, Branch!RacedOK, Branch!Files, Branch!OpOK,
       Branch!Operations, Branch!Commits
  <2>5. Branch!IndexIsMerged'
    BY <1>21 DEF Branch!EditFile, Branch!Also, Branch!IndexIsMerged, Branch!MergedIndex,
       Branch!InputsAreRead, Branch!Old, Branch!New, Branch!Updated,
       Branch!Undoable, Branch!Untried, Branch!StageOK,
       Branch!RepositoryOK, Branch!WithoutOK, Branch!RacedOK,
       Branch!Files, Branch!OpOK, Branch!Operations, Branch!Commits
  <2>6. Branch!HeadIsSet'
    BY <1>21 DEF Branch!EditFile, Branch!Also, Branch!HeadIsSet, Branch!Undoable,
       Branch!StageOK, Branch!RepositoryOK, Branch!WithoutOK,
       Branch!RacedOK, Branch!OpOK, Branch!Operations, Branch!Commits
  <2>7. Branch!RefsAreMoved'
    BY <1>21 DEF Branch!EditFile, Branch!Also, Branch!RefsAreMoved, Branch!InputsAreRead,
       Branch!Undoable, Branch!StageOK, Branch!RepositoryOK,
       Branch!WithoutOK, Branch!RacedOK, Branch!Files, Branch!OpOK,
       Branch!Operations, Branch!Commits
  <2> QED
    BY <2>1, <2>2, <2>3, <2>4, <2>5, <2>6, <2>7
<1>22. CASE Branch!StageElsewhere
  <2>1. Branch!TypeOK'
    <3>1. Branch!StageOK'
      BY <1>22 DEF Branch!StageElsewhere, Branch!Also, Branch!Races, Branch!StageOK
    <3>2. Branch!OpOK'
      BY <1>22 DEF Branch!StageElsewhere, Branch!Also, Branch!Races, Branch!OpOK,
         Branch!Operations, Branch!Commits, Branch!RepositoryOK,
         Branch!StageOK
    <3>3. Branch!RepositoryOK'
      BY <1>22 DEF Branch!StageElsewhere, Branch!Also, Branch!Races, Branch!RepositoryOK,
         Branch!StageOK, Branch!OpOK, Branch!Operations, Branch!Files
    <3>4. Branch!WithoutOK'
      BY <1>22 DEF Branch!StageElsewhere, Branch!Also, Branch!Races, Branch!WithoutOK,
         Branch!RepositoryOK, Branch!Files
    <3>5. Branch!RacedOK'
      BY <1>22 DEF Branch!StageElsewhere, Branch!Also, Branch!Races, Branch!RacedOK,
         Branch!OpOK, Branch!Operations
    <3> QED
      BY <3>1, <3>2, <3>3, <3>4, <3>5 DEF Branch!TypeOK
  <2>2. Branch!InputsAreRead'
    BY <1>22 DEF Branch!StageElsewhere, Branch!Also, Branch!Races, Branch!InputsAreRead,
       Branch!Old, Branch!New, Branch!Updated, Branch!Undoable,
       Branch!Untried, Branch!StageOK, Branch!RepositoryOK,
       Branch!WithoutOK, Branch!RacedOK, Branch!Files, Branch!OpOK,
       Branch!Operations, Branch!Commits
  <2>3. Branch!FilesAreWritten'
    BY <1>22 DEF Branch!StageElsewhere, Branch!Also, Branch!Races, Branch!FilesAreWritten,
       Branch!InputsAreRead, Branch!Written, Branch!Old, Branch!New,
       Branch!Updated, Branch!Undoable, Branch!Untried, Branch!StageOK,
       Branch!RepositoryOK, Branch!WithoutOK, Branch!RacedOK,
       Branch!Files, Branch!OpOK, Branch!Operations, Branch!Commits
  <2>4. Branch!IndexIsHeld'
    <3>1. CASE v6 = "idle"
      BY <1>22, <3>1
         DEF Branch!StageElsewhere, Branch!Also, Branch!Races, Branch!IndexIsHeld,
             Branch!StageOK
    <3>2. CASE v6 # "idle"
      <4>1. PICK p \in Branch!Paths :
               v2' = [v2 EXCEPT ![p] = 0] /\ v9' = [v9 EXCEPT !.index[p] = 0]
        BY <1>22, <3>2 DEF Branch!StageElsewhere, Branch!Also, Branch!Races
      <4>2. v9'.index = [v9.index EXCEPT ![p] = 0]
        BY <4>1 DEF Branch!WithoutOK
      <4>3. v5 = "free" /\ UNCHANGED <<v5, v6, v7>>
        BY <1>22 DEF Branch!StageElsewhere, Branch!Also, Branch!Races
      <4> QED
        BY <4>1, <4>2, <4>3
           DEF Branch!IndexIsHeld, Branch!RepositoryOK, Branch!WithoutOK, Branch!Files,
               Branch!Updated
    <3> QED
      BY <3>1, <3>2
  <2>5. Branch!IndexIsMerged'
    BY <1>22 DEF Branch!StageElsewhere, Branch!Also, Branch!Races, Branch!IndexIsMerged,
       Branch!MergedIndex, Branch!InputsAreRead, Branch!Old, Branch!New,
       Branch!Updated, Branch!Undoable, Branch!Untried, Branch!StageOK,
       Branch!RepositoryOK, Branch!WithoutOK, Branch!RacedOK,
       Branch!Files, Branch!OpOK, Branch!Operations, Branch!Commits
  <2>6. Branch!HeadIsSet'
    BY <1>22 DEF Branch!StageElsewhere, Branch!Also, Branch!Races, Branch!HeadIsSet,
       Branch!Undoable, Branch!StageOK, Branch!RepositoryOK,
       Branch!WithoutOK, Branch!RacedOK, Branch!OpOK, Branch!Operations,
       Branch!Commits
  <2>7. Branch!RefsAreMoved'
    BY <1>22 DEF Branch!StageElsewhere, Branch!Also, Branch!Races, Branch!RefsAreMoved,
       Branch!InputsAreRead, Branch!Undoable, Branch!StageOK,
       Branch!RepositoryOK, Branch!WithoutOK, Branch!RacedOK,
       Branch!Files, Branch!OpOK, Branch!Operations, Branch!Commits
  <2> QED
    BY <2>1, <2>2, <2>3, <2>4, <2>5, <2>6, <2>7
<1>23. CASE Branch!MoveElsewhere
  <2>1. Branch!TypeOK'
    <3>1. Branch!StageOK'
      BY <1>23 DEF Branch!MoveElsewhere, Branch!Also, Branch!Races, Branch!StageOK
    <3>2. Branch!OpOK'
      BY <1>23 DEF Branch!MoveElsewhere, Branch!Also, Branch!Races, Branch!OpOK,
         Branch!Operations, Branch!Commits, Branch!RepositoryOK,
         Branch!StageOK
    <3>3. Branch!RepositoryOK'
      BY <1>23 DEF Branch!MoveElsewhere, Branch!Also, Branch!Races, Branch!RepositoryOK,
         Branch!StageOK, Branch!OpOK, Branch!Operations, Branch!Files,
         Branch!Commits
    <3>4. Branch!WithoutOK'
      <4>1. CASE v6 = "idle"
        BY <1>23, <4>1
           DEF Branch!MoveElsewhere, Branch!Also, Branch!Races, Branch!WithoutOK
      <4>2. ASSUME v6 # "idle", NEW b \in Branch!Branches, NEW o \in Branch!Originals,
                    v4' = [v4 EXCEPT ![b] = {o}], v9' = [v9 EXCEPT !.refs[b] = {o}]
             PROVE  Branch!WithoutOK'
        <5>1. {o} \in Branch!Commits
          BY DEF Branch!Commits
        <5> QED
          BY <4>2, <5>1, WithoutIsKept, Zenon DEF Branch!WithoutOK
      <4>3. ASSUME v6 # "idle", NEW b \in Branch!Branches,
                    v4' = v4, v9' = [v9 EXCEPT !.head = b]
             PROVE  Branch!WithoutOK'
        BY <4>3, WithoutIsKept DEF Branch!WithoutOK
      <4> QED
        BY <1>23, <4>1, <4>2, <4>3 DEF Branch!MoveElsewhere, Branch!Also, Branch!Races
    <3>5. Branch!RacedOK'
      BY <1>23 DEF Branch!MoveElsewhere, Branch!Also, Branch!Races, Branch!RacedOK,
         Branch!OpOK, Branch!Operations
    <3> QED
      BY <3>1, <3>2, <3>3, <3>4, <3>5 DEF Branch!TypeOK
  <2>2. Branch!InputsAreRead'
    BY <1>23 DEF Branch!MoveElsewhere, Branch!Also, Branch!Races, Branch!InputsAreRead,
       Branch!Old, Branch!New, Branch!Updated, Branch!Undoable,
       Branch!Untried, Branch!StageOK, Branch!RepositoryOK,
       Branch!WithoutOK, Branch!RacedOK, Branch!Files, Branch!OpOK,
       Branch!Operations, Branch!Commits
  <2>3. Branch!FilesAreWritten'
    BY <1>23 DEF Branch!MoveElsewhere, Branch!Also, Branch!Races, Branch!FilesAreWritten,
       Branch!InputsAreRead, Branch!Written, Branch!Old, Branch!New,
       Branch!Updated, Branch!Undoable, Branch!Untried, Branch!StageOK,
       Branch!RepositoryOK, Branch!WithoutOK, Branch!RacedOK,
       Branch!Files, Branch!OpOK, Branch!Operations, Branch!Commits
  <2>4. Branch!IndexIsHeld'
    BY <1>23 DEF Branch!MoveElsewhere, Branch!Also, Branch!Races, Branch!IndexIsHeld,
       Branch!InputsAreRead, Branch!Old, Branch!New, Branch!Updated,
       Branch!Undoable, Branch!Untried, Branch!StageOK,
       Branch!RepositoryOK, Branch!WithoutOK, Branch!RacedOK,
       Branch!Files, Branch!OpOK, Branch!Operations, Branch!Commits
  <2>5. Branch!IndexIsMerged'
    BY <1>23 DEF Branch!MoveElsewhere, Branch!Also, Branch!Races, Branch!IndexIsMerged,
       Branch!MergedIndex, Branch!InputsAreRead, Branch!Old, Branch!New,
       Branch!Updated, Branch!Undoable, Branch!Untried, Branch!StageOK,
       Branch!RepositoryOK, Branch!WithoutOK, Branch!RacedOK,
       Branch!Files, Branch!OpOK, Branch!Operations, Branch!Commits
  <2>6. Branch!HeadIsSet'
    BY <1>23 DEF Branch!MoveElsewhere, Branch!Also, Branch!Races, Branch!HeadIsSet,
       Branch!Undoable, Branch!StageOK, Branch!RepositoryOK,
       Branch!WithoutOK, Branch!RacedOK, Branch!OpOK, Branch!Operations,
       Branch!Commits
  <2>7. Branch!RefsAreMoved'
    <3>1. CASE v6 = "idle"
      BY <1>23, <3>1
         DEF Branch!MoveElsewhere, Branch!Also, Branch!Races, Branch!RefsAreMoved,
             Branch!Undoable, Branch!StageOK
    <3>2. ASSUME v6 # "idle", NEW b \in Branch!Branches, NEW o \in Branch!Originals,
                  v4' = [v4 EXCEPT ![b] = {o}], v9' = [v9 EXCEPT !.refs[b] = {o}]
           PROVE  Branch!RefsAreMoved'
      <4>1. v9'.refs = [v9.refs EXCEPT ![b] = {o}]
        BY <3>2 DEF Branch!WithoutOK
      <4>2. {o} \subseteq Branch!Contains({o})
        BY ContainsItself DEF Branch!Commits
      <4>3. UNCHANGED <<v6, v7>>
        BY <1>23 DEF Branch!MoveElsewhere, Branch!Also, Branch!Races
      <4>4. v6 # "done" /\ Branch!Undoable => v4' = v9'.refs
        BY <3>2, <4>1 DEF Branch!RefsAreMoved
      <4>5. v6 = "done" /\ Branch!Undoable =>
               \A d \in Branch!Branches : v9'.refs[d] \subseteq Branch!Contains(v4'[d])
        BY <3>2, <4>1, <4>2
           DEF Branch!RefsAreMoved, Branch!RepositoryOK, Branch!WithoutOK
      <4> QED
        BY <4>3, <4>4, <4>5 DEF Branch!RefsAreMoved, Branch!Undoable
    <3>3. ASSUME v6 # "idle", NEW b \in Branch!Branches,
                  v4' = v4, v9' = [v9 EXCEPT !.head = b]
           PROVE  Branch!RefsAreMoved'
      BY <1>23, <3>3
         DEF Branch!MoveElsewhere, Branch!Also, Branch!Races, Branch!RefsAreMoved,
             Branch!Undoable, Branch!WithoutOK
    <3> QED
      BY <1>23, <3>1, <3>2, <3>3 DEF Branch!MoveElsewhere, Branch!Also, Branch!Races
  <2> QED
    BY <2>1, <2>2, <2>3, <2>4, <2>5, <2>6, <2>7
<1>24. CASE Branch!LockElsewhere
  <2>1. Branch!TypeOK'
    <3>1. Branch!StageOK'
      BY <1>24 DEF Branch!LockElsewhere, Branch!StageOK
    <3>2. Branch!OpOK'
      BY <1>24 DEF Branch!LockElsewhere, Branch!OpOK, Branch!Operations, Branch!Commits,
         Branch!RepositoryOK, Branch!StageOK
    <3>3. Branch!RepositoryOK'
      BY <1>24 DEF Branch!LockElsewhere, Branch!RepositoryOK, Branch!StageOK, Branch!OpOK,
         Branch!Operations, Branch!Files
    <3>4. Branch!WithoutOK'
      BY <1>24
      DEF Branch!LockElsewhere, Branch!WithoutOK, Branch!RepositoryOK, Branch!Files
    <3>5. Branch!RacedOK'
      BY <1>24 DEF Branch!LockElsewhere, Branch!RacedOK, Branch!OpOK, Branch!Operations
    <3> QED
      BY <3>1, <3>2, <3>3, <3>4, <3>5 DEF Branch!TypeOK
  <2>2. Branch!InputsAreRead'
    BY <1>24 DEF Branch!LockElsewhere, Branch!InputsAreRead, Branch!Old, Branch!New,
       Branch!Updated, Branch!Undoable, Branch!Untried, Branch!StageOK,
       Branch!RepositoryOK, Branch!WithoutOK, Branch!RacedOK,
       Branch!Files, Branch!OpOK, Branch!Operations, Branch!Commits
  <2>3. Branch!FilesAreWritten'
    BY <1>24 DEF Branch!LockElsewhere, Branch!FilesAreWritten, Branch!InputsAreRead,
       Branch!Written, Branch!Old, Branch!New, Branch!Updated,
       Branch!Undoable, Branch!Untried, Branch!StageOK,
       Branch!RepositoryOK, Branch!WithoutOK, Branch!RacedOK,
       Branch!Files, Branch!OpOK, Branch!Operations, Branch!Commits
  <2>4. Branch!IndexIsHeld'
    BY <1>24 DEF Branch!LockElsewhere, Branch!IndexIsHeld, Branch!InputsAreRead,
       Branch!Old, Branch!New, Branch!Updated, Branch!Undoable,
       Branch!Untried, Branch!StageOK, Branch!RepositoryOK,
       Branch!WithoutOK, Branch!RacedOK, Branch!Files, Branch!OpOK,
       Branch!Operations, Branch!Commits
  <2>5. Branch!IndexIsMerged'
    BY <1>24 DEF Branch!LockElsewhere, Branch!IndexIsMerged, Branch!MergedIndex,
       Branch!InputsAreRead, Branch!Old, Branch!New, Branch!Updated,
       Branch!Undoable, Branch!Untried, Branch!StageOK,
       Branch!RepositoryOK, Branch!WithoutOK, Branch!RacedOK,
       Branch!Files, Branch!OpOK, Branch!Operations, Branch!Commits
  <2>6. Branch!HeadIsSet'
    BY <1>24 DEF Branch!LockElsewhere, Branch!HeadIsSet, Branch!Undoable, Branch!StageOK,
       Branch!RepositoryOK, Branch!WithoutOK, Branch!RacedOK, Branch!OpOK,
       Branch!Operations, Branch!Commits
  <2>7. Branch!RefsAreMoved'
    BY <1>24 DEF Branch!LockElsewhere, Branch!RefsAreMoved, Branch!InputsAreRead,
       Branch!Undoable, Branch!StageOK, Branch!RepositoryOK,
       Branch!WithoutOK, Branch!RacedOK, Branch!Files, Branch!OpOK,
       Branch!Operations, Branch!Commits
  <2> QED
    BY <2>1, <2>2, <2>3, <2>4, <2>5, <2>6, <2>7
<1> QED
BY <1>1, <1>2, <1>3, <1>4, <1>5, <1>6, <1>7, <1>8, <1>9, <1>10, <1>11, <1>12, <1>13, <1>14,
     <1>15, <1>16, <1>17, <1>18, <1>19, <1>20, <1>21, <1>22, <1>23, <1>24 DEF Branch!Next,
     Branch!Checkout, Branch!Merge, Branch!Either, Branch!Pull, Branch!Single,
     Branch!Elsewhere

-----------------------------------------------------------------------------
(* Least elements, and induction: what the orders below are proved with. *)

LEMMA LeastOfNumbers ==
    ASSUME NEW T \in SUBSET Nat, T # {}
    PROVE  \E n \in T : \A m \in T : n <= m
<1> DEFINE R == OpToRel(<, Nat)
<1>1. IsWellFoundedOn(R, Nat)
  BY NatLessThanWellFounded
<1>2. PICK n \in T : \A m \in T : <<m, n>> \notin R
  <2> HIDE DEF R
  <2> QED
    BY <1>1, WFMin
<1>3. \A m \in T : ~(m < n)
  BY <1>2 DEF OpToRel
<1> QED
  BY <1>3

LEMMA Counting ==
    ASSUME NEW T, 0 \in T, \A n \in Nat : n \in T => n + 1 \in T
    PROVE  Nat \subseteq T
<1> SUFFICES ASSUME Nat \ T # {} PROVE FALSE
  OBVIOUS
<1>1. PICK n \in Nat \ T : \A m \in Nat \ T : n <= m
  BY LeastOfNumbers
<1>2. n - 1 \in Nat
  BY <1>1
<1>3. n - 1 \in T
  BY <1>1, <1>2
<1> QED
  BY <1>1, <1>2, <1>3

\* A set of tasks has a newest one.
LEMMA NewestExists ==
    ASSUME NEW tasks \in SUBSET (1 .. MaxTask), tasks # {}
    PROVE  \E t : Registry!IsNewest(t, tasks)
<1> DEFINE T == {n \in Nat : \A u \in tasks : u <= n}
<1>1. MaxTask \in T
  BY BoundsAreNumbers
<1>2. PICK n \in T : \A m \in T : n <= m
  BY <1>1, LeastOfNumbers
<1>3. CASE n \in tasks
  BY <1>3 DEF Registry!IsNewest
<1>4. CASE n \notin tasks
  <2>1. \A u \in tasks : u <= n - 1
    BY <1>4
  <2>2. n - 1 \in T
    <3>1. PICK u : u \in tasks
      OBVIOUS
    <3>2. u \in 1 .. MaxTask /\ u <= n /\ n \in Nat
      BY <3>1
    <3>3. n - 1 \in Nat
      BY <3>2, BoundsAreNumbers
    <3> QED
      BY <2>1, <3>3
  <2> QED
    BY <1>2, <2>2
<1> QED
  BY <1>3, <1>4

\* The tasks of a file are finitely many.
Numbered(entries) == Registry!Linked(entries) \subseteq 1 .. MaxTask

LEMMA TasksAreFinite ==
    ASSUME NEW tasks \in SUBSET (1 .. MaxTask)
    PROVE  IsFiniteSet(tasks) /\ Cardinality(tasks) \in Nat
<1>1. IsFiniteSet(1 .. MaxTask)
  BY FS_Interval, BoundsAreNumbers
<1>2. IsFiniteSet(tasks)
  BY <1>1, FS_Subset
<1> QED
  BY <1>2, FS_CardinalityType

-----------------------------------------------------------------------------
(* What is below a task. *)

LEMMA BelowIsLeast ==
    ASSUME NEW entries, NEW t, NEW S, t \in S, Registry!Closed(entries, S)
    PROVE  Registry!Below(entries, t) \subseteq S
<1> DEFINE T == S \cap (Registry!Linked(entries) \cup {t})
<1>1. T \in SUBSET (Registry!Linked(entries) \cup {t}) /\ t \in T
  OBVIOUS
<1>2. Registry!Closed(entries, T)
  BY DEF Registry!Closed, Registry!Resolved
<1>3. Registry!Below(entries, t) \subseteq T
  BY <1>1, <1>2 DEF Registry!Below
<1> QED
  BY <1>3

LEMMA BelowIsClosed ==
    ASSUME NEW entries, NEW t
    PROVE  /\ t \in Registry!Below(entries, t) /\ Registry!Closed(entries, Registry!Below(entries, t))
           /\ Registry!Below(entries, t) \subseteq Registry!Linked(entries) \cup {t}
<1>1. t \in Registry!Below(entries, t)
  BY DEF Registry!Below
<1>2. Registry!Closed(entries, Registry!Below(entries, t))
  <2> SUFFICES ASSUME NEW s \in Registry!Below(entries, t) \cap Registry!Linked(entries),
                      NEW d \in Registry!Resolved(entries, s),
                      NEW S \in SUBSET (Registry!Linked(entries) \cup {t}),
                      t \in S, Registry!Closed(entries, S)
               PROVE  d \in S
    BY DEF Registry!Closed, Registry!Below, Registry!Resolved
  <2>1. s \in S
    BY DEF Registry!Below
  <2> QED
    BY <2>1 DEF Registry!Closed
<1> QED
  BY <1>1, <1>2 DEF Registry!Below

LEMMA BelowIsBelow ==
    ASSUME NEW entries, NEW t \in Registry!Linked(entries), NEW d \in Registry!Resolved(entries, t)
    PROVE  Registry!Below(entries, d) \subseteq Registry!Below(entries, t)
<1>1. t \in Registry!Below(entries, t) /\ Registry!Closed(entries, Registry!Below(entries, t))
  BY BelowIsClosed
<1>2. d \in Registry!Below(entries, t)
  BY <1>1 DEF Registry!Closed
<1> QED
  BY <1>1, <1>2, BelowIsLeast

\* No task is below what it depends on.
Acyclic(entries) ==
    \A t \in Registry!Linked(entries) : \A d \in Registry!Resolved(entries, t) :
        t \notin Registry!Below(entries, d)

\* Fewer dependencies are no cycle.
LEMMA FewerIsAcyclic ==
    ASSUME NEW entries, NEW new, Acyclic(entries),
           \A t \in Registry!Linked(new) : \A d \in Registry!Resolved(new, t) :
               t \in Registry!Linked(entries) /\ d \in Registry!Resolved(entries, t)
    PROVE  Acyclic(new)
<1> SUFFICES ASSUME NEW t \in Registry!Linked(new), NEW d \in Registry!Resolved(new, t)
             PROVE  t \notin Registry!Below(new, d)
  BY DEF Acyclic
<1>1. t \notin Registry!Below(entries, d)
  BY DEF Acyclic
<1>2. d \in Registry!Below(entries, d) /\ Registry!Closed(entries, Registry!Below(entries, d))
  BY BelowIsClosed
<1>3. Registry!Closed(new, Registry!Below(entries, d))
  BY <1>2 DEF Registry!Closed
<1> QED
  BY <1>1, <1>2, <1>3, BelowIsLeast

\* A dependency on a task from which there is no way back is none either.
LEMMA AddedIsAcyclic ==
    ASSUME NEW entries, NEW new, NEW t0, NEW d0, Acyclic(entries),
           t0 \notin Registry!Below(entries, d0),
           Registry!Linked(new) = Registry!Linked(entries),
           \A t \in Registry!Linked(new) : \A d \in Registry!Resolved(new, t) :
               d \in Registry!Resolved(entries, t) \/ (t = t0 /\ d = d0)
    PROVE  Acyclic(new)
<1> SUFFICES ASSUME NEW t \in Registry!Linked(new), NEW d \in Registry!Resolved(new, t)
             PROVE  t \notin Registry!Below(new, d)
  BY DEF Acyclic
<1> DEFINE B == Registry!Below(entries, d)
           C == Registry!Below(entries, d0)
<1>0. /\ d \in B /\ Registry!Closed(entries, B)
      /\ d0 \in C /\ Registry!Closed(entries, C)
  BY BelowIsClosed
<1>1. d \in Registry!Resolved(entries, t) => t \notin B
  BY DEF Acyclic
<1>2. CASE t0 \notin B
  <2>1. Registry!Closed(new, B)
    BY <1>0, <1>2 DEF Registry!Closed
  <2>2. t \notin B
    BY <1>1, <1>2
  <2> QED
    BY <1>0, <2>1, <2>2, BelowIsLeast
<1>3. CASE t0 \in B
  <2>1. d \in Registry!Resolved(entries, t)
    BY <1>3
  <2>2. t \notin C
    <3>1. SUFFICES ASSUME t \in C PROVE FALSE
      OBVIOUS
    <3>2. d \in C
      BY <1>0, <2>1, <3>1 DEF Registry!Closed
    <3>3. B \subseteq C
      BY <1>0, <3>2, BelowIsLeast
    <3> QED
      BY <1>3, <3>3
  <2>3. Registry!Closed(new, B \cup C)
    BY <1>0 DEF Registry!Closed
  <2>4. Registry!Below(new, d) \subseteq B \cup C
    BY <1>0, <2>3, BelowIsLeast
  <2> QED
    BY <1>1, <2>1, <2>2, <2>4
<1> QED
  BY <1>2, <1>3

-----------------------------------------------------------------------------
(* The order of a file without cycles. *)

\* The tasks with an order are those below which nothing is missing.
LEMMA FreeIsWhole ==
    ASSUME NEW entries
    PROVE  Registry!Free(entries) =
             {t \in Registry!Linked(entries) :
                \A s \in Registry!Below(entries, t) : ~Registry!Broken(entries, s)}
<1> DEFINE X == {t \in Registry!Linked(entries) :
                   \E s \in Registry!Below(entries, t) : Registry!Broken(entries, s)}
<1>1. Registry!Settled(entries, X)
  <2> SUFFICES ASSUME NEW t \in Registry!Linked(entries),
                      Registry!Broken(entries, t) \/ Registry!Resolved(entries, t) \cap X # {}
               PROVE  t \in X
    BY DEF Registry!Settled
  <2>1. CASE Registry!Broken(entries, t)
    BY <2>1, BelowIsClosed
  <2>2. CASE Registry!Resolved(entries, t) \cap X # {}
    BY <2>2, BelowIsBelow
  <2> QED
    BY <2>1, <2>2
<1>2. Registry!Unavailable(entries) \subseteq X
  BY <1>1 DEF Registry!Unavailable
<1>3. ASSUME NEW t \in Registry!Free(entries), NEW s \in Registry!Below(entries, t)
      PROVE  ~Registry!Broken(entries, s)
  <2>1. PICK S \in SUBSET Registry!Linked(entries) :
          Registry!Settled(entries, S) /\ t \in Registry!Linked(entries) \ S
    BY DEF Registry!Free, Registry!Unavailable
  <2> DEFINE T == Registry!Linked(entries) \ S
  <2>2. Registry!Closed(entries, T)
    BY <2>1 DEF Registry!Closed, Registry!Settled, Registry!Resolved
  <2>3. Registry!Below(entries, t) \subseteq T
    BY <2>1, <2>2, BelowIsLeast
  <2> QED
    BY <2>1, <2>3 DEF Registry!Settled
<1> QED
  BY <1>2, <1>3 DEF Registry!Free

LEMMA FreeDependencies ==
    ASSUME NEW entries, NEW t \in Registry!Free(entries)
    PROVE  /\ t \in Registry!Linked(entries)
           /\ entries[t].deps = Registry!Resolved(entries, t)
           /\ entries[t].deps \subseteq Registry!Free(entries)
<1>1. /\ t \in Registry!Linked(entries)
      /\ \A s \in Registry!Below(entries, t) : ~Registry!Broken(entries, s)
  BY FreeIsWhole
<1>2. ~Registry!Broken(entries, t)
  BY <1>1, BelowIsClosed
<1>3. entries[t].deps = Registry!Resolved(entries, t)
  BY <1>2 DEF Registry!Broken, Registry!Resolved
<1>4. ASSUME NEW d \in Registry!Resolved(entries, t) PROVE d \in Registry!Free(entries)
  <2>1. Registry!Below(entries, d) \subseteq Registry!Below(entries, t)
    BY <1>1, BelowIsBelow
  <2>2. d \in Registry!Linked(entries)
    BY DEF Registry!Resolved
  <2> QED
    BY <1>1, <2>1, <2>2, FreeIsWhole
<1> QED
  BY <1>1, <1>3, <1>4

LEMMA RegistryCardinality == \A s : Registry!Cardinality(s) = Cardinality(s)
BY DEF Registry!Cardinality, Cardinality, Registry!IsFiniteSet, IsFiniteSet

\* What the loop has placed after n rounds.
Greedy(entries, free, order) ==
    \A i \in DOMAIN order :
        Registry!IsNewest(order[i], Registry!Placeable(entries, free, Registry!Placed(order, i - 1)))

LEMMA GreedyIsInjective ==
    ASSUME NEW entries, NEW free, NEW n \in Nat, NEW order \in [1 .. n -> free],
           Greedy(entries, free, order)
    PROVE  \A i, j \in 1 .. n : order[i] = order[j] => i = j
<1>1. ASSUME NEW i \in 1 .. n, NEW j \in 1 .. n, i < j PROVE order[i] # order[j]
  <2>1. order[i] \in Registry!Placed(order, j - 1)
    BY <1>1 DEF Registry!Placed
  <2>2. order[j] \notin Registry!Placed(order, j - 1)
    BY DEF Greedy, Registry!IsNewest, Registry!Placeable
  <2> QED
    BY <2>1, <2>2
<1> QED
  BY <1>1

LEMMA GreedyIsShort ==
    ASSUME NEW entries, NEW free \in SUBSET (1 .. MaxTask), NEW n \in Nat,
           NEW order \in [1 .. n -> free], Greedy(entries, free, order)
    PROVE  n <= Cardinality(free)
<1>1. IsFiniteSet(free) /\ Cardinality(free) \in Nat
  BY TasksAreFinite
<1>2. order \in Injection(1 .. n, free)
  BY GreedyIsInjective DEF Injection, IsInjective
<1>3. Cardinality(1 .. n) <= Cardinality(free)
  BY <1>1, <1>2, FS_Injection
<1>4. Cardinality(1 .. n) = n
  BY FS_Interval
<1> QED
  BY <1>3, <1>4

\* The next task is placed.
LEMMA GreedyGoesOn ==
    ASSUME NEW entries, NEW free, NEW n \in Nat, NEW order \in [1 .. n -> free],
           Greedy(entries, free, order), NEW t \in free,
           Registry!IsNewest(t, Registry!Placeable(entries, free, Registry!Placed(order, n)))
    PROVE  \E new \in [1 .. n + 1 -> free] : Greedy(entries, free, new)
<1> DEFINE new == [i \in 1 .. n + 1 |-> IF i <= n THEN order[i] ELSE t]
<1>1. new \in [1 .. n + 1 -> free]
  OBVIOUS
<1>2. \A i \in 1 .. n + 1 : Registry!Placed(new, i - 1) = Registry!Placed(order, i - 1)
  <2> SUFFICES ASSUME NEW i \in 1 .. n + 1
               PROVE  Registry!Placed(new, i - 1) = Registry!Placed(order, i - 1)
    OBVIOUS
  <2>1. \A k \in 1 .. i - 1 : new[k] = order[k]
    OBVIOUS
  <2> HIDE DEF new
  <2> QED
    BY <2>1 DEF Registry!Placed
<1>3. ASSUME NEW i \in 1 .. n + 1
      PROVE  Registry!IsNewest(new[i],
               Registry!Placeable(entries, free, Registry!Placed(new, i - 1)))
  <2>1. CASE i \in 1 .. n
    <3>1. new[i] = order[i]
      BY <2>1
    <3> QED
      BY <1>2, <2>1, <3>1 DEF Greedy
  <2>2. CASE i = n + 1
    <3>1. new[i] = t /\ i - 1 = n
      BY <2>2
    <3> QED
      BY <1>2, <3>1
  <2> QED
    BY <2>1, <2>2
<1> QED
  BY <1>1, <1>3 DEF Greedy

\* An order that ends is found.
LEMMA OrderExists ==
    ASSUME NEW entries, NEW free \in SUBSET (1 .. MaxTask)
    PROVE  \E order \in Registry!Orders(free) : Registry!IsOrder(entries, free, order)
<1> DEFINE T == {n \in Nat : \E order \in [1 .. n -> free] : Greedy(entries, free, order)}
<1> SUFFICES ASSUME \A order \in Registry!Orders(free) : ~Registry!IsOrder(entries, free, order)
             PROVE  FALSE
  OBVIOUS
<1>0. IsFiniteSet(free) /\ Cardinality(free) \in Nat
  BY TasksAreFinite
<1>1. 0 \in T
  <2>1. [i \in 1 .. 0 |-> i] \in [1 .. 0 -> free]
    OBVIOUS
  <2>2. Greedy(entries, free, [i \in 1 .. 0 |-> i])
    BY DEF Greedy
  <2> QED
    BY <2>1, <2>2
<1>2. ASSUME NEW n \in Nat, n \in T PROVE n + 1 \in T
  <2>1. PICK order \in [1 .. n -> free] : Greedy(entries, free, order)
    BY <1>2
  <2>2. n <= Cardinality(free)
    BY <2>1, GreedyIsShort
  <2>3. order \in Registry!Orders(free)
    BY <1>0, <2>2, RegistryCardinality DEF Registry!Orders
  <2>4. Registry!Range(order) = Registry!Placed(order, n)
    BY DEF Registry!Range, Registry!Placed
  <2>5. Registry!Placeable(entries, free, Registry!Placed(order, n)) # {}
    BY <2>1, <2>3, <2>4 DEF Registry!IsOrder, Greedy
  <2>6. PICK t : Registry!IsNewest(t,
                   Registry!Placeable(entries, free, Registry!Placed(order, n)))
    <3>1. Registry!Placeable(entries, free, Registry!Placed(order, n)) \in SUBSET (1 .. MaxTask)
      BY DEF Registry!Placeable
    <3> QED
      BY <2>5, <3>1, NewestExists
  <2>7. t \in free
    BY <2>6 DEF Registry!IsNewest, Registry!Placeable
  <2>8. \E new \in [1 .. n + 1 -> free] : Greedy(entries, free, new)
    BY <2>1, <2>6, <2>7, GreedyGoesOn
  <2> QED
    BY <2>8
<1>3. Nat \subseteq T
  <2> HIDE DEF T
  <2> QED
    BY <1>1, <1>2, Counting
<1>4. PICK n \in Nat : n = Cardinality(free) + 1
  BY <1>0
<1>5. PICK order \in [1 .. n -> free] : Greedy(entries, free, order)
  BY <1>3
<1>6. n <= Cardinality(free)
  BY <1>5, GreedyIsShort
<1> QED
  BY <1>0, <1>4, <1>6

\* The order that is shown.
LEMMA OrderedIsOrder ==
    ASSUME NEW entries, Numbered(entries)
    PROVE  LET order == Registry!Ordered(entries)
               free == Registry!Free(entries)
           IN  /\ Registry!IsOrder(entries, free, order) /\ Greedy(entries, free, order)
               /\ \E n \in Nat : order \in [1 .. n -> free]
<1> DEFINE order == Registry!Ordered(entries)
           free == Registry!Free(entries)
<1>1. free \in SUBSET (1 .. MaxTask)
  BY DEF Numbered, Registry!Free
<1>2. \E o \in Registry!Orders(free) : Registry!IsOrder(entries, free, o)
  BY <1>1, OrderExists
<1>3. order \in Registry!Orders(free) /\ Registry!IsOrder(entries, free, order)
  BY <1>2 DEF Registry!Ordered
<1>4. \E n \in Nat : order \in [1 .. n -> free]
  BY <1>3 DEF Registry!Orders
<1> QED
  BY <1>3, <1>4 DEF Registry!IsOrder, Greedy

\* Every task with an order has its place.
LEMMA OrderIsComplete ==
    ASSUME NEW entries, Numbered(entries), Acyclic(entries)
    PROVE  Registry!Range(Registry!Ordered(entries)) = Registry!Free(entries)
<1> DEFINE order == Registry!Ordered(entries)
           free == Registry!Free(entries)
           placed == Registry!Range(order)
           Size(t) == Cardinality(Registry!Below(entries, t))
<1>1. Registry!IsOrder(entries, free, order) /\ placed \subseteq free
  BY OrderedIsOrder DEF Registry!Range
<1>2. \A t \in free : IsFiniteSet(Registry!Below(entries, t)) /\ Size(t) \in Nat
  <2> SUFFICES ASSUME NEW t \in free
               PROVE  IsFiniteSet(Registry!Below(entries, t)) /\ Size(t) \in Nat
    OBVIOUS
  <2>1. Registry!Below(entries, t) \in SUBSET (1 .. MaxTask)
    BY BelowIsClosed, FreeDependencies DEF Numbered
  <2> QED
    BY <2>1, TasksAreFinite
<1> SUFFICES ASSUME free \ placed # {} PROVE FALSE
  BY <1>1
<1>3. PICK t \in free \ placed : \A u \in free \ placed : Size(t) <= Size(u)
  <2> DEFINE T == {Size(u) : u \in free \ placed}
  <2>1. T \in SUBSET Nat /\ T # {}
    BY <1>2
  <2>2. PICK n \in T : \A m \in T : n <= m
    <3> HIDE DEF T
    <3> QED
      BY <2>1, LeastOfNumbers
  <2> QED
    BY <2>2
<1>4. /\ t \in Registry!Linked(entries) /\ entries[t].deps \subseteq free
      /\ entries[t].deps = Registry!Resolved(entries, t)
  BY FreeDependencies
<1>5. ASSUME NEW d \in entries[t].deps PROVE d \in placed
  <2>1. SUFFICES ASSUME d \notin placed PROVE FALSE
    OBVIOUS
  <2>2. d \in free \ placed
    BY <1>4, <2>1
  <2>3. Registry!Below(entries, d) \subseteq Registry!Below(entries, t)
    BY <1>4, BelowIsBelow
  <2>4. t \in Registry!Below(entries, t) /\ t \notin Registry!Below(entries, d)
    BY <1>4, BelowIsClosed DEF Acyclic
  <2>5. Size(d) <= Size(t) /\ Size(t) # Size(d)
    BY <1>2, <2>3, <2>4, FS_Subset
  <2> QED
    BY <1>2, <1>3, <2>2, <2>5
<1>6. t \in Registry!Placeable(entries, free, placed)
  BY <1>3, <1>5 DEF Registry!Placeable
<1> QED
  BY <1>1, <1>6 DEF Registry!IsOrder

-----------------------------------------------------------------------------
(* The order of a selection that is closed under dependencies. *)

Selected(entries, selected) == [t \in selected |-> entries[t]]
IsSelection(entries, selected) ==
    /\ selected \subseteq Registry!Free(entries)
    /\ \A t \in selected : entries[t].deps \subseteq selected

LEMMA SelectionIsFree ==
    ASSUME NEW entries, Numbered(entries), Acyclic(entries),
           NEW selected, IsSelection(entries, selected)
    PROVE  LET chosen == Selected(entries, selected)
           IN  /\ Numbered(chosen) /\ Acyclic(chosen)
               /\ Registry!Linked(chosen) = selected /\ Registry!Free(chosen) = selected
<1> DEFINE chosen == Selected(entries, selected)
<1>1. Registry!Linked(chosen) = selected /\ \A t \in selected : chosen[t] = entries[t]
  BY DEF Selected, Registry!Linked
<1>2. selected \subseteq Registry!Linked(entries)
  BY DEF IsSelection, Registry!Free
<1> HIDE DEF chosen
<1>3. Numbered(chosen)
  BY <1>1, <1>2 DEF Numbered
<1>4. Acyclic(chosen)
  <2>1. ASSUME NEW t \in Registry!Linked(chosen), NEW d \in Registry!Resolved(chosen, t)
        PROVE  t \in Registry!Linked(entries) /\ d \in Registry!Resolved(entries, t)
    BY <1>1, <1>2 DEF Registry!Resolved
  <2> QED
    BY <2>1, FewerIsAcyclic
<1>5. Registry!Free(chosen) = selected
  <2>1. \A t \in selected : ~Registry!Broken(chosen, t)
    BY <1>1 DEF IsSelection, Registry!Broken
  <2>2. \A t \in selected : Registry!Below(chosen, t) \subseteq selected
    BY <1>1, BelowIsClosed
  <2> QED
    BY <1>1, <2>1, <2>2, FreeIsWhole
<1> QED
  BY <1>1, <1>3, <1>4, <1>5 DEF chosen

\* Whatever is placed of all tasks, the tasks of the selection among it are what is placed
\* of the selection.
LEMMA SelectionIsPlaced ==
    ASSUME NEW entries, Numbered(entries), NEW selected, IsSelection(entries, selected),
           NEW N \in Nat, NEW order \in [1 .. N -> Registry!Free(entries)],
           Greedy(entries, Registry!Free(entries), order),
           NEW M \in Nat, NEW own \in [1 .. M -> selected],
           Greedy(Selected(entries, selected), selected, own), Registry!Range(own) = selected
    PROVE  \A n \in 0 .. N : \E m \in 0 .. M :
             Registry!Placed(own, m) = Registry!Placed(order, n) \cap selected
<1> DEFINE free == Registry!Free(entries)
           chosen == Selected(entries, selected)
           T == {n \in Nat : n <= N => \E m \in 0 .. M :
                   Registry!Placed(own, m) = Registry!Placed(order, n) \cap selected}
<1>a. \A t \in selected : chosen[t] = entries[t]
  BY DEF Selected
<1>b. free \subseteq 1 .. MaxTask /\ selected \subseteq free
  BY DEF Numbered, Registry!Free, IsSelection
<1>0. \A t \in selected : chosen[t] = entries[t] /\ entries[t].deps \subseteq selected
  BY <1>a DEF IsSelection
<1>c. /\ order \in [1 .. N -> free] /\ Greedy(entries, free, order)
      /\ Greedy(chosen, selected, own) /\ Registry!Linked(chosen) = selected
  BY DEF Selected, Registry!Linked
<1> HIDE DEF free, chosen
<1>1. 0 \in T
  <2>1. Registry!Placed(own, 0) = {} /\ Registry!Placed(order, 0) = {}
    BY DEF Registry!Placed
  <2> QED
    BY <2>1
<1>2. ASSUME NEW n \in Nat, n \in T, n + 1 <= N PROVE n + 1 \in T
  <2> DEFINE done == Registry!Placed(order, n)
             x == order[n + 1]
  <2>1. PICK m \in 0 .. M : Registry!Placed(own, m) = done \cap selected
    BY <1>2
  <2>2. Registry!Placed(order, n + 1) = done \cup {x}
    BY <1>2 DEF Registry!Placed
  <2>3. Registry!IsNewest(x, Registry!Placeable(entries, free, done))
    <3>1. n + 1 \in 1 .. N /\ (n + 1) - 1 = n
      BY <1>2
    <3> QED
      BY <1>c, <3>1 DEF Greedy
  <2>4. CASE x \notin selected
    <3>1. Registry!Placed(own, m) = Registry!Placed(order, n + 1) \cap selected
      BY <2>1, <2>2, <2>4
    <3> QED
      BY <3>1
  <2>5. CASE x \in selected
    <3>2. Registry!Placeable(chosen, selected, done \cap selected)
            = Registry!Placeable(entries, free, done) \cap selected
      BY <1>0, <1>b DEF Registry!Placeable
    <3>3. x \in Registry!Placeable(chosen, selected, done \cap selected) /\ x \notin done
      BY <2>3, <2>5, <3>2 DEF Registry!IsNewest, Registry!Placeable
    <3>4. m + 1 \in 1 .. M
      <4>1. Registry!Placed(own, M) = selected
        BY DEF Registry!Placed, Registry!Range
      <4>2. m # M
        BY <2>1, <2>5, <3>3, <4>1
      <4> QED
        BY <4>2
    <3>5. Registry!IsNewest(own[m + 1], Registry!Placeable(chosen, selected, done \cap selected))
      <4>1. (m + 1) - 1 = m
        OBVIOUS
      <4> QED
        BY <1>c, <2>1, <3>4, <4>1 DEF Greedy
    <3>6. own[m + 1] = x
      <4>1. own[m + 1] \in Registry!Placeable(entries, free, done)
        BY <3>2, <3>5 DEF Registry!IsNewest
      <4>2. own[m + 1] <= x /\ x <= own[m + 1]
        BY <2>3, <3>3, <3>5, <4>1 DEF Registry!IsNewest
      <4>3. own[m + 1] \in 1 .. MaxTask /\ x \in 1 .. MaxTask
        BY <1>b, <2>5, <3>4
      <4> QED
        BY <4>2, <4>3, BoundsAreNumbers
    <3>7. Registry!Placed(own, m + 1) = Registry!Placed(own, m) \cup {x}
      BY <3>4, <3>6 DEF Registry!Placed
    <3>8. Registry!Placed(own, m + 1) = Registry!Placed(order, n + 1) \cap selected
      BY <2>1, <2>2, <2>5, <3>7
    <3> QED
      BY <3>4, <3>8
  <2> QED
    BY <2>4, <2>5
<1>3. ASSUME NEW n \in Nat, n \in T PROVE n + 1 \in T
  BY <1>2, <1>3
<1>4. Nat \subseteq T
  <2> HIDE DEF T
  <2> QED
    BY <1>1, <1>3, Counting
<1> QED
  BY <1>4

LEMMA SelectionFollows ==
    ASSUME NEW entries, Numbered(entries), Acyclic(entries),
           NEW selected, IsSelection(entries, selected)
    PROVE  LET own == Registry!OrderOfSelected(entries, selected)
           IN  /\ Registry!Range(own) = selected
               /\ Registry!Follows(own, Registry!Ordered(entries))
<1> DEFINE chosen == Selected(entries, selected)
           order == Registry!Ordered(entries)
           own == Registry!Ordered(chosen)
           free == Registry!Free(entries)
<1>0. Registry!OrderOfSelected(entries, selected) = own
  BY DEF Registry!OrderOfSelected, Selected
<1>1. /\ Numbered(chosen) /\ Acyclic(chosen) /\ Registry!Free(chosen) = selected
  BY SelectionIsFree
<1>2. Registry!Range(own) = selected /\ Registry!Range(order) = free
  BY <1>1, OrderIsComplete
<1>3. PICK N \in Nat : order \in [1 .. N -> free]
  BY OrderedIsOrder
<1>4. PICK M \in Nat : own \in [1 .. M -> selected]
  BY <1>1, OrderedIsOrder
<1>5. Greedy(entries, free, order) /\ Greedy(chosen, selected, own)
  BY <1>1, OrderedIsOrder
<1>6. selected \subseteq free
  BY DEF IsSelection
<1>8. \A n \in 0 .. N : \E m \in 0 .. M :
        Registry!Placed(own, m) = Registry!Placed(order, n) \cap selected
  BY <1>2, <1>3, <1>4, <1>5, SelectionIsPlaced
<1> HIDE DEF chosen, order, own, free
<1>9. /\ \A i, j \in 1 .. N : order[i] = order[j] => i = j
      /\ \A i, j \in 1 .. M : own[i] = own[j] => i = j
  <2>1. \A i, j \in 1 .. N : order[i] = order[j] => i = j
    BY <1>3, <1>5, GreedyIsInjective
  <2>2. \A i, j \in 1 .. M : own[i] = own[j] => i = j
    BY <1>4, <1>5, GreedyIsInjective
  <2> QED
    BY <2>1, <2>2
<1>10. ASSUME NEW i \in 1 .. M, NEW j \in 1 .. M, i < j
       PROVE  \E k, l \in 1 .. N : k < l /\ order[k] = own[i] /\ order[l] = own[j]
  <2>1. PICK k \in 1 .. N : order[k] = own[i]
    BY <1>2, <1>3, <1>4, <1>6 DEF Registry!Range
  <2>2. PICK l \in 1 .. N : order[l] = own[j]
    BY <1>2, <1>3, <1>4, <1>6 DEF Registry!Range
  <2>3. PICK m \in 0 .. M :
          Registry!Placed(own, m) = Registry!Placed(order, l) \cap selected
    BY <1>8
  <2>4. j <= m
    <3>1. own[j] \in Registry!Placed(own, m)
      BY <1>4, <2>2, <2>3 DEF Registry!Placed
    <3>2. PICK a \in 1 .. m : own[j] = own[a]
      BY <3>1 DEF Registry!Placed
    <3> QED
      BY <1>9, <3>2
  <2>5. own[i] \in Registry!Placed(order, l)
    <3>1. own[i] \in Registry!Placed(own, m)
      BY <1>10, <2>4 DEF Registry!Placed
    <3> QED
      BY <2>3, <3>1
  <2>6. PICK b \in 1 .. l : own[i] = order[b]
    BY <2>5 DEF Registry!Placed
  <2>7. k <= l
    BY <1>9, <2>1, <2>6
  <2>8. k # l
    BY <1>9, <1>10, <2>1, <2>2
  <2> QED
    BY <2>1, <2>2, <2>7, <2>8
<1>11. Registry!Follows(own, order)
  <2>1. DOMAIN own = 1 .. M /\ DOMAIN order = 1 .. N
    BY <1>3, <1>4
  <2> SUFFICES ASSUME NEW i \in DOMAIN own, NEW j \in DOMAIN own, i < j
               PROVE  \E k, l \in DOMAIN order :
                        k < l /\ order[k] = own[i] /\ order[l] = own[j]
    BY DEF Registry!Follows
  <2>2. \E k, l \in 1 .. N : k < l /\ order[k] = own[i] /\ order[l] = own[j]
    BY <1>10, <2>1
  <2> QED
    BY <2>1, <2>2
<1> QED
  BY <1>0, <1>2, <1>11 DEF order, own, chosen

-----------------------------------------------------------------------------
(* What the order and the readiness of a file without cycles are. *)

LEMMA OrderOfAcyclic ==
    ASSUME Numbered(v1), Acyclic(v1)
    PROVE  Registry!OrderIsRight
<1> DEFINE order == Registry!Ordered(v1)
           free == Registry!Free(v1)
<1>1. Registry!Range(order) = free
  BY OrderIsComplete
<1>2. PICK N \in Nat : order \in [1 .. N -> free]
  BY OrderedIsOrder
<1>3. Greedy(v1, free, order)
  BY OrderedIsOrder
<1>4. Registry!IsInjective(order)
  <2>1. \A i, j \in 1 .. N : order[i] = order[j] => i = j
    BY <1>2, <1>3, GreedyIsInjective
  <2> QED
    BY <1>2, <2>1 DEF Registry!IsInjective
<1>5. Registry!Accepts(v1, order)
  <2>1. ASSUME NEW i \in 1 .. N, NEW d \in v1[order[i]].deps
        PROVE  \E j \in 1 .. i - 1 : order[j] = d
    <3>1. order[i] \in Registry!Placeable(v1, free, Registry!Placed(order, i - 1))
      BY <1>2, <1>3 DEF Greedy, Registry!IsNewest
    <3>2. d \in Registry!Placed(order, i - 1)
      BY <3>1 DEF Registry!Placeable
    <3> QED
      BY <3>2 DEF Registry!Placed
  <2> QED
    BY <1>2, <2>1 DEF Registry!Accepts
<1>6. ASSUME NEW selected \in SUBSET Registry!Range(order),
             \A t \in selected : v1[t].deps \subseteq selected
      PROVE  LET own == Registry!OrderOfSelected(v1, selected)
             IN  Registry!Range(own) = selected /\ Registry!Follows(own, order)
  <2>1. IsSelection(v1, selected)
    BY <1>1, <1>6 DEF IsSelection
  <2> QED
    BY <2>1, SelectionFollows
<1>7. free = {t \in Registry!Linked(v1) :
                \A s \in Registry!Below(v1, t) : ~Registry!Broken(v1, s)}
  BY FreeIsWhole
<1> QED
  BY <1>1, <1>4, <1>5, <1>6, <1>7 DEF Registry!OrderIsRight

\* The readiness of the first tasks of the order.
LEMMA ReadinessExists ==
    ASSUME NEW entries, Numbered(entries), Acyclic(entries), NEW shown
    PROVE  \E state \in Registry!States(entries) : \A t \in DOMAIN state :
             state[t] = Registry!StateOf(entries, shown, state, t)
<1> DEFINE order == Registry!Ordered(entries)
           free == Registry!Free(entries)
           Is(state, t) == state[t] = Registry!StateOf(entries, shown, state, t)
           T == {n \in Nat : \E state \in Registry!States(entries) :
                   \A i \in DOMAIN order : i <= n => Is(state, order[i])}
<1>1. Registry!Range(order) = free
  BY OrderIsComplete
<1>2. PICK N \in Nat : order \in [1 .. N -> free]
  BY OrderedIsOrder
<1>3. Greedy(entries, free, order)
  BY OrderedIsOrder
<1>4. Registry!States(entries) = [free -> {"delivered", "blocked", "ready"}]
  BY <1>1 DEF Registry!States
<1>5. 0 \in T
  <2>1. [t \in free |-> "ready"] \in Registry!States(entries)
    BY <1>4
  <2>2. \A i \in DOMAIN order : ~(i <= 0)
    BY <1>2
  <2> QED
    BY <2>1, <2>2
<1>6. ASSUME NEW n \in Nat, n \in T PROVE n + 1 \in T
  <2>1. PICK state \in Registry!States(entries) :
          \A i \in DOMAIN order : i <= n => Is(state, order[i])
    BY <1>6
  <2>2. CASE n + 1 \notin DOMAIN order
    <3>1. \A i \in DOMAIN order : i <= n + 1 => i <= n
      BY <1>2, <2>2
    <3> QED
      BY <2>1, <3>1
  <2>3. CASE n + 1 \in DOMAIN order
    <3> DEFINE x == order[n + 1]
               new == [state EXCEPT ![x] = Registry!StateOf(entries, shown, state, x)]
    <3>1. new \in Registry!States(entries) /\ x \in free
      <4>1. Registry!StateOf(entries, shown, state, x) \in {"delivered", "blocked", "ready"}
        BY DEF Registry!StateOf
      <4> QED
        BY <1>2, <1>4, <2>3, <4>1
    <3>2. \A t \in free : t # x => new[t] = state[t]
      BY <1>4
    <3>3. new[x] = Registry!StateOf(entries, shown, state, x)
      BY <1>4, <3>1
    <3>4. ASSUME NEW i \in DOMAIN order, i <= n + 1 PROVE Is(new, order[i])
      <4>1. \A d \in entries[order[i]].deps : new[d] = state[d]
        <5> SUFFICES ASSUME NEW d \in entries[order[i]].deps PROVE new[d] = state[d]
          OBVIOUS
        <5>1. order[i] \in Registry!Placeable(entries, free, Registry!Placed(order, i - 1))
          BY <1>2, <1>3 DEF Greedy, Registry!IsNewest
        <5>2. PICK j \in 1 .. i - 1 : order[j] = d
          BY <5>1 DEF Registry!Placeable, Registry!Placed
        <5>3. j \in 1 .. N /\ n + 1 \in 1 .. N /\ j # n + 1
          BY <1>2, <2>3, <3>4, <5>2
        <5>4. order[j] # x
          BY <1>2, <1>3, <5>3, GreedyIsInjective
        <5>5. d \in free
          BY <1>2, <5>2, <5>3
        <5> QED
          BY <3>2, <5>2, <5>4, <5>5
      <4>2. Registry!StateOf(entries, shown, new, order[i])
              = Registry!StateOf(entries, shown, state, order[i])
        <5> HIDE DEF new
        <5> QED
          BY <4>1 DEF Registry!StateOf
      <4>3. CASE i <= n
        <5>1. order[i] # x /\ order[i] \in free
          BY <1>2, <1>3, <2>3, <4>3, GreedyIsInjective
        <5> QED
          BY <2>1, <3>2, <4>2, <4>3, <5>1
      <4>4. CASE i = n + 1
        BY <3>3, <4>2, <4>4
      <4> QED
        BY <1>2, <3>4, <4>3, <4>4
    <3> HIDE DEF new
    <3>5. \A i \in DOMAIN order : i <= n + 1 => Is(new, order[i])
      BY <3>4
    <3> QED
      BY <3>1, <3>5
  <2> QED
    BY <2>2, <2>3
<1>7. Nat \subseteq T
  <2> HIDE DEF T
  <2> QED
    BY <1>5, <1>6, Counting
<1>8. PICK state \in Registry!States(entries) :
        \A i \in DOMAIN order : i <= N => Is(state, order[i])
  BY <1>7
<1>9. \A t \in DOMAIN state : \E i \in 1 .. N : order[i] = t
  BY <1>1, <1>2, <1>4 DEF Registry!Range
<1> QED
  BY <1>2, <1>8, <1>9

LEMMA ReadinessOfAcyclic ==
    ASSUME Numbered(v1), Acyclic(v1)
    PROVE  Registry!ReadyMeansMerged
<1> SUFFICES ASSUME NEW shown,
                    NEW t \in DOMAIN Registry!Readiness(v1, shown),
                    Registry!Readiness(v1, shown)[t] = "ready"
             PROVE  \E tasks \in SUBSET Registry!Linked(v1) :
                      /\ v1[t].deps \subseteq tasks
                      /\ \A s \in tasks : v1[s].cleaned \/ v1[s].deps \subseteq tasks
                      /\ \A s \in tasks : Registry!CurrentlyMerged(v1, shown, s)
  BY DEF Registry!ReadyMeansMerged
<1> DEFINE state == Registry!Readiness(v1, shown)
           free == Registry!Free(v1)
           tasks == {s \in free : state[s] = "delivered"}
<1>1. state \in Registry!States(v1)
      /\ \A s \in DOMAIN state : state[s] = Registry!StateOf(v1, shown, state, s)
  BY ReadinessExists DEF Registry!Readiness
<1>2. DOMAIN state = free
  <2>1. Registry!Range(Registry!Ordered(v1)) = free
    BY OrderIsComplete
  <2> QED
    BY <1>1, <2>1 DEF Registry!States
<1>3. free \subseteq Registry!Linked(v1) /\ \A s \in free : v1[s].deps \subseteq free
  BY FreeDependencies
<1> HIDE DEF state, free
<1>4. v1[t].deps \subseteq tasks
  <2>1. t \in free /\ state[t] = "ready"
    BY <1>2 DEF state
  <2>2. \A d \in v1[t].deps : state[d] = "delivered"
    BY <1>1, <1>2, <2>1 DEF Registry!StateOf
  <2> QED
    BY <1>3, <2>1, <2>2
<1>5. ASSUME NEW s \in tasks
      PROVE  /\ v1[s].cleaned \/ v1[s].deps \subseteq tasks
             /\ Registry!CurrentlyMerged(v1, shown, s)
  <2>1. Registry!StateOf(v1, shown, state, s) = "delivered"
    BY <1>1, <1>2
  <2>2. /\ v1[s].cleaned \/ \A d \in v1[s].deps : state[d] = "delivered"
        /\ Registry!CurrentlyMerged(v1, shown, s)
    BY <2>1 DEF Registry!StateOf
  <2> QED
    BY <1>3, <2>2
<1>6. tasks \in SUBSET Registry!Linked(v1)
  BY <1>3
<1> QED
  BY <1>4, <1>5, <1>6

-----------------------------------------------------------------------------
(* The task registry. *)

\* A function on tasks that is made of records.
RegistryOf(entries) ==
    /\ Registry!Linked(entries) \subseteq 1 .. v2
    /\ entries \in [Registry!Linked(entries) -> Registry!Records]

\* A task that was cleaned up keeps its pull request.
KeepsCleaned(entries, new) ==
    \A t \in Registry!Linked(entries) \cap Registry!Linked(new) :
        entries[t].cleaned => new[t].cleaned /\ new[t].url = entries[t].url

\* What a window asks for while the registry is entries.
AskedOf(entries) ==
    Registry!Asked \cup
        [name : {"add"}, task : (1 .. v2) \ Registry!Linked(entries)]

LEMMA UrlsAreKnown ==
    \A t \in 1 .. v2 : v2 \in 0 .. MaxTask => Urls[t] \subseteq Registry!AllUrls
BY BoundsAreNumbers DEF Registry!AllUrls, Registry!Tasks

LEMMA FieldsAreKept ==
    ASSUME NEW e \in Registry!Records
    PROVE  /\ \A d \in SUBSET Registry!Tasks : [e EXCEPT !.deps = d] \in Registry!Records
           /\ \A u \in Registry!AllUrls : [e EXCEPT !.url = u] \in Registry!Records
           /\ \A s \in [url : Registry!AllUrls, merged : BOOLEAN] :
                [e EXCEPT !.snapshot = s] \in Registry!Records
           /\ [e EXCEPT !.cleaned = TRUE] \in Registry!Records
           /\ \A d : [e EXCEPT !.deps = d].cleaned = e.cleaned
                     /\ [e EXCEPT !.deps = d].url = e.url
           /\ \A s : [e EXCEPT !.snapshot = s].cleaned = e.cleaned
                     /\ [e EXCEPT !.snapshot = s].url = e.url
           /\ [e EXCEPT !.cleaned = TRUE].cleaned
           /\ [e EXCEPT !.cleaned = TRUE].url = e.url
<1>1. \A s \in [url : Registry!AllUrls, merged : BOOLEAN] :
        s \in [url : Registry!AllUrls \cup {"none"}, merged : BOOLEAN]
  OBVIOUS
<1> QED
  BY <1>1 DEF Registry!Records

LEMMA RecordIsNew == Registry!Record \in Registry!Records
BY DEF Registry!Record, Registry!Records, Registry!NoSnapshot

\* A record of one task is replaced by another one.
LEMMA WithIsRegistry ==
    ASSUME NEW entries, RegistryOf(entries), NEW t \in Registry!Linked(entries),
           NEW e \in Registry!Records, entries[t].cleaned => e.cleaned /\ e.url = entries[t].url
    PROVE  RegistryOf(Registry!With(entries, t, e))
           /\ KeepsCleaned(entries, Registry!With(entries, t, e))
BY DEF RegistryOf, KeepsCleaned, Registry!With, Registry!Linked

LEMMA SameIsRegistry ==
    ASSUME NEW entries, RegistryOf(entries)
    PROVE  KeepsCleaned(entries, entries)
BY DEF KeepsCleaned

\* What any operation makes of the entries it loaded.
LEMMA AppliedIsRegistry ==
    ASSUME NEW entries, RegistryOf(entries), v2 \in 0 .. MaxTask,
           NEW asked \in AskedOf(entries)
    PROVE  RegistryOf(Registry!Applied(asked, entries))
           /\ KeepsCleaned(entries, Registry!Applied(asked, entries))
<1> DEFINE Good(new) == RegistryOf(new) /\ KeepsCleaned(entries, new)
<1>a. Good(entries)
  BY SameIsRegistry
<1>b. 1 .. v2 \subseteq Registry!Tasks
  BY BoundsAreNumbers DEF Registry!Tasks
<1>c. \A t \in Registry!Linked(entries) : entries[t] \in Registry!Records
  BY DEF RegistryOf
<1>1. CASE asked.name = "add"
  <2>1. asked.task \in (1 .. v2) \ Registry!Linked(entries)
    BY <1>1 DEF AskedOf, Registry!Asked
  <2>2. Good(Registry!AddTask(entries, asked.task))
    BY <2>1, RecordIsNew DEF RegistryOf, KeepsCleaned, Registry!AddTask, Registry!Linked
  <2> QED
    BY <1>1, <2>2 DEF Registry!Applied
<1>2. CASE asked.name = "unlink"
  <2>1. Good(Registry!Unlink(entries, asked.task))
    BY DEF RegistryOf, KeepsCleaned, Registry!Unlink, Registry!Linked, Registry!Restrict
  <2> QED
    BY <1>2, <2>1 DEF Registry!Applied
<1>3. CASE asked.name = "depend"
  <2>1. asked.other \in Registry!Tasks
    BY <1>3, <1>b DEF AskedOf, Registry!Asked
  <2>2. ASSUME asked.task \in Registry!Linked(entries)
        PROVE  Good(Registry!With(entries, asked.task,
                      [entries[asked.task] EXCEPT !.deps = @ \cup {asked.other}]))
    <3> DEFINE e == entries[asked.task]
    <3>1. e \in Registry!Records
      BY <1>c, <2>2
    <3>2. e.deps \cup {asked.other} \in SUBSET Registry!Tasks
      BY <2>1, <3>1 DEF Registry!Records
    <3> QED
      BY <2>2, <3>1, <3>2, WithIsRegistry, FieldsAreKept
  <2>3. Good(Registry!AddDependency(entries, asked.task, asked.other))
    BY <1>a, <2>2 DEF Registry!AddDependency
  <2> QED
    BY <1>3, <2>3 DEF Registry!Applied
<1>4. CASE asked.name = "release"
  <2>1. ASSUME asked.task \in Registry!Linked(entries)
        PROVE  Good(Registry!With(entries, asked.task,
                      [entries[asked.task] EXCEPT !.deps = @ \ {asked.other}]))
    <3> DEFINE e == entries[asked.task]
    <3>1. e \in Registry!Records
      BY <1>c, <2>1
    <3>2. e.deps \ {asked.other} \in SUBSET Registry!Tasks
      BY <3>1 DEF Registry!Records
    <3> QED
      BY <2>1, <3>1, <3>2, WithIsRegistry, FieldsAreKept
  <2>2. Good(Registry!RemoveDependency(entries, asked.task, asked.other))
    BY <1>a, <2>1 DEF Registry!RemoveDependency
  <2> QED
    BY <1>4, <2>2 DEF Registry!Applied
<1>5. CASE asked.name = "request"
  <2>1. asked.url \in Registry!AllUrls
    BY <1>5, UrlsAreKnown DEF AskedOf, Registry!Asked
  <2>2. ASSUME asked.task \in Registry!Linked(entries), ~entries[asked.task].cleaned
        PROVE  Good(Registry!With(entries, asked.task,
                      [entries[asked.task] EXCEPT !.url = asked.url]))
    <3> DEFINE e == entries[asked.task]
    <3>1. e \in Registry!Records
      BY <1>c, <2>2
    <3> QED
      BY <2>1, <2>2, <3>1, WithIsRegistry, FieldsAreKept
  <2>3. Good(Registry!RecordPullRequest(entries, asked.task, asked.url))
    BY <1>a, <2>2 DEF Registry!RecordPullRequest
  <2> QED
    BY <1>5, <2>3 DEF Registry!Applied
<1>6. CASE asked.name = "snapshot"
  <2>1. asked.snapshot \in [url : Registry!AllUrls, merged : BOOLEAN]
    BY <1>6, UrlsAreKnown DEF AskedOf, Registry!Asked
  <2>2. ASSUME asked.task \in Registry!Linked(entries)
        PROVE  Good(Registry!With(entries, asked.task,
                      [entries[asked.task] EXCEPT !.snapshot = asked.snapshot]))
    <3> DEFINE e == entries[asked.task]
    <3>1. e \in Registry!Records
      BY <1>c, <2>2
    <3> QED
      BY <2>1, <2>2, <3>1, WithIsRegistry, FieldsAreKept
  <2>3. Good(Registry!RecordSnapshot(entries, asked.task, asked.snapshot))
    BY <1>a, <2>2 DEF Registry!RecordSnapshot
  <2> QED
    BY <1>6, <2>3 DEF Registry!Applied
<1>7. CASE asked.name = "cleaned"
  <2>1. ASSUME asked.task \in Registry!Linked(entries)
        PROVE  Good(Registry!With(entries, asked.task,
                      [entries[asked.task] EXCEPT !.cleaned = TRUE]))
    <3> DEFINE e == entries[asked.task]
    <3>1. e \in Registry!Records
      BY <1>c, <2>1
    <3> QED
      BY <2>1, <3>1, WithIsRegistry, FieldsAreKept
  <2>2. Good(Registry!MarkCleaned(entries, asked.task, asked.url))
    BY <1>a, <2>1 DEF Registry!MarkCleaned
  <2> QED
    BY <1>7, <2>2 DEF Registry!Applied
<1>8. asked.name \in {"add", "unlink", "depend", "release", "request", "snapshot", "cleaned"}
  BY DEF AskedOf, Registry!Asked
<1> QED
  BY <1>1, <1>2, <1>3, <1>4, <1>5, <1>6, <1>7, <1>8

\* What a dependency names has been recorded.
Recorded(entries) ==
    \A t \in Registry!Linked(entries) : entries[t].deps \subseteq 1 .. v2

\* A record is replaced by one with the same dependencies.
LEMMA WithIsAcyclic ==
    ASSUME NEW entries, RegistryOf(entries), Recorded(entries), Acyclic(entries),
           NEW t \in Registry!Linked(entries), NEW e, e.deps \subseteq entries[t].deps
    PROVE  Recorded(Registry!With(entries, t, e)) /\ Acyclic(Registry!With(entries, t, e))
<1> DEFINE new == Registry!With(entries, t, e)
<1>1. /\ Registry!Linked(new) = Registry!Linked(entries) /\ new[t] = e
      /\ \A s \in Registry!Linked(entries) : s # t => new[s] = entries[s]
  BY DEF RegistryOf, Registry!With, Registry!Linked
<1> HIDE DEF new
<1>2. \A s \in Registry!Linked(entries) : new[s].deps \subseteq entries[s].deps
  BY <1>1
<1>3. \A s \in Registry!Linked(new) : \A d \in Registry!Resolved(new, s) :
        s \in Registry!Linked(entries) /\ d \in Registry!Resolved(entries, s)
  BY <1>1, <1>2 DEF Registry!Resolved
<1> QED
  BY <1>1, <1>2, <1>3, FewerIsAcyclic DEF Recorded, new

\* No operation makes a cycle.
LEMMA AppliedIsAcyclic ==
    ASSUME NEW entries, RegistryOf(entries), Recorded(entries), Acyclic(entries),
           NEW asked \in AskedOf(entries),
           asked.name = "add" =>
               \A t \in Registry!Linked(entries) : asked.task \notin entries[t].deps
    PROVE  Recorded(Registry!Applied(asked, entries)) /\ Acyclic(Registry!Applied(asked, entries))
<1> DEFINE Good(new) == Recorded(new) /\ Acyclic(new)
           t0 == asked.task
<1>a. Good(entries)
  OBVIOUS
<1>1. CASE asked.name = "add"
  <2> DEFINE new == Registry!AddTask(entries, t0)
  <2>1. /\ Registry!Linked(new) = Registry!Linked(entries) \cup {t0}
        /\ \A t \in Registry!Linked(new) :
             new[t] = IF t = t0 THEN Registry!Record ELSE entries[t]
    BY DEF Registry!AddTask, Registry!Linked
  <2>2. Registry!Record.deps = {}
    BY DEF Registry!Record
  <2> HIDE DEF new
  <2>3. Recorded(new)
    BY <2>1, <2>2 DEF Recorded
  <2>4. ASSUME NEW t \in Registry!Linked(new), NEW d \in Registry!Resolved(new, t)
        PROVE  t \in Registry!Linked(entries) /\ d \in Registry!Resolved(entries, t)
    BY <1>1, <2>1, <2>2 DEF Registry!Resolved
  <2>5. Good(new)
    BY <2>3, <2>4, FewerIsAcyclic
  <2> QED
    BY <1>1, <2>5 DEF Registry!Applied, new
<1>2. CASE asked.name = "unlink"
  <2> DEFINE new == Registry!Unlink(entries, t0)
  <2>1. /\ Registry!Linked(new) = Registry!Linked(entries) \ {t0}
        /\ \A t \in Registry!Linked(new) : new[t] = entries[t]
    BY DEF Registry!Unlink, Registry!Linked, Registry!Restrict
  <2> HIDE DEF new
  <2>2. Recorded(new)
    BY <2>1 DEF Recorded
  <2>3. ASSUME NEW t \in Registry!Linked(new), NEW d \in Registry!Resolved(new, t)
        PROVE  t \in Registry!Linked(entries) /\ d \in Registry!Resolved(entries, t)
    BY <2>1 DEF Registry!Resolved
  <2>4. Good(new)
    BY <2>2, <2>3, FewerIsAcyclic
  <2> QED
    BY <1>2, <2>4 DEF Registry!Applied, new
<1>3. CASE asked.name = "depend"
  <2> DEFINE d0 == asked.other
             e == [entries[t0] EXCEPT !.deps = @ \cup {d0}]
             new == Registry!With(entries, t0, e)
  <2>1. d0 \in 1 .. v2
    BY <1>3 DEF AskedOf, Registry!Asked
  <2>2. ASSUME t0 \in Registry!Linked(entries), ~Registry!HasDependencyPath(entries, d0, t0)
        PROVE  Good(new)
    <3>1. e.deps = entries[t0].deps \cup {d0}
      BY <2>2 DEF RegistryOf, Registry!Records
    <3>2. /\ Registry!Linked(new) = Registry!Linked(entries)
          /\ new[t0] = e /\ \A s \in Registry!Linked(entries) : s # t0 => new[s] = entries[s]
      BY <2>2 DEF RegistryOf, Registry!With, Registry!Linked
    <3> HIDE DEF e, new
    <3>3. Recorded(new)
      BY <2>1, <3>1, <3>2 DEF Recorded
    <3>4. t0 \notin Registry!Below(entries, d0)
      BY <2>2 DEF Registry!HasDependencyPath
    <3>5. \A t \in Registry!Linked(new) : \A d \in Registry!Resolved(new, t) :
            d \in Registry!Resolved(entries, t) \/ (t = t0 /\ d = d0)
      BY <3>1, <3>2 DEF Registry!Resolved
    <3>6. Acyclic(new)
      BY <3>2, <3>4, <3>5, AddedIsAcyclic
    <3> QED
      BY <3>3, <3>6
  <2>3. Good(Registry!AddDependency(entries, t0, d0))
    BY <1>a, <2>2 DEF Registry!AddDependency
  <2> QED
    BY <1>3, <2>3 DEF Registry!Applied
<1>4. CASE asked.name = "release"
  <2>1. ASSUME t0 \in Registry!Linked(entries)
        PROVE  Good(Registry!With(entries, t0,
                      [entries[t0] EXCEPT !.deps = @ \ {asked.other}]))
    <3> DEFINE e == [entries[t0] EXCEPT !.deps = @ \ {asked.other}]
    <3>1. e.deps \subseteq entries[t0].deps
      BY <2>1 DEF RegistryOf, Registry!Records
    <3> HIDE DEF e
    <3>2. Good(Registry!With(entries, t0, e))
      BY <2>1, <3>1, WithIsAcyclic
    <3> QED
      BY <3>2 DEF e
  <2>2. Good(Registry!RemoveDependency(entries, t0, asked.other))
    BY <1>a, <2>1 DEF Registry!RemoveDependency
  <2> QED
    BY <1>4, <2>2 DEF Registry!Applied
<1>5. CASE asked.name = "request"
  <2>1. ASSUME t0 \in Registry!Linked(entries)
        PROVE  Good(Registry!With(entries, t0, [entries[t0] EXCEPT !.url = asked.url]))
    <3> DEFINE e == [entries[t0] EXCEPT !.url = asked.url]
    <3>1. e.deps \subseteq entries[t0].deps
      BY <2>1 DEF RegistryOf, Registry!Records
    <3> HIDE DEF e
    <3>2. Good(Registry!With(entries, t0, e))
      BY <2>1, <3>1, WithIsAcyclic
    <3> QED
      BY <3>2 DEF e
  <2>2. Good(Registry!RecordPullRequest(entries, t0, asked.url))
    BY <1>a, <2>1 DEF Registry!RecordPullRequest
  <2> QED
    BY <1>5, <2>2 DEF Registry!Applied
<1>6. CASE asked.name = "snapshot"
  <2>1. ASSUME t0 \in Registry!Linked(entries)
        PROVE  Good(Registry!With(entries, t0, [entries[t0] EXCEPT !.snapshot = asked.snapshot]))
    <3> DEFINE e == [entries[t0] EXCEPT !.snapshot = asked.snapshot]
    <3>1. e.deps \subseteq entries[t0].deps
      BY <2>1 DEF RegistryOf, Registry!Records
    <3> HIDE DEF e
    <3>2. Good(Registry!With(entries, t0, e))
      BY <2>1, <3>1, WithIsAcyclic
    <3> QED
      BY <3>2 DEF e
  <2>2. Good(Registry!RecordSnapshot(entries, t0, asked.snapshot))
    BY <1>a, <2>1 DEF Registry!RecordSnapshot
  <2> QED
    BY <1>6, <2>2 DEF Registry!Applied
<1>7. CASE asked.name = "cleaned"
  <2>1. ASSUME t0 \in Registry!Linked(entries)
        PROVE  Good(Registry!With(entries, t0, [entries[t0] EXCEPT !.cleaned = TRUE]))
    <3> DEFINE e == [entries[t0] EXCEPT !.cleaned = TRUE]
    <3>1. e.deps \subseteq entries[t0].deps
      BY <2>1 DEF RegistryOf, Registry!Records
    <3> HIDE DEF e
    <3>2. Good(Registry!With(entries, t0, e))
      BY <2>1, <3>1, WithIsAcyclic
    <3> QED
      BY <3>2 DEF e
  <2>2. Good(Registry!MarkCleaned(entries, t0, asked.url))
    BY <1>a, <2>1 DEF Registry!MarkCleaned
  <2> QED
    BY <1>7, <2>2 DEF Registry!Applied
<1>8. asked.name \in {"add", "unlink", "depend", "release", "request", "snapshot", "cleaned"}
  BY DEF AskedOf, Registry!Asked
<1> QED
  BY <1>1, <1>2, <1>3, <1>4, <1>5, <1>6, <1>7, <1>8

LEMMA RegistryBegins == Registry!Init => Registry!IInv
<1> SUFFICES ASSUME Registry!Init PROVE Registry!IInv
  OBVIOUS
<1>1. Registry!Linked(v1) = {}
  BY DEF Registry!Init, Registry!Linked
<1>2. Registry!DependenciesAreRecorded /\ Registry!DependenciesAreAcyclic
  BY <1>1 DEF Registry!DependenciesAreRecorded, Registry!DependenciesAreAcyclic
<1> QED
  BY <1>2, BoundsAreNumbers DEF Registry!Init, Registry!IInv, Registry!TypeOK,
     Registry!Linked, Registry!ChangesAreOfTheFile

LEMMA RegistryStutters == Registry!IInv /\ UNCHANGED Registry!vars => Registry!IInv'
<1> SUFFICES ASSUME Registry!IInv, UNCHANGED Registry!vars PROVE Registry!IInv'
  OBVIOUS
<1>1. UNCHANGED <<v1, v2, v3>>
  BY DEF Registry!vars
<1> QED
  BY <1>1 DEF Registry!IInv, Registry!TypeOK, Registry!ChangesAreOfTheFile, Registry!Asked,
     Registry!DependenciesAreRecorded, Registry!DependenciesAreAcyclic

\* A window loads the file while no other changes it.
LEMMA LoadIsOfTheFile ==
    ASSUME Registry!IInv, NEW w \in Windows, NEW asked, Registry!Load(w, asked),
           v2' \in 0 .. MaxTask, v2' >= v2, asked \in AskedOf(v1)',
           asked.name = "add" => asked.task \notin 1 .. v2
    PROVE  Registry!IInv'
<1> USE DEF Registry!IInv, Registry!Load, Registry!LockFree
<1>1. v1' = v1 /\ v3' = [v3 EXCEPT ![w] = [asked |-> asked, loaded |-> v1]]
  OBVIOUS
<1>2. \A u \in Windows : v3[u].asked = Registry!None
  OBVIOUS
<1>3. /\ v3'[w] = [asked |-> asked, loaded |-> v1]
      /\ \A u \in Windows : u # w => v3'[u] = v3[u]
      /\ v3' = [u \in Windows |-> [asked |-> v3'[u].asked, loaded |-> v3'[u].loaded]]
  BY <1>1 DEF Registry!TypeOK
<1>4. Registry!TypeOK'
  <2>1. v3'[w].asked # Registry!None
    BY <1>3 DEF AskedOf, Registry!Asked, Registry!None
  <2> QED
    BY <1>1, <1>2, <1>3, <2>1, BoundsAreNumbers DEF Registry!TypeOK, Registry!Linked
<1>5. Registry!ChangesAreOfTheFile'
  BY <1>1, <1>2, <1>3 DEF Registry!ChangesAreOfTheFile, AskedOf
<1>6. Registry!DependenciesAreRecorded'
  <2>1. v2 \in 0 .. MaxTask /\ \A t \in Registry!Linked(v1) : v1[t].deps \subseteq 1 .. v2
    BY DEF Registry!TypeOK, Registry!DependenciesAreRecorded
  <2>2. 1 .. v2 \subseteq 1 .. v2'
    BY <2>1, BoundsAreNumbers
  <2>3. \A u \in Windows : v3'[u].asked.name = "add" => v3'[u].asked.task \notin 1 .. v2
    BY <1>2, <1>3 DEF Registry!None
  <2> QED
    BY <1>1, <2>1, <2>2, <2>3 DEF Registry!DependenciesAreRecorded
<1>7. Registry!DependenciesAreAcyclic'
  BY <1>1 DEF Registry!DependenciesAreAcyclic
<1> QED
  BY <1>4, <1>5, <1>6, <1>7

LEMMA SaveIsOfTheFile ==
    ASSUME Registry!IInv, NEW w \in Windows, Registry!Save(w)
    PROVE  Registry!IInv' /\ Registry!ChangeIsMadeOnTheFile
<1> DEFINE asked == v3[w].asked
<1> USE DEF Registry!IInv
<1>1. /\ asked # Registry!None /\ UNCHANGED v2
      /\ v3' = [v3 EXCEPT ![w] = [asked |-> Registry!None, loaded |-> <<>>]]
  BY DEF Registry!Save
<1>2. v3[w].loaded = v1 /\ asked \in AskedOf(v1) /\ RegistryOf(v1) /\ v2 \in 0 .. MaxTask
  BY <1>1 DEF Registry!TypeOK, Registry!ChangesAreOfTheFile, AskedOf, RegistryOf
<1>3. v1' = Registry!Applied(asked, v1) \/ v1' = v1
  BY <1>2 DEF Registry!Save
<1>4. RegistryOf(v1)' /\ KeepsCleaned(v1, v1')
  <2>1. RegistryOf(Registry!Applied(asked, v1)) /\ KeepsCleaned(v1, Registry!Applied(asked, v1))
    BY <1>2, AppliedIsRegistry
  <2> QED
    BY <1>1, <1>2, <1>3, <2>1, SameIsRegistry DEF RegistryOf
<1>5. /\ \A u \in Windows : v3'[u].asked = Registry!None /\ v3'[u].loaded = <<>>
      /\ v3' = [u \in Windows |-> [asked |-> v3'[u].asked, loaded |-> v3'[u].loaded]]
  BY <1>1 DEF Registry!TypeOK, Registry!ChangesAreOfTheFile
<1>6. Recorded(v1)' /\ Acyclic(v1)'
  <2>1. Recorded(v1) /\ Acyclic(v1)
    BY DEF Registry!DependenciesAreRecorded, Registry!DependenciesAreAcyclic, Recorded, Acyclic
  <2>2. asked.name = "add" => \A t \in Registry!Linked(v1) : asked.task \notin v1[t].deps
    BY DEF Registry!DependenciesAreRecorded
  <2>3. Recorded(Registry!Applied(asked, v1)) /\ Acyclic(Registry!Applied(asked, v1))
    BY <1>2, <2>1, <2>2, AppliedIsAcyclic
  <2> QED
    BY <1>1, <1>3, <2>1, <2>3 DEF Recorded
<1>7. Registry!DependenciesAreRecorded' /\ Registry!DependenciesAreAcyclic'
  BY <1>5, <1>6 DEF Registry!DependenciesAreRecorded, Registry!DependenciesAreAcyclic,
     Recorded, Acyclic, Registry!None
<1>8. Registry!IInv'
  BY <1>1, <1>2, <1>4, <1>5, <1>7 DEF Registry!TypeOK, Registry!ChangesAreOfTheFile, RegistryOf
<1>9. Registry!ChangeIsMadeOnTheFile
  BY <1>1, <1>3, <1>4 DEF Registry!ChangeIsMadeOnTheFile, KeepsCleaned
<1> QED
  BY <1>8, <1>9

LEMMA RegistryStep ==
    Registry!IInv /\ Registry!Next => Registry!IInv' /\ Registry!ChangeIsMadeOnTheFile
<1> SUFFICES ASSUME Registry!IInv, NEW w \in Windows,
                    Registry!Add(w) \/ Registry!Ask(w) \/ Registry!Save(w)
             PROVE  Registry!IInv' /\ Registry!ChangeIsMadeOnTheFile
  BY DEF Registry!Next
<1>0. v2 \in 0 .. MaxTask /\ Registry!Linked(v1) \subseteq 1 .. v2
  BY DEF Registry!IInv, Registry!TypeOK
<1>1. CASE Registry!Add(w)
  <2> DEFINE asked == [name |-> "add", task |-> v2 + 1]
  <2>1. Registry!Load(w, asked) /\ v2' = v2 + 1 /\ v2 < MaxTask
    BY <1>1 DEF Registry!Add
  <2>2. v1' = v1
    BY <2>1 DEF Registry!Load
  <2>3. asked \in AskedOf(v1)'
    BY <1>0, <2>1, <2>2, BoundsAreNumbers DEF AskedOf
  <2>4. Registry!IInv'
    <3>1. asked.name = "add" => asked.task \notin 1 .. v2
      BY <1>0
    <3> QED
      BY <1>0, <2>1, <2>3, <3>1, LoadIsOfTheFile, BoundsAreNumbers
  <2> QED
    BY <2>2, <2>4 DEF Registry!ChangeIsMadeOnTheFile
<1>2. CASE Registry!Ask(w)
  <2>1. PICK asked \in Registry!Asked : Registry!Load(w, asked) /\ UNCHANGED v2
    BY <1>2 DEF Registry!Ask
  <2>2. v1' = v1
    BY <2>1 DEF Registry!Load
  <2>3. asked \in AskedOf(v1)'
    BY <2>1 DEF AskedOf, Registry!Asked
  <2>4. asked.name # "add"
    BY <2>1 DEF Registry!Asked
  <2>5. Registry!IInv'
    BY <1>0, <2>1, <2>3, <2>4, LoadIsOfTheFile
  <2> QED
    BY <2>2, <2>5 DEF Registry!ChangeIsMadeOnTheFile
<1>3. CASE Registry!Save(w)
  BY <1>3, SaveIsOfTheFile
<1> QED
  BY <1>1, <1>2, <1>3

\* The order and the readiness, in any state.
LEMMA RegistryOrder ==
    Registry!IInv =>
        Registry!DependenciesAreAcyclic /\ Registry!OrderIsRight /\ Registry!ReadyMeansMerged
<1> SUFFICES ASSUME Registry!IInv
             PROVE  /\ Registry!DependenciesAreAcyclic
                    /\ Registry!OrderIsRight /\ Registry!ReadyMeansMerged
  OBVIOUS
<1>1. Numbered(v1)
  BY BoundsAreNumbers DEF Registry!IInv, Registry!TypeOK, Numbered
<1>2. Registry!DependenciesAreAcyclic /\ Acyclic(v1)
  BY DEF Registry!IInv, Registry!DependenciesAreAcyclic, Acyclic
<1> QED
  BY <1>1, <1>2, OrderOfAcyclic, ReadinessOfAcyclic

-----------------------------------------------------------------------------
(* The merge preview and the verification of its tree. *)

LEMMA ConfigsAreTwo ==
    /\ Combined!Tasks = {"p", "q"} /\ Combined!Versions = 1 .. 2 /\ Len(Configs) = 2
    /\ \A v \in 1 .. 2, t \in {"p", "q"} : Configs[v].command[t] \in {"a", "b", "none"}
BY DEF Configs, Combined!Tasks, Combined!Versions

LEMMA SamePlanCardinality == \A s : Combined!Cardinality(s) = Cardinality(s)
BY DEF Combined!Cardinality, Cardinality, Combined!IsFiniteSet, IsFiniteSet

LEMMA PlanIsCounted ==
    ASSUME NEW r \in Combined!Results
    PROVE  LET plan == Combined!Covered(r.inputs.version, r.inputs.of.tasks)
           IN  /\ Combined!Cardinality(plan) \in Nat
               /\ Combined!Cardinality(plan) = 0 <=> plan = {}
<1> DEFINE plan == Combined!Covered(r.inputs.version, r.inputs.of.tasks)
<1>1. plan \subseteq {"a", "b"}
  BY ConfigsAreTwo DEF Combined!Results, Combined!Identities, Combined!Covered
<1>2. IsFiniteSet({"a", "b"})
  <2>1. {"a", "b"} = {"a"} \cup {"b"}
    OBVIOUS
  <2>2. IsFiniteSet({"a"})
    BY FS_Singleton
  <2>3. IsFiniteSet({"a"} \cup {"b"})
    BY <2>2, FS_AddElement
  <2> QED
    BY <2>1, <2>3
<1>3. IsFiniteSet(plan)
  BY <1>1, <1>2, FS_Subset
<1> HIDE DEF plan
<1>4. Cardinality(plan) \in Nat /\ (Cardinality(plan) = 0 <=> plan = {})
  BY <1>3, FS_CardinalityType, FS_EmptySet
<1> QED
  BY <1>4, SamePlanCardinality DEF plan

LEMMA IdentityIsOfTasks ==
    ASSUME NEW version \in Combined!Versions, NEW tasks \in SUBSET Combined!Tasks
    PROVE  /\ Combined!Identity(version, tasks) \in Combined!Identities
           /\ Combined!Identity(version, tasks).links = Configs[version].links
           /\ Combined!Identity(version, tasks).tasks = tasks
BY DEF Combined!Identity, Combined!Identities, Combined!Links

LEMMA NoIdentityIsOne == Combined!NoIdentity \in Combined!Identities
BY DEF Combined!NoIdentity, Combined!Identities, Combined!Links

LEMMA NothingIsTyped ==
    /\ Combined!NoPreview \in Combined!Previews /\ Combined!NoCapture \in Combined!Workers
    /\ Combined!Unavailable \in Combined!Previews
    /\ Combined!NoResult \in Combined!Results /\ Combined!NoCheck \in Combined!Checks
<1> USE BoundsAreNumbers, NoIdentityIsOne
    DEF Combined!Captured, Combined!Contents, Combined!Unread, Combined!NoSources
<1>1. Combined!NoPreview \in Combined!Previews /\ Combined!Unavailable \in Combined!Previews
  BY DEF Combined!Previews, Combined!NoPreview, Combined!Unavailable
<1>2. Combined!NoCapture \in Combined!Workers
  BY DEF Combined!Workers, Combined!NoCapture
<1>3. Combined!NoResult \in Combined!Results
  <2>1. Combined!NoInputs \in [of : Combined!Identities, version : Combined!Versions,
                               base : Combined!Captured,
                               sources : [Combined!Tasks -> Combined!Captured]]
    BY ConfigsAreTwo DEF Combined!NoInputs
  <2>2. <<>> \in Seq(Combined!Ends)
    OBVIOUS
  <2> QED
    BY <2>1, <2>2 DEF Combined!NoResult, Combined!Results
<1>4. Combined!NoCheck \in Combined!Checks
  BY DEF Combined!NoCheck, Combined!Checks, Combined!Stages
<1> QED
  BY <1>1, <1>2, <1>3, <1>4

LEMMA ResultOfNothing ==
    /\ Combined!NoResult.done = <<>> /\ Combined!NoResult.status = "none"
    /\ Combined!NoResult.inputs = Combined!NoInputs
BY DEF Combined!NoResult

LEMMA CombinedBegins == Combined!Init => Combined!IInv
<1> SUFFICES ASSUME Combined!Init PROVE Combined!IInv
  OBVIOUS
<1> USE BoundsAreNumbers, ConfigsAreTwo DEF Combined!Init
<1>1. Combined!TypeOK
  <2>1. Combined!ResultOK
    BY NothingIsTyped, ResultOfNothing, PlanIsCounted
    DEF Combined!ResultOK, Combined!Plan, Combined!Inputs
  <2> QED
    BY <2>1, NothingIsTyped DEF Combined!TypeOK, Combined!Contents
<1>2. Combined!CombinedPassIsReal
  BY ResultOfNothing DEF Combined!CombinedPassIsReal
<1>3. Combined!ChecksArePlanned
  BY DEF Combined!ChecksArePlanned, Combined!CheckRunning, Combined!NoCheck
<1>4. Combined!ChangesAreFound
  BY DEF Combined!ChangesAreFound, Combined!NoCheck
<1>5. Combined!SentIsReal
  BY DEF Combined!SentIsReal, Combined!NoCheck
<1> QED
  BY <1>1, <1>2, <1>3, <1>4, <1>5 DEF Combined!IInv

LEMMA CombinedStutters ==
    Combined!IInv /\ UNCHANGED Combined!combined => Combined!IInv'
<1> SUFFICES ASSUME Combined!IInv, UNCHANGED Combined!combined PROVE Combined!IInv'
  OBVIOUS
<1>1. UNCHANGED <<v1, v2, v3, v4, v5, v6, v7, v8, v9, v10>>
  BY DEF Combined!combined, Combined!outside, Combined!previewing, Combined!checking
<1> QED
  BY <1>1 DEF Combined!IInv, Combined!TypeOK, Combined!ResultOK, Combined!Plan, Combined!Ran,
   Combined!Inputs, Combined!CombinedPassIsReal, Combined!Real, Combined!ChecksArePlanned,
   Combined!CheckRunning, Combined!Reads, Combined!ChangesAreFound, Combined!Matches,
   Combined!Agrees, Combined!SentIsReal

\* What a step of the others keeps of a verification.
LEMMA CheckIsKept ==
    /\ Combined!IInv /\ UNCHANGED <<v1, v2, v3, v8, v9>>
    => /\ Combined!ResultOK' /\ Combined!CombinedPassIsReal' /\ Combined!ChecksArePlanned'
       /\ Combined!ChangesAreFound' /\ Combined!SentIsReal' /\ v9' \in Combined!Checks
BY DEF Combined!IInv, Combined!TypeOK, Combined!ResultOK, Combined!Plan, Combined!Ran,
   Combined!Inputs, Combined!CombinedPassIsReal, Combined!Real, Combined!ChecksArePlanned,
   Combined!CheckRunning, Combined!Reads, Combined!ChangesAreFound, Combined!Matches,
   Combined!Agrees, Combined!SentIsReal

LEMMA ReadsAreOfTasks ==
    v8 \in Combined!Results =>
        Combined!Reads \in SUBSET ({"base", "records"} \cup Combined!Tasks)
BY DEF Combined!Results, Combined!Identities, Combined!Reads, Combined!Inputs

LEMMA ResultIsHeld ==
    ASSUME NEW r \in Combined!Results,
           NEW held \in SUBSET ({"base", "records"} \cup Combined!Tasks)
    PROVE  /\ [r EXCEPT !.held = r.held \cup held] \in Combined!Results
           /\ [r EXCEPT !.held = r.held \cup held].held = r.held \cup held
           /\ [r EXCEPT !.held = r.held \cup held].inputs = r.inputs
           /\ [r EXCEPT !.held = r.held \cup held].status = r.status
           /\ [r EXCEPT !.held = r.held \cup held].done = r.done
BY DEF Combined!Results

\* When the base, the sources or the records change, what is as captured by the change is
\* noted, so that what is not noted is not as captured.
LEMMA ChangeIsNoted ==
    ASSUME Combined!IInv, Combined!Noted, UNCHANGED v9
    PROVE  /\ Combined!ResultOK' /\ Combined!CombinedPassIsReal'
           /\ Combined!ChecksArePlanned' /\ Combined!ChangesAreFound'
           /\ Combined!SentIsReal'
<1>1. v8 \in Combined!Results /\ Combined!ResultOK
  BY DEF Combined!IInv, Combined!TypeOK, Combined!ResultOK
<1> DEFINE matching == {read \in Combined!Reads : Combined!Agrees(read, v1', v2', v3')}
           noted == v9.pc \in {"next", "final"} /\ Combined!Ran(v8.done)
<1>2. v8' = IF noted THEN [v8 EXCEPT !.held = v8.held \cup matching] ELSE v8
  BY DEF Combined!Noted
<1>3. matching \in SUBSET ({"base", "records"} \cup Combined!Tasks)
  BY <1>1, ReadsAreOfTasks
<1> HIDE DEF matching
<1>4. /\ v8' \in Combined!Results /\ v8'.inputs = v8.inputs /\ v8'.status = v8.status
      /\ v8'.done = v8.done /\ v8.held \subseteq v8'.held
      /\ noted => v8'.held = v8.held \cup matching
  <2>1. CASE noted
    <3>1. v8' = [v8 EXCEPT !.held = v8.held \cup matching]
      BY <1>2, <2>1
    <3> HIDE DEF noted
    <3> QED
      BY <1>1, <1>3, <3>1, ResultIsHeld
  <2>2. CASE ~noted
    BY <1>1, <1>2, <2>2
  <2> QED
    BY <2>1, <2>2
<1>5. /\ Combined!Inputs' = Combined!Inputs /\ Combined!Plan' = Combined!Plan
      /\ Combined!Reads' = Combined!Reads
  BY <1>4 DEF Combined!Inputs, Combined!Plan, Combined!Reads
<1>6. /\ Combined!ResultOK' /\ Combined!ChecksArePlanned'
      /\ Combined!Ran(v8.done)' <=> Combined!Ran(v8.done)
  BY <1>1, <1>4, <1>5 DEF Combined!IInv, Combined!ResultOK, Combined!ChecksArePlanned,
     Combined!CheckRunning, Combined!Ran
<1>7. Combined!Real => Combined!Real'
  <2>1. Combined!ToSet(v8.done)' = Combined!ToSet(v8.done)
    BY <1>4 DEF Combined!ToSet
  <2> QED
    BY <1>4, <1>5, <1>6, <2>1 DEF Combined!Real, Combined!Unconfigured
<1>8. Combined!CombinedPassIsReal' /\ Combined!SentIsReal'
  BY <1>4, <1>7 DEF Combined!IInv, Combined!CombinedPassIsReal, Combined!SentIsReal
<1>9. ASSUME noted, NEW read \in Combined!Reads \ v8'.held
      PROVE  ~Combined!Matches(read)' /\ (v9.pc = "final" => read \in v9.left)
  <2>1. read \notin v8.held /\ read \notin matching
    BY <1>4, <1>9
  <2>2. v9.pc = "final" => read \in v9.left
    BY <1>9, <2>1 DEF Combined!IInv, Combined!ChangesAreFound
  <2>3. ~Combined!Agrees(read, v1', v2', v3')
    BY <1>9, <2>1 DEF matching
  <2>4. Combined!Matches(read)' <=> Combined!Agrees(read, v1', v2', v3')
    BY <1>5 DEF Combined!Matches, Combined!Agrees
  <2> QED
    BY <2>2, <2>3, <2>4
<1>10. Combined!ChangesAreFound'
  BY <1>5, <1>6, <1>9 DEF Combined!ChangesAreFound
<1> QED
  BY <1>6, <1>8, <1>10

LEMMA OutsideStep ==
    ASSUME Combined!IInv,
           Combined!Select \/ Combined!Configure \/ Combined!Reload \/ Combined!Change
    PROVE  Combined!IInv'
<1> USE BoundsAreNumbers, ConfigsAreTwo
<1>1. /\ v1 \in Combined!Contents /\ v2 \in [Combined!Tasks -> Combined!Contents]
      /\ v3 \in 1 .. 2 /\ v10 \in 0 .. MaxEdit
      /\ v4 \in 1 .. v3 /\ v5 \subseteq Combined!Tasks
      /\ v6 \in Combined!Previews /\ v7 \in Combined!Workers /\ v9 \in Combined!Checks
  BY DEF Combined!IInv, Combined!TypeOK
<1>2. UNCHANGED <<v6, v7, v9>>
  BY DEF Combined!Select, Combined!Configure, Combined!Reload, Combined!Change,
     Combined!previewing, Combined!checking
<1>3. /\ v1' \in Combined!Contents /\ v2' \in [Combined!Tasks -> Combined!Contents]
      /\ v10' \in 0 .. MaxEdit
  <2>1. CASE Combined!Change
    BY <1>1, <2>1 DEF Combined!Change
  <2>2. CASE ~Combined!Change
    BY <1>1, <2>2 DEF Combined!Select, Combined!Configure, Combined!Reload, Combined!outside
  <2> QED
    BY <2>1, <2>2
<1>4. v3' \in 1 .. 2 /\ v4' \in 1 .. v3' /\ v5' \subseteq Combined!Tasks
  <2>1. CASE Combined!Configure
    BY <1>1, <2>1 DEF Combined!Configure
  <2>2. CASE Combined!Select
    BY <1>1, <2>2 DEF Combined!Select, Combined!outside
  <2>3. CASE Combined!Reload
    BY <1>1, <2>3 DEF Combined!Reload, Combined!outside
  <2>4. CASE Combined!Change
    BY <1>1, <2>4 DEF Combined!Change
  <2> QED
    BY <2>1, <2>2, <2>3, <2>4
<1>5. /\ Combined!ResultOK' /\ Combined!CombinedPassIsReal' /\ Combined!ChecksArePlanned'
      /\ Combined!ChangesAreFound' /\ Combined!SentIsReal'
  <2>1. CASE Combined!Configure \/ Combined!Change
    BY <1>2, <2>1, ChangeIsNoted DEF Combined!Configure, Combined!Change
  <2>2. CASE Combined!Select \/ Combined!Reload
    <3>1. UNCHANGED <<v1, v2, v3, v8, v9>>
      BY <2>2 DEF Combined!Select, Combined!Reload, Combined!outside, Combined!checking
    <3> QED
      BY <3>1, CheckIsKept
  <2> QED
    BY <2>1, <2>2
<1>6. Combined!TypeOK'
  BY <1>1, <1>2, <1>3, <1>4, <1>5 DEF Combined!TypeOK
<1> QED
  BY <1>5, <1>6 DEF Combined!IInv

LEMMA PreviewMoves ==
    ASSUME Combined!IInv, Combined!StartPreview \/ Combined!PreviewStep
    PROVE  Combined!IInv'
<1> USE BoundsAreNumbers, ConfigsAreTwo
<1>1. /\ v1 \in Combined!Contents /\ v2 \in [Combined!Tasks -> Combined!Contents]
      /\ v3 \in 1 .. 2 /\ v10 \in 0 .. MaxEdit
      /\ v4 \in 1 .. v3 /\ v5 \subseteq Combined!Tasks
      /\ v6 \in Combined!Previews /\ v7 \in Combined!Workers /\ v9 \in Combined!Checks
  BY DEF Combined!IInv, Combined!TypeOK
<1>2. UNCHANGED <<v1, v2, v3, v4, v5, v8, v9, v10>>
  BY DEF Combined!StartPreview, Combined!PreviewStep, Combined!outside, Combined!checking
<1>3. v6' \in Combined!Previews
  <2>1. CASE Combined!PreviewStep
    BY <1>1, <2>1 DEF Combined!PreviewStep
  <2>2. CASE Combined!StartPreview
    <3>1. Combined!Shown \in Combined!Identities
      BY <1>1, IdentityIsOfTasks DEF Combined!Shown
    <3>2. v6' = [Combined!NoPreview EXCEPT !.state = "Running", !.of = Combined!Shown]
      BY <2>2 DEF Combined!StartPreview
    <3>3. \A p \in Combined!Previews, of \in Combined!Identities :
             [p EXCEPT !.state = "Running", !.of = of] \in Combined!Previews
      BY DEF Combined!Previews
    <3> QED
      BY <3>1, <3>2, <3>3, NothingIsTyped
  <2> QED
    BY <2>1, <2>2
<1>4. v7' \in Combined!Workers
  <2>1. \A w \in Combined!Workers, stage \in {"base", "merging", "ConflictFree", "Conflicted",
                                              "Unavailable"} :
           [w EXCEPT !.pc = stage] \in Combined!Workers
    BY DEF Combined!Workers
  <2>2. \A w \in Combined!Workers :
           [w EXCEPT !.pc = "sources", !.base = v1] \in Combined!Workers
    BY <1>1 DEF Combined!Workers, Combined!Captured
  <2>3. \A w \in Combined!Workers, t \in Combined!Tasks :
           [w EXCEPT !.sources[t] = v2[t]] \in Combined!Workers
    BY <1>1 DEF Combined!Workers, Combined!Captured
  <2>4. CASE Combined!StartPreview
    BY <2>1, <2>4, NothingIsTyped DEF Combined!StartPreview
  <2>5. CASE Combined!PreviewStep /\ Combined!Captures
    <3>1. v6.of.tasks \subseteq Combined!Tasks
      BY <1>1 DEF Combined!Previews, Combined!Identities
    <3> QED
      BY <1>1, <2>1, <2>2, <2>3, <2>5, <3>1 DEF Combined!Captures
  <2>6. CASE Combined!PreviewStep /\ ~Combined!Captures
    <3>1. \E stage \in {"ConflictFree", "Conflicted", "Unavailable"} :
             \/ v7' = [v7 EXCEPT !.pc = stage]
             \/ v7' = [Combined!NoCapture EXCEPT !.pc = stage]
      BY <2>6 DEF Combined!PreviewStep, Combined!Answers
    <3>2. PICK stage \in {"ConflictFree", "Conflicted", "Unavailable"} :
             \/ v7' = [v7 EXCEPT !.pc = stage]
             \/ v7' = [Combined!NoCapture EXCEPT !.pc = stage]
      BY <3>1
    <3>3. /\ [v7 EXCEPT !.pc = stage] \in Combined!Workers
          /\ [Combined!NoCapture EXCEPT !.pc = stage] \in Combined!Workers
      BY <1>1, <2>1, NothingIsTyped
    <3> QED
      BY <3>2, <3>3
  <2> QED
    BY <2>4, <2>5, <2>6
<1>5. Combined!TypeOK'
  BY <1>1, <1>2, <1>3, <1>4, CheckIsKept DEF Combined!TypeOK
<1> QED
  BY <1>2, <1>5, CheckIsKept DEF Combined!IInv

\* A step of the verification's worker need only keep what concerns it.
LEMMA CheckMoves ==
    ASSUME Combined!IInv, Combined!CheckRunning, UNCHANGED <<v1, v2, v3, v4, v5, v6, v7, v10>>,
           v8'.inputs = v8.inputs, v8'.status = v8.status, v8' \in Combined!Results,
           Len(v8'.done) <= Combined!Cardinality(Combined!Plan),
           v9' \in Combined!Checks,
           v9'.pc \in {"first", "before", "final"} => v9'.left \subseteq Combined!Reads,
           v9'.pc \in {"starting", "first", "before", "command"} =>
             Len(v8'.done) < Combined!Cardinality(Combined!Plan),
           v9'.pc \in {"next", "final"} /\ Len(v8'.done) = Combined!Cardinality(Combined!Plan) =>
             \A read \in Combined!Reads \ v8'.held :
               ~Combined!Matches(read) /\ (v9'.pc = "final" => read \in v9'.left),
           v9'.pc = "sent" /\ v9'.status = "Passed" => Combined!Real'
    PROVE  Combined!IInv'
<1>1. /\ Combined!Inputs' = Combined!Inputs /\ Combined!Plan' = Combined!Plan
      /\ Combined!Reads' = Combined!Reads
  BY DEF Combined!Inputs, Combined!Plan, Combined!Reads
<1>2. Combined!TypeOK'
  BY <1>1 DEF Combined!IInv, Combined!TypeOK, Combined!ResultOK
<1>3. v8.status = "Running"
  BY DEF Combined!IInv, Combined!ChecksArePlanned
<1>4. Combined!CombinedPassIsReal' /\ Combined!SentIsReal'
  BY <1>3 DEF Combined!CombinedPassIsReal, Combined!SentIsReal
<1>5. Combined!ChecksArePlanned'
  BY <1>1, <1>3 DEF Combined!IInv, Combined!ChecksArePlanned, Combined!CheckRunning
<1>6. \A read : Combined!Matches(read) <=> Combined!Matches(read)'
  BY <1>1 DEF Combined!Matches, Combined!Agrees, Combined!Identity
<1>7. Combined!ChangesAreFound'
  BY <1>1, <1>6 DEF Combined!ChangesAreFound, Combined!Ran
<1> QED
  BY <1>2, <1>4, <1>5, <1>7 DEF Combined!IInv

\* The forms in which the worker's state changes.
LEMMA CheckChanges ==
    ASSUME NEW c \in Combined!Checks
    PROVE  /\ \A pc \in Combined!Stages :
                /\ [c EXCEPT !.pc = pc] \in Combined!Checks
                /\ [c EXCEPT !.pc = pc].pc = pc
           /\ \A pc \in Combined!Stages,
                 left \in SUBSET ({"base", "records"} \cup Combined!Tasks) :
                /\ [c EXCEPT !.pc = pc, !.left = left] \in Combined!Checks
                /\ [c EXCEPT !.pc = pc, !.left = left].pc = pc
                /\ [c EXCEPT !.pc = pc, !.left = left].left = left
           /\ \A left \in SUBSET ({"base", "records"} \cup Combined!Tasks) :
                /\ [c EXCEPT !.left = left] \in Combined!Checks
                /\ [c EXCEPT !.left = left].pc = c.pc
                /\ [c EXCEPT !.left = left].left = left
           /\ [c EXCEPT !.stop = TRUE] \in Combined!Checks
           /\ [c EXCEPT !.unprepared = TRUE] \in Combined!Checks
           /\ \A failed \in {"Stale", "Unavailable"} :
                [c EXCEPT !.failed = failed] \in Combined!Checks
           /\ [c EXCEPT !.cancel = TRUE] \in Combined!Checks
           /\ [c EXCEPT !.cancel = TRUE].pc = c.pc
           /\ [c EXCEPT !.cancel = TRUE].left = c.left
           /\ [c EXCEPT !.cancel = TRUE].status = c.status
BY DEF Combined!Checks, Combined!Stages

LEMMA AnswerIsSent ==
    ASSUME v9 \in Combined!Checks,
           NEW status \in {"none", "Partial"} \cup Combined!Failures \cup Combined!Ends
    PROVE  /\ Combined!Sent(status) \in Combined!Checks
           /\ Combined!Sent(status).pc = "sent" /\ Combined!Sent(status).status = status
BY NothingIsTyped DEF Combined!Sent, Combined!Checks, Combined!Stages, Combined!NoCheck

LEMMA ResultGrows ==
    ASSUME NEW r \in Combined!Results, NEW state \in Combined!Ends,
           NEW held \in SUBSET ({"base", "records"} \cup Combined!Tasks)
    PROVE  LET n == [r EXCEPT !.done = Append(r.done, state), !.held = held]
           IN  /\ n \in Combined!Results /\ n.done = Append(r.done, state)
               /\ Len(n.done) = Len(r.done) + 1
               /\ n.inputs = r.inputs /\ n.status = r.status /\ n.held = held
<1>1. r.done \in Seq(Combined!Ends)
  BY DEF Combined!Results
<1>2. Append(r.done, state) \in Seq(Combined!Ends)
      /\ Len(Append(r.done, state)) = Len(r.done) + 1
  BY <1>1, AppendProperties
<1>3. ASSUME NEW d \in Seq(Combined!Ends)
      PROVE  LET n == [r EXCEPT !.done = d, !.held = held]
             IN  /\ n \in Combined!Results /\ n.done = d /\ n.held = held
                 /\ n.inputs = r.inputs /\ n.status = r.status
  BY DEF Combined!Results
<1> DEFINE n == [r EXCEPT !.done = Append(r.done, state), !.held = held]
<1>4. /\ n \in Combined!Results /\ n.done = Append(r.done, state) /\ n.held = held
      /\ n.inputs = r.inputs /\ n.status = r.status
  BY <1>2, <1>3
<1> QED
  BY <1>2, <1>4

LEMMA ResultIsTaken ==
    ASSUME NEW r \in Combined!Results,
           NEW status \in {"none", "Running", "Partial"} \cup Combined!Failures
                           \cup Combined!Ends
    PROVE  LET n == [r EXCEPT !.status = status]
           IN  /\ n \in Combined!Results /\ n.status = status /\ n.held = r.held
               /\ n.inputs = r.inputs /\ n.done = r.done
BY DEF Combined!Results

LEMMA ResultIsShown ==
    ASSUME NEW r \in Combined!Results,
           NEW status \in {"none", "Running", "Partial"} \cup Combined!Failures
                           \cup Combined!Ends
    PROVE  LET n == [r EXCEPT !.status = status, !.done = <<>>, !.held = {}]
           IN  /\ n \in Combined!Results /\ n.status = status
               /\ n.inputs = r.inputs /\ n.done = <<>>
<1>1. <<>> \in Seq(Combined!Ends)
  OBVIOUS
<1>2. \A d \in Seq(Combined!Ends) :
        LET n == [r EXCEPT !.status = status, !.done = d, !.held = {}]
        IN  /\ n \in Combined!Results /\ n.status = status
            /\ n.inputs = r.inputs /\ n.done = d
  BY DEF Combined!Results
<1> QED
  BY <1>1, <1>2

LEMMA StageOfReads ==
    ASSUME NEW c \in Combined!Checks, v8 \in Combined!Results, NEW pc \in Combined!Stages
    PROVE  /\ [c EXCEPT !.pc = pc, !.left = Combined!Reads] \in Combined!Checks
           /\ [c EXCEPT !.pc = pc, !.left = Combined!Reads].pc = pc
           /\ [c EXCEPT !.pc = pc, !.left = Combined!Reads].left = Combined!Reads
<1>1. Combined!Reads \in SUBSET ({"base", "records"} \cup Combined!Tasks)
  BY ReadsAreOfTasks
<1> QED
  BY <1>1 DEF Combined!Checks, Combined!Stages

LEMMA EndedIsFinal ==
    ASSUME NEW c \in Combined!Checks, v8 \in Combined!Results
    PROVE  /\ Combined!Ended(c) \in Combined!Checks
           /\ Combined!Ended(c).pc = "final" /\ Combined!Ended(c).left = Combined!Reads
BY StageOfReads DEF Combined!Ended, Combined!Stages

\* Passed is the status only of all commands, each of which passed.
LEMMA PassedIsOfAll ==
    ASSUME Combined!ResultOK, Combined!Plan # {}
    PROVE  /\ Combined!Aggregate \in {"Cancelled", "Error", "TimedOut", "Failed", "Passed",
                                      "Partial"}
           /\ Combined!Aggregate = "Passed" =>
                /\ Len(v8.done) = Combined!Cardinality(Combined!Plan)
                /\ Combined!ToSet(v8.done) = {"Passed"}
                /\ Combined!Unconfigured(v8.inputs.version, v8.inputs.of.tasks) = {}
<1>1. Combined!Aggregate \in {"Cancelled", "Error", "TimedOut", "Failed", "Passed", "Partial"}
  BY DEF Combined!Aggregate
<1>2. ASSUME Combined!Aggregate = "Passed"
      PROVE  /\ Len(v8.done) = Combined!Cardinality(Combined!Plan)
             /\ Combined!ToSet(v8.done) = {"Passed"}
             /\ Combined!Unconfigured(v8.inputs.version, v8.inputs.of.tasks) = {}
  <2>1. /\ Len(v8.done) = Combined!Cardinality(Combined!Plan)
        /\ Combined!Unconfigured(v8.inputs.version, v8.inputs.of.tasks) = {}
        /\ {"Cancelled", "Error", "TimedOut", "Failed"} \cap Combined!ToSet(v8.done) = {}
    <3> DEFINE states == Combined!ToSet(v8.done)
               all == /\ Combined!Unconfigured(v8.inputs.version, v8.inputs.of.tasks) = {}
                      /\ Len(v8.done) = Combined!Cardinality(Combined!Plan)
    <3>1. Combined!Aggregate = IF "Cancelled" \in states THEN "Cancelled"
                              ELSE IF "Error" \in states THEN "Error"
                              ELSE IF "TimedOut" \in states THEN "TimedOut"
                              ELSE IF "Failed" \in states THEN "Failed"
                              ELSE IF all THEN "Passed" ELSE "Partial"
      BY DEF Combined!Aggregate, Combined!Inputs, Combined!Ran
    <3> HIDE DEF states, all
    <3>2. /\ "Cancelled" \notin states /\ "Error" \notin states
          /\ "TimedOut" \notin states /\ "Failed" \notin states /\ all
      BY <1>2, <3>1
    <3> QED
      BY <3>2 DEF states, all
  <2>2. v8.done \in Seq(Combined!Ends) /\ v8 \in Combined!Results
    BY DEF Combined!ResultOK, Combined!Results
  <2>3. Len(v8.done) \in Nat /\ Len(v8.done) # 0
    BY <2>1, <2>2, PlanIsCounted DEF Combined!Plan, Combined!Inputs
  <2>4. 1 \in DOMAIN v8.done /\ \A i \in DOMAIN v8.done : v8.done[i] \in Combined!Ends
    BY <2>2, <2>3
  <2>5. \A i \in DOMAIN v8.done : v8.done[i] = "Passed"
    BY <2>1, <2>4 DEF Combined!ToSet, Combined!Ends
  <2> QED
    BY <2>1, <2>4, <2>5 DEF Combined!ToSet
<1> QED
  BY <1>1, <1>2

LEMMA CheckAdvances ==
    ASSUME Combined!IInv, Combined!CheckStarts \/ Combined!NextCommand \/ Combined!RunsCommand,
           UNCHANGED <<v1, v2, v3, v4, v5, v6, v7, v10>>
    PROVE  Combined!IInv'
<1>1. v8 \in Combined!Results /\ v9 \in Combined!Checks
  BY DEF Combined!IInv, Combined!TypeOK, Combined!ResultOK
<1>2. /\ Combined!CheckRunning /\ Combined!Plan # {} /\ v8.status = "Running"
      /\ Len(v8.done) <= Combined!Cardinality(Combined!Plan)
  BY DEF Combined!IInv, Combined!TypeOK, Combined!ResultOK, Combined!CheckStarts,
     Combined!NextCommand, Combined!RunsCommand, Combined!CheckRunning,
     Combined!ChecksArePlanned
<1>3. /\ Combined!Cardinality(Combined!Plan) \in Nat
      /\ Len(v8.done) \in Nat
  BY <1>1, PlanIsCounted DEF Combined!Plan, Combined!Inputs, Combined!Results
<1>4. CASE Combined!CheckStarts
  <2>1. UNCHANGED v8 /\ Len(v8.done) < Combined!Cardinality(Combined!Plan)
    BY <1>4 DEF Combined!CheckStarts, Combined!IInv, Combined!ChecksArePlanned
  <2>2. v9' \in Combined!Checks /\ (\/ v9'.pc = "sent" /\ v9'.status = "Cancelled"
                                    \/ v9'.pc = "first" /\ v9'.left = Combined!Reads)
    <3>1. CASE v9.cancel
      <4>1. v9' = Combined!Sent("Cancelled")
        BY <1>4, <3>1 DEF Combined!CheckStarts
      <4>2. "Cancelled" \in {"none", "Partial"} \cup Combined!Failures \cup Combined!Ends
        BY DEF Combined!Failures
      <4> QED
        BY <1>1, <4>1, <4>2, AnswerIsSent
    <3>2. CASE ~v9.cancel
      <4>1. v9' = [v9 EXCEPT !.pc = "first", !.left = Combined!Reads]
        BY <1>4, <3>2 DEF Combined!CheckStarts
      <4> QED
        BY <1>1, <4>1, StageOfReads DEF Combined!Stages
    <3> QED
      BY <3>1, <3>2
  <2> QED
    BY <1>1, <1>2, <2>1, <2>2, CheckMoves
<1>5. CASE Combined!NextCommand
  <2>1. UNCHANGED v8 /\ v9.pc = "next"
    BY <1>5 DEF Combined!NextCommand
  <2>2. v9' \in Combined!Checks /\ v9'.left = Combined!Reads
        /\ (\/ v9'.pc = "final"
            \/ v9'.pc = "before" /\ Len(v8.done) # Combined!Cardinality(Combined!Plan))
    <3>1. CASE Len(v8.done) = Combined!Cardinality(Combined!Plan)
      BY <1>1, <1>5, <3>1, EndedIsFinal DEF Combined!NextCommand, Combined!Ran
    <3>2. CASE Len(v8.done) # Combined!Cardinality(Combined!Plan) /\ v9.cancel
      BY <1>1, <1>5, <3>2, EndedIsFinal, CheckChanges DEF Combined!NextCommand, Combined!Ran
    <3>3. CASE Len(v8.done) # Combined!Cardinality(Combined!Plan) /\ ~v9.cancel
      <4>1. v9' = [v9 EXCEPT !.pc = "before", !.left = Combined!Reads]
        BY <1>5, <3>3 DEF Combined!NextCommand, Combined!Ran
      <4> QED
        BY <1>1, <3>3, <4>1, StageOfReads DEF Combined!Stages
    <3> QED
      BY <3>1, <3>2, <3>3
  <2>3. Len(v8.done) = Combined!Cardinality(Combined!Plan) =>
          \A read \in Combined!Reads \ v8.held : ~Combined!Matches(read)
    BY <2>1 DEF Combined!IInv, Combined!ChangesAreFound, Combined!Ran
  <2> QED
    BY <1>1, <1>2, <1>3, <2>1, <2>2, <2>3, CheckMoves
<1>6. CASE Combined!RunsCommand
  <2>1. Len(v8.done) < Combined!Cardinality(Combined!Plan)
    BY <1>6 DEF Combined!RunsCommand, Combined!IInv, Combined!ChecksArePlanned
  <2>2. v9' \in Combined!Checks /\ (\/ v9'.pc = "final" /\ v9'.left = Combined!Reads
                                    \/ v9'.pc = "next")
    <3>1. \/ v9' = Combined!Ended(v9) \/ v9' = Combined!Ended([v9 EXCEPT !.stop = TRUE])
          \/ v9' = Combined!Ended([v9 EXCEPT !.unprepared = TRUE])
          \/ v9' = [v9 EXCEPT !.pc = "next"]
      BY <1>6 DEF Combined!RunsCommand
    <3>2. /\ [v9 EXCEPT !.stop = TRUE] \in Combined!Checks
          /\ [v9 EXCEPT !.unprepared = TRUE] \in Combined!Checks
      BY <1>1, CheckChanges
    <3>3. ASSUME NEW c \in Combined!Checks, v9' = Combined!Ended(c)
          PROVE  v9' \in Combined!Checks /\ v9'.pc = "final" /\ v9'.left = Combined!Reads
      BY <1>1, <3>3, EndedIsFinal
    <3>4. CASE v9' = [v9 EXCEPT !.pc = "next"]
      BY ZenonT(40), <1>1, <3>4, CheckChanges DEF Combined!Stages
    <3> QED
      BY <1>1, <3>1, <3>2, <3>3, <3>4
  <2>3. CASE UNCHANGED v8 /\ v9'.pc = "final"
    BY <1>1, <1>2, <1>3, <2>1, <2>2, <2>3, CheckMoves
  <2>4. ASSUME NEW state \in Combined!Ends,
               v8' = [v8 EXCEPT !.done = Append(@, state),
                                !.held = IF Combined!Ran(Append(v8.done, state))
                                         THEN Combined!AsCaptured ELSE {}]
        PROVE  Combined!IInv'
    <3> DEFINE held == IF Combined!Ran(Append(v8.done, state))
                       THEN Combined!AsCaptured ELSE {}
    <3>1. held \in SUBSET ({"base", "records"} \cup Combined!Tasks)
      BY <1>1, ReadsAreOfTasks DEF Combined!AsCaptured
    <3>2. v8' = [v8 EXCEPT !.done = Append(v8.done, state), !.held = held]
      BY <2>4
    <3> HIDE DEF held
    <3>3. /\ v8' \in Combined!Results /\ v8'.done = Append(v8.done, state)
          /\ Len(v8'.done) = Len(v8.done) + 1
          /\ v8'.inputs = v8.inputs /\ v8'.status = v8.status /\ v8'.held = held
      <4> DEFINE n == [v8 EXCEPT !.done = Append(v8.done, state), !.held = held]
      <4>1. /\ n \in Combined!Results /\ n.done = Append(v8.done, state)
            /\ Len(n.done) = Len(v8.done) + 1
            /\ n.inputs = v8.inputs /\ n.status = v8.status /\ n.held = held
        BY <1>1, <3>1, ResultGrows
      <4>2. v8' = n
        BY <3>2
      <4> HIDE DEF n
      <4> QED
        BY <4>1, <4>2
    <3>4. Len(v8'.done) = Combined!Cardinality(Combined!Plan) =>
            \A read \in Combined!Reads \ v8'.held : ~Combined!Matches(read)
      BY <3>3 DEF held, Combined!Ran, Combined!AsCaptured
    <3> QED
      BY <1>1, <1>2, <1>3, <2>1, <2>2, <3>3, <3>4, CheckMoves
  <2> QED
    <3>1. \/ /\ UNCHANGED v8
             /\ \/ v9' = Combined!Ended([v9 EXCEPT !.stop = TRUE])
                \/ v9' = Combined!Ended([v9 EXCEPT !.unprepared = TRUE])
          \/ \E state \in Combined!Ends :
               v8' = [v8 EXCEPT !.done = Append(@, state),
                                !.held = IF Combined!Ran(Append(v8.done, state))
                                         THEN Combined!AsCaptured ELSE {}]
      BY <1>6 DEF Combined!RunsCommand, Combined!Ends
    <3>2. CASE UNCHANGED v8 /\ v9'.pc # "final"
      <4>1. /\ [v9 EXCEPT !.stop = TRUE] \in Combined!Checks
            /\ [v9 EXCEPT !.unprepared = TRUE] \in Combined!Checks
        BY <1>1, CheckChanges
      <4>2. /\ Combined!Ended([v9 EXCEPT !.stop = TRUE]).pc = "final"
            /\ Combined!Ended([v9 EXCEPT !.unprepared = TRUE]).pc = "final"
        BY <1>1, <4>1, EndedIsFinal
      <4> QED
        BY <2>4, <3>1, <3>2, <4>2
    <3> QED
      BY <2>3, <2>4, <3>1, <3>2
<1> QED
  BY <1>4, <1>5, <1>6

\* Unless the last read agrees nothing ends as passed.
LEMMA OnlyAgreedIsPassed ==
    ASSUME Combined!IInv, Combined!CheckRunning, NEW outcome
    PROVE  /\ outcome \in {"ok", "Stale", "Unavailable", "Cancelled"} =>
                Combined!Final(outcome) \in
                  {"none", "Partial"} \cup Combined!Failures \cup Combined!Ends
           /\ Combined!Final(outcome) = "Passed" =>
                Combined!Aggregate = "Passed"
                /\ outcome \notin {"Stale", "Unavailable", "Cancelled"}
<1>1. v9.failed \in {"none", "Stale", "Unavailable"} /\ Combined!ResultOK
  BY DEF Combined!IInv, Combined!TypeOK, Combined!Checks
<1>2. Combined!Aggregate \in {"Cancelled", "Error", "TimedOut", "Failed", "Passed", "Partial"}
  BY <1>1, PassedIsOfAll DEF Combined!IInv, Combined!ChecksArePlanned
<1> QED
  BY <1>1, <1>2 DEF Combined!Final, Combined!Failures, Combined!Ends

LEMMA InputsAreRead ==
    ASSUME Combined!IInv, Combined!CheckReads, UNCHANGED <<v1, v2, v3, v4, v5, v6, v7, v10>>
    PROVE  Combined!IInv'
<1>1. v8 \in Combined!Results /\ v9 \in Combined!Checks /\ Combined!ResultOK
  BY DEF Combined!IInv, Combined!TypeOK, Combined!ResultOK
<1>2. /\ Combined!CheckRunning /\ Combined!Plan # {} /\ v8.status = "Running"
      /\ Len(v8.done) <= Combined!Cardinality(Combined!Plan)
      /\ v9.left \subseteq Combined!Reads /\ v9.pc \in {"first", "before", "final"}
  BY DEF Combined!IInv, Combined!TypeOK, Combined!ResultOK, Combined!CheckReads,
     Combined!CheckRunning, Combined!ChecksArePlanned
<1>3. v9.pc \in {"first", "before"} => Len(v8.done) < Combined!Cardinality(Combined!Plan)
  BY DEF Combined!IInv, Combined!ChecksArePlanned
<1>4. /\ Combined!Cardinality(Combined!Plan) \in Nat /\ Len(v8.done) \in Nat
  BY <1>1, PlanIsCounted DEF Combined!Plan, Combined!Inputs, Combined!Results
<1>5. UNCHANGED v8
  BY DEF Combined!CheckReads
<1>0. PICK read \in v9.left :
       \E outcome \in Combined!Outcomes(read) : v9' = Combined!AfterRead(read, outcome)
  BY DEF Combined!CheckReads
<1>6. PICK outcome \in Combined!Outcomes(read) : v9' = Combined!AfterRead(read, outcome)
  BY <1>0
<1>7. /\ outcome \in {"ok", "Stale", "Unavailable", "Cancelled"}
      /\ outcome = "ok" => Combined!Matches(read)
  BY <1>6 DEF Combined!Outcomes
\* What is not as captured is not this read.
<1>8. ASSUME v9.pc = "final", outcome = "ok",
             Len(v8.done) = Combined!Cardinality(Combined!Plan)
      PROVE  \A other \in Combined!Reads \ v8.held :
               ~Combined!Matches(other) /\ other \in v9.left \ {read}
  BY <1>7, <1>8 DEF Combined!IInv, Combined!ChangesAreFound, Combined!Ran
<1> DEFINE more == outcome = "ok" /\ v9.left # {read}
<1>9. CASE more
  <2>1. v9' = [v9 EXCEPT !.left = v9.left \ {read}]
    BY <1>6, <1>9 DEF Combined!AfterRead
  <2>2. v9' \in Combined!Checks /\ v9'.pc = v9.pc /\ v9'.left = v9.left \ {read}
    <3>1. v9.left \ {read} \in SUBSET ({"base", "records"} \cup Combined!Tasks)
      BY <1>1 DEF Combined!Checks
    <3>2. ASSUME NEW left \in SUBSET ({"base", "records"} \cup Combined!Tasks),
                 v9' = [v9 EXCEPT !.left = left]
          PROVE  v9' \in Combined!Checks /\ v9'.pc = v9.pc /\ v9'.left = left
      BY <1>1, <3>2 DEF Combined!Checks
    <3> QED
      BY <2>1, <3>1, <3>2
  <2>3. v9'.left \subseteq Combined!Reads
    BY <1>2, <2>2
  <2>4. v9'.pc = "final" /\ Len(v8.done) = Combined!Cardinality(Combined!Plan) =>
          \A other \in Combined!Reads \ v8.held :
            ~Combined!Matches(other) /\ other \in v9'.left
    BY <1>8, <1>9, <2>2
  <2> HIDE DEF more
  <2> QED
    BY <1>1, <1>2, <1>3, <1>4, <1>5, <2>2, <2>3, <2>4, CheckMoves
<1>10. CASE ~more /\ v9.pc = "final"
  <2>1. v9' = Combined!Sent(Combined!Final(outcome))
    BY <1>6, <1>10 DEF Combined!AfterRead
  <2>2. v9' \in Combined!Checks /\ v9'.pc = "sent" /\ v9'.status = Combined!Final(outcome)
    <3>1. Combined!Final(outcome) \in
            {"none", "Partial"} \cup Combined!Failures \cup Combined!Ends
      BY <1>2, <1>7, OnlyAgreedIsPassed
    <3> QED
      BY <1>1, <2>1, <3>1, AnswerIsSent
  <2>3. ASSUME v9'.status = "Passed" PROVE Combined!Real'
    <3>1. Combined!Aggregate = "Passed" /\ outcome = "ok"
      BY <1>2, <1>7, <2>2, <2>3, OnlyAgreedIsPassed
    <3>2. /\ Len(v8.done) = Combined!Cardinality(Combined!Plan)
          /\ Combined!ToSet(v8.done) = {"Passed"}
          /\ Combined!Unconfigured(v8.inputs.version, v8.inputs.of.tasks) = {}
      BY <1>1, <1>2, <3>1, PassedIsOfAll
    <3>3. Combined!Reads \subseteq v8.held
      BY <1>8, <1>10, <3>1, <3>2
    <3>4. Combined!Real
      BY <3>2, <3>3 DEF Combined!Real, Combined!Ran, Combined!Inputs
    <3> QED
      BY <1>5, <3>4 DEF Combined!Real, Combined!Reads, Combined!Ran, Combined!Plan,
         Combined!Inputs
  <2> QED
    BY <1>1, <1>2, <1>5, <2>2, <2>3, CheckMoves
<1>11. CASE ~more /\ v9.pc # "final"
  <2>1. v9' \in Combined!Checks
        /\ (\/ v9'.pc \in {"next", "command"}
            \/ v9'.pc = "sent" /\ v9'.status # "Passed"
            \/ v9'.pc = "final" /\ v9'.left = Combined!Reads)
    <3>1. CASE outcome = "ok" /\ v9.pc = "first"
      <4>1. v9' = [v9 EXCEPT !.pc = "next"]
        BY <1>6, <1>11, <3>1 DEF Combined!AfterRead
      <4> QED
        BY ZenonT(40), <1>1, <4>1, CheckChanges DEF Combined!Stages
    <3>2. CASE outcome = "ok" /\ v9.pc = "before"
      <4>1. v9' = [v9 EXCEPT !.pc = "command"]
        BY <1>6, <1>11, <3>2 DEF Combined!AfterRead
      <4> QED
        BY ZenonT(40), <1>1, <3>2, <4>1, CheckChanges DEF Combined!Stages
    <3>3. CASE outcome # "ok" /\ v9.pc = "first"
      <4>1. v9' = Combined!Sent(outcome)
        BY <1>6, <1>11, <3>3 DEF Combined!AfterRead
      <4>2. outcome \in {"none", "Partial"} \cup Combined!Failures \cup Combined!Ends
            /\ outcome # "Passed"
        BY <1>7, <3>3 DEF Combined!Failures
      <4> QED
        BY <1>1, <4>1, <4>2, AnswerIsSent
    <3>4. CASE outcome # "ok" /\ v9.pc = "before"
      <4>1. v9' = Combined!Ended(IF outcome = "Cancelled" THEN [v9 EXCEPT !.stop = TRUE]
                                ELSE [v9 EXCEPT !.failed = outcome])
        BY <1>6, <1>11, <3>4 DEF Combined!AfterRead
      <4>2. (IF outcome = "Cancelled" THEN [v9 EXCEPT !.stop = TRUE]
             ELSE [v9 EXCEPT !.failed = outcome]) \in Combined!Checks
        BY <1>1, <1>7, <3>4, CheckChanges
      <4> QED
        BY <1>1, <4>1, <4>2, EndedIsFinal
    <3> QED
      BY <1>2, <1>11, <3>1, <3>2, <3>3, <3>4
  <2> HIDE DEF more
  <2> QED
    BY <1>1, <1>2, <1>3, <1>4, <1>5, <1>11, <2>1, CheckMoves
<1> QED
  BY <1>9, <1>10, <1>11

LEMMA CheckStepKeeps == Combined!IInv /\ Combined!CheckStep => Combined!IInv'
BY CheckAdvances, InputsAreRead
DEF Combined!CheckStep, Combined!outside, Combined!previewing

LEMMA CancelKeeps == Combined!IInv /\ Combined!CancelCheck => Combined!IInv'
<1> SUFFICES ASSUME Combined!IInv, Combined!CancelCheck PROVE Combined!IInv'
  OBVIOUS
<1>1. /\ Combined!CheckRunning /\ UNCHANGED <<v1, v2, v3, v4, v5, v6, v7, v8, v10>>
      /\ v9' = [v9 EXCEPT !.cancel = TRUE]
  BY DEF Combined!CancelCheck, Combined!outside, Combined!previewing
<1>2. v8 \in Combined!Results /\ v9 \in Combined!Checks
      /\ Len(v8.done) <= Combined!Cardinality(Combined!Plan)
  BY DEF Combined!IInv, Combined!TypeOK, Combined!ResultOK
<1>3. /\ v9' \in Combined!Checks /\ v9'.pc = v9.pc /\ v9'.left = v9.left
      /\ v9'.status = v9.status
  BY <1>1, <1>2, CheckChanges
<1>4. Combined!Real' <=> Combined!Real
  BY <1>1 DEF Combined!Real, Combined!Inputs, Combined!Plan, Combined!Reads, Combined!Ran
<1> QED
  BY <1>1, <1>2, <1>3, <1>4, CheckMoves
  DEF Combined!IInv, Combined!ChecksArePlanned, Combined!ChangesAreFound,
      Combined!SentIsReal, Combined!Ran

\* A frame keeps a result, or shows it as no longer known.
LEMMA KeptIsTyped ==
    ASSUME NEW p \in Combined!Previews, NEW moved, NEW known
    PROVE  Combined!Kept(p, moved, known) \in {p, Combined!Unavailable}
BY DEF Combined!Kept

LEMMA PolledIsTyped ==
    ASSUME Combined!IInv PROVE Combined!Polled \in Combined!Previews
<1>1. v6 \in Combined!Previews /\ v7 \in Combined!Workers
  BY DEF Combined!IInv, Combined!TypeOK
<1> QED
  BY <1>1 DEF Combined!Polled, Combined!Previews, Combined!Workers

\* What the panel makes of a result whose worker is done.
LEMMA TakenIsReal ==
    ASSUME Combined!IInv, v9.pc \in {"none", "sent"}
    PROVE  LET taken == IF v9.pc = "sent" THEN Combined!Taken ELSE v8
           IN  /\ taken \in Combined!Results /\ taken.inputs = v8.inputs
               /\ taken.done \in {v8.done, <<>>}
               /\ taken.status = "Passed" =>
                    taken.done = v8.done /\ taken.held = v8.held /\ Combined!Real
<1>1. v8 \in Combined!Results /\ v9 \in Combined!Checks
      /\ (v8.status = "Passed" => Combined!Real)
  BY DEF Combined!IInv, Combined!TypeOK, Combined!ResultOK, Combined!CombinedPassIsReal
<1>2. CASE v9.pc = "sent"
  <2>1. v9.status \in {"none", "Running", "Partial"} \cup Combined!Failures \cup Combined!Ends
    BY <1>1 DEF Combined!Checks
  <2>2. v9.status = "Passed" => Combined!Real
    BY <1>2 DEF Combined!IInv, Combined!SentIsReal
  <2>3. CASE v9.status = "Passed"
    <3>1. Combined!Taken = [v8 EXCEPT !.status = v9.status]
      BY <2>3 DEF Combined!Taken
    <3> QED
      BY <1>1, <1>2, <2>1, <2>2, <3>1, ResultIsTaken
  <2>4. CASE v9.status # "Passed"
    <3>1. Combined!Taken = [v8 EXCEPT !.status = v9.status, !.done = <<>>, !.held = {}]
      BY <2>4 DEF Combined!Taken
    <3>2. /\ Combined!Taken \in Combined!Results /\ Combined!Taken.status = v9.status
          /\ Combined!Taken.inputs = v8.inputs /\ Combined!Taken.done = <<>>
      BY <1>1, <2>1, <3>1, ResultIsShown
    <3> QED
      BY <1>2, <2>4, <3>2
  <2> QED
    BY <2>3, <2>4
<1>3. CASE v9.pc # "sent"
  BY <1>1, <1>3
<1> QED
  BY <1>2, <1>3

LEMMA FrameKeeps == Combined!IInv /\ Combined!Frame => Combined!IInv'
<1> SUFFICES ASSUME Combined!IInv, Combined!Frame PROVE Combined!IInv'
  OBVIOUS
<1> USE BoundsAreNumbers, ConfigsAreTwo
<1>1. /\ v1 \in Combined!Contents /\ v2 \in [Combined!Tasks -> Combined!Contents]
      /\ v3 \in 1 .. 2 /\ v10 \in 0 .. MaxEdit
      /\ v4 \in 1 .. v3 /\ v5 \subseteq Combined!Tasks
      /\ v6 \in Combined!Previews /\ v7 \in Combined!Workers /\ v9 \in Combined!Checks
      /\ v8 \in Combined!Results /\ Combined!ResultOK
  BY DEF Combined!IInv, Combined!TypeOK, Combined!ResultOK
<1>2. UNCHANGED <<v1, v2, v3, v4, v5, v10>>
  BY DEF Combined!Frame, Combined!outside
<1>4. v7' \in Combined!Workers
  BY <1>1, NothingIsTyped DEF Combined!Frame
<1> DEFINE taken == IF v9.pc = "sent" THEN Combined!Taken ELSE v8
           idle == v9.pc \in {"none", "sent"}
<1>5. PICK moved \in BOOLEAN, known \in Combined!Known :
        LET p == Combined!Kept(Combined!Polled, moved, known)
            current == Combined!IsCurrent(p, moved, known)
        IN  /\ v6' = p
            /\ \/ /\ v8' = IF idle THEN Combined!Refreshed(taken, p, current, known) ELSE taken
                  /\ v9' = IF idle THEN Combined!NoCheck ELSE v9
               \/ idle /\ ~Combined!PreviewRunning /\ p = v6 /\ Combined!StartCheck(current)
  BY DEF Combined!Frame
<1>6. v6' \in Combined!Previews
  BY <1>5, KeptIsTyped, PolledIsTyped, NothingIsTyped
<1>7. CASE UNCHANGED <<v8, v9>>
  <2>1. Combined!TypeOK'
    BY <1>1, <1>2, <1>4, <1>6, <1>7, CheckIsKept DEF Combined!TypeOK
  <2> QED
    BY <1>2, <1>7, <2>1, CheckIsKept DEF Combined!IInv
<1>8. ASSUME idle, v8' \in Combined!Results,
             \/ v8'.inputs = v8.inputs /\ v8'.done \in {v8.done, <<>>}
             \/ v8'.inputs = Combined!NoInputs /\ v8'.done = <<>>,
             v8'.status = "Passed" => Combined!Real', v9' = Combined!NoCheck
      PROVE  Combined!IInv'
  <2>1. v9'.pc = "none" /\ v9' \in Combined!Checks
    BY <1>8, NothingIsTyped DEF Combined!NoCheck
  <2>2. Combined!ResultOK'
    <3>1. CASE v8'.inputs = v8.inputs /\ v8'.done = v8.done
      BY <1>1, <1>8, <3>1 DEF Combined!ResultOK, Combined!Plan, Combined!Inputs
    <3>2. CASE v8'.done = <<>>
      <4>1. Combined!Cardinality(Combined!Plan') \in Nat
        BY <1>8, PlanIsCounted DEF Combined!Plan, Combined!Inputs
      <4> QED
        BY <1>8, <3>2, <4>1 DEF Combined!ResultOK
    <3> QED
      BY <1>8, <3>1, <3>2
  <2>3. Combined!TypeOK'
    BY <1>1, <1>2, <1>4, <1>6, <2>1, <2>2 DEF Combined!TypeOK
  <2>4. Combined!CombinedPassIsReal' /\ Combined!SentIsReal'
        /\ Combined!ChecksArePlanned' /\ Combined!ChangesAreFound'
    BY <1>8, <2>1 DEF Combined!CombinedPassIsReal, Combined!SentIsReal,
       Combined!ChecksArePlanned, Combined!ChangesAreFound, Combined!CheckRunning
  <2> QED
    BY <2>3, <2>4 DEF Combined!IInv
<1>9. CASE /\ idle /\ v9' = Combined!NoCheck
           /\ v8' = taken \/ v8' = [Combined!NoResult EXCEPT !.status = "Stale"]
  <2>1. CASE v8' = taken
    <3>1. /\ v8' \in Combined!Results /\ v8'.inputs = v8.inputs
          /\ v8'.done \in {v8.done, <<>>}
          /\ v8'.status = "Passed" =>
               v8'.done = v8.done /\ v8'.held = v8.held /\ Combined!Real
      BY <1>9, <2>1, TakenIsReal
    <3>2. v8'.status = "Passed" => Combined!Real'
      BY <3>1 DEF Combined!Real, Combined!Inputs, Combined!Plan, Combined!Reads, Combined!Ran
    <3> QED
      BY <1>8, <1>9, <3>1, <3>2
  <2>2. CASE v8' = [Combined!NoResult EXCEPT !.status = "Stale"]
    <3>1. v8' \in Combined!Results /\ v8'.status = "Stale"
          /\ v8'.inputs = Combined!NoInputs /\ v8'.done = <<>>
      BY <2>2, NothingIsTyped, ResultOfNothing, ResultIsTaken DEF Combined!Failures
    <3> QED
      BY <1>8, <1>9, <3>1
  <2> QED
    BY <1>9, <2>1, <2>2
<1>10. CASE idle /\ \E current : Combined!StartCheck(current)
  <2> DEFINE inputs == [of |-> Combined!Shown, version |-> v4, base |-> v6.base,
                        sources |-> v6.sources]
             of == [of : Combined!Identities, version : Combined!Versions,
                    base : Combined!Captured, sources : [Combined!Tasks -> Combined!Captured]]
  <2>1. /\ v8' = [Combined!NoResult EXCEPT !.inputs = inputs, !.status = "Running"]
        /\ v9' = [Combined!NoCheck EXCEPT !.pc = "starting"]
        /\ Combined!Covered(v4, Combined!Shown.tasks) # {}
    BY <1>10 DEF Combined!StartCheck
  <2>2. Combined!Shown \in Combined!Identities
    BY <1>1, IdentityIsOfTasks DEF Combined!Shown
  <2>3. inputs \in of
    BY <1>1, <2>2 DEF Combined!Previews
  <2>4. /\ v8' \in Combined!Results /\ v8'.inputs = inputs /\ v8'.status = "Running"
        /\ v8'.done = <<>>
    <3> HIDE DEF inputs
    <3>1. ASSUME NEW r \in Combined!Results, v8' = [r EXCEPT !.inputs = inputs,
                                                        !.status = "Running"]
          PROVE  /\ v8' \in Combined!Results /\ v8'.inputs = inputs
                 /\ v8'.status = "Running" /\ v8'.done = r.done
      BY <2>3, <3>1 DEF Combined!Results
    <3> QED
      BY <2>1, <3>1, NothingIsTyped, ResultOfNothing
  <2>5. v9' \in Combined!Checks /\ v9'.pc = "starting"
    <3>1. ASSUME NEW c \in Combined!Checks, v9' = [c EXCEPT !.pc = "starting"]
          PROVE  v9' \in Combined!Checks /\ v9'.pc = "starting"
      BY <3>1 DEF Combined!Checks, Combined!Stages
    <3> QED
      BY <2>1, <3>1, NothingIsTyped
  <2>6. Combined!Plan' = Combined!Covered(v4, Combined!Shown.tasks)
        /\ Combined!Inputs' = inputs
    BY <2>4 DEF Combined!Plan, Combined!Inputs
  <2>7. Combined!Cardinality(Combined!Plan') \in Nat /\ Combined!Cardinality(Combined!Plan') # 0
    BY <2>1, <2>4, <2>6, PlanIsCounted DEF Combined!Plan, Combined!Inputs
  <2>8. Combined!ResultOK'
    BY <2>4, <2>7 DEF Combined!ResultOK
  <2>9. Combined!TypeOK'
    BY <1>1, <1>2, <1>4, <1>6, <2>5, <2>8 DEF Combined!TypeOK
  <2>10. Combined!ChecksArePlanned'
    BY <2>1, <2>4, <2>5, <2>6, <2>7 DEF Combined!ChecksArePlanned, Combined!CheckRunning
  <2>11. Combined!CombinedPassIsReal' /\ Combined!SentIsReal' /\ Combined!ChangesAreFound'
    BY <2>4, <2>5
    DEF Combined!CombinedPassIsReal, Combined!SentIsReal, Combined!ChangesAreFound
  <2> QED
    BY <2>9, <2>10, <2>11 DEF Combined!IInv
<1>11. CASE ~idle
  BY <1>5, <1>7, <1>11
<1>12. CASE idle
  <2>1. ASSUME NEW p, NEW current, NEW seen
        PROVE  \/ Combined!Refreshed(taken, p, current, seen) = taken
               \/ Combined!Refreshed(taken, p, current, seen) =
                    [Combined!NoResult EXCEPT !.status = "Stale"]
    BY DEF Combined!Refreshed
  <2> HIDE DEF taken
  <2> QED
    BY <1>5, <1>9, <1>10, <1>12, <2>1
<1> QED
  BY <1>11, <1>12

LEMMA CombinedStep == Combined!IInv /\ Combined!Next => Combined!IInv'
BY OutsideStep, PreviewMoves, CheckStepKeeps, CancelKeeps, FrameKeeps DEF Combined!Next

-----------------------------------------------------------------------------
(* The theorems. *)

IInv ==
    /\ part = "updates" => Updates!IInv
    /\ part = "registry" => Registry!IInv
    /\ part = "verification" => Verification!IInv
    /\ part = "combined" => Combined!IInv
    /\ part = "delivery" => Delivery!IInv
    /\ part = "branch" => Branch!IInv

LEMMA InitIInv == Init => IInv
BY UpdatesBegin, RegistryBegins, VerificationBegins, CombinedBegins, DeliveryBegins,
   BranchBegins
DEF Init, IInv

\* A step of one part is a step of its module, and leaves which part runs alone.
LEMMA NextIInv == IInv /\ Next => IInv'
<1> SUFFICES ASSUME IInv, Next PROVE IInv'
  OBVIOUS
<1>1. UNCHANGED part
  BY DEF Next
<1>2. part = "updates" => Updates!IInv'
  BY <1>1, UpdatesStep DEF Next, IInv
<1>3. part = "registry" => Registry!IInv'
  BY <1>1, RegistryStep DEF Next, IInv
<1>4. part = "verification" => Verification!IInv'
  BY <1>1, VerificationStep DEF Next, IInv
<1>5. part = "delivery" => Delivery!IInv'
  BY <1>1, DeliveryStep DEF Next, IInv
<1>6. part = "branch" => Branch!IInv'
  BY <1>1, BranchStep DEF Next, IInv
<1>7. part = "combined" => Combined!IInv'
  BY <1>1, CombinedStep DEF Next, IInv
<1> QED
  BY <1>1, <1>2, <1>3, <1>4, <1>5, <1>6, <1>7 DEF IInv

LEMMA StutterIInv == IInv /\ UNCHANGED vars => IInv'
<1> SUFFICES ASSUME IInv, UNCHANGED vars PROVE IInv'
  OBVIOUS
<1>1. UNCHANGED <<part, v1, v2, v3, v4, v5, v6, v7, v8, v9, v10, v11, v12, v13, v14, v15, v16>>
  BY DEF vars
<1>2. part = "updates" => Updates!IInv'
  BY <1>1, UpdatesStutter DEF IInv, Updates!vars, Updates!state, Updates!threads,
     Updates!dialog, Updates!files
<1>3. part = "registry" => Registry!IInv'
  BY <1>1, RegistryStutters DEF IInv, Registry!vars
<1>4. part = "verification" => Verification!IInv'
  BY <1>1, VerificationStutters DEF IInv, Verification!vars, Verification!worker,
     Verification!shown
<1>5. part = "delivery" => Delivery!IInv'
  BY <1>1, DeliveryStutters DEF IInv, Delivery!delivery, Delivery!source, Delivery!probing,
     Delivery!acting, Delivery!answer
<1>6. part = "branch" => Branch!IInv'
  BY <1>1, BranchStutters DEF IInv, Branch!branchUpdate, Branch!repository
<1>7. part = "combined" => Combined!IInv'
  BY <1>1, CombinedStutters DEF IInv, Combined!combined, Combined!outside,
     Combined!previewing, Combined!checking
<1> QED
  BY <1>1, <1>2, <1>3, <1>4, <1>5, <1>6, <1>7 DEF IInv

LEMMA Inductive == Spec => []IInv
BY InitIInv, NextIInv, StutterIInv, PTL DEF Spec

\* The variables of the part of the Git client that runs keep their types.
THEOREM TypeCorrect == Spec => []TypeOK
<1>1. IInv => TypeOK
  BY DEF IInv, TypeOK, Updates!IInv, Registry!IInv, Verification!IInv, Combined!IInv,
     Delivery!IInv, Branch!IInv
<1> QED
  BY <1>1, Inductive, PTL

\* A combined verification shown as passed ran every command of every selected task on the
\* preview's tree, each passed, and when the last had ended the base, the sources and the
\* records were the ones the tree was made of, whatever moved or was edited meanwhile, but
\* for what was put back before the last check came to read it.
THEOREM CombinedCorrect == Spec => []CombinedPassIsReal
<1>1. IInv => CombinedPassIsReal
  BY DEF IInv, CombinedPassIsReal, Combined!IInv
<1> QED
  BY <1>1, Inductive, PTL

\* Every answer, result and progress the window takes is of its latest request, and at no
\* moment of an installation is the program anything but one whole release.
THEOREM UpdatesCorrect == Spec => []UpdatesAreRight
<1>1. Updates!IInv => Updates!UpdateIsCurrent /\ Updates!ProgramIsWhole
  BY DEF Updates!IInv, Updates!FilesAreWhole, Updates!ProgramIsWhole
<1>2. IInv => UpdatesAreRight
  BY <1>1 DEF IInv, UpdatesAreRight
<1> QED
  BY <1>2, Inductive, PTL

\* The dependencies of the tasks never form a cycle, whichever windows change the registry;
\* the order has every task below which nothing is missing, once and after what it depends
\* on, and a selection has the order it has among all tasks; and a task is called ready only
\* when everything below it was merged.
THEOREM OrderCorrect == Spec => []OrderIsRight
<1>1. IInv => OrderIsRight
  BY RegistryOrder DEF IInv, OrderIsRight
<1> QED
  BY <1>1, Inductive, PTL

\* Every step that changes the task registry is one window's operation on the file as it
\* was under the lock, and a task that was cleaned up keeps its pull request.
THEOREM ChangesCorrect == Spec => ChangesAreMadeOnTheFile
<1>1. IInv /\ [Next]_vars => [part = "registry" => Registry!ChangeIsMadeOnTheFile]_vars
  BY RegistryStep DEF IInv, Next
<1> QED
  BY <1>1, Inductive, PTL DEF Spec, ChangesAreMadeOnTheFile

\* A verification shown as passed ran on the source that is shown, whatever was edited,
\* cancelled or killed meanwhile, but for the parts that were put back to what they were
\* when the run was bound to them; and a run recorded as running belongs to the holder of
\* the run lock or to one that died.
THEOREM PassedCorrect == Spec => []PassedMeansRun
<1>1. IInv => PassedMeansRun
  BY VerificationIsRight DEF IInv, PassedMeansRun
<1> QED
  BY <1>1, Inductive, PTL

\* A pull request's snapshot shown as current was compared with the source as it is, unless
\* the source was put back to what the thread had read before it was compared.
THEOREM CurrentCorrect == Spec => []CurrentIsCurrent
<1>1. IInv => CurrentIsCurrent
  BY DeliveryIsCurrent DEF IInv, CurrentIsCurrent
<1> QED
  BY <1>1, Inductive, PTL

\* A checkout or a merge that fails leaves the repository as it would be without it, and
\* one that succeeds leaves every local change and every commit in place, whatever other
\* programs did meanwhile; what neither can see is excepted.
THEOREM UpdateCorrect == Spec => []UpdateIsWholeOrUndone
<1>1. Branch!IInv => Branch!Undone
  <2> SUFFICES ASSUME Branch!IInv, v6 = "failed", Branch!Undoable, ~v7.torn
               PROVE  Branch!Undone
    BY DEF Branch!Undone, Branch!Undoable
  <2>1. \A p \in Branch!Paths \ v10.edits : v1[p] = v9.worktree[p]
    BY DEF Branch!IInv, Branch!FilesAreWritten
  <2>2. v10.staged \/ v2 = v9.index
    BY DEF Branch!IInv, Branch!IndexIsHeld, Branch!IndexIsMerged, Branch!Undoable
  <2>3. v4 = v9.refs
    BY DEF Branch!IInv, Branch!RefsAreMoved
  <2>4. v10.moved \/ v3 = v9.head
    BY DEF Branch!IInv, Branch!HeadIsSet
  <2> QED
    BY <2>1, <2>2, <2>3, <2>4 DEF Branch!Undone
<1>2. Branch!IInv => Branch!LocalWorkIsKept
  <2> SUFFICES ASSUME Branch!IInv, v6 = "done", Branch!Undoable
               PROVE  Branch!LocalWorkIsKept
    BY DEF Branch!LocalWorkIsKept, Branch!Undoable
  <2>1. \A p \in Branch!Paths : Branch!Old[p] # Branch!Edit
    BY TreeIsOfFiles DEF Branch!IInv, Branch!InputsAreRead, Branch!Undoable, Branch!Old,
       Branch!TypeOK, Branch!OpOK, Branch!Operations, Branch!NoCommit
  <2>2. \A p \in Branch!Paths : v9.worktree[p] = Branch!Edit => v1[p] = Branch!Edit
    BY <2>1 DEF Branch!IInv, Branch!FilesAreWritten, Branch!Written
  <2>3. \A b \in Branch!Branches : v9.refs[b] \subseteq Branch!Contains(v4[b])
    BY DEF Branch!IInv, Branch!RefsAreMoved
  <2>4. v7.kind = "checkout" =>
          \A p \in Branch!Paths \ Branch!Updated :
             v9.index[p] = Branch!Edit => v2[p] = Branch!Edit
    BY DEF Branch!IInv, Branch!IndexIsHeld
  <2>5. v7.kind = "merge" =>
          \A p \in Branch!Paths :
             v9.index[p] = Branch!Edit => v10.staged \/ v2[p] = Branch!Edit
    BY <2>1 DEF Branch!IInv, Branch!IndexIsMerged, Branch!MergedIndex, Branch!Old
  <2> QED
    BY <2>2, <2>3, <2>4, <2>5
       DEF Branch!LocalWorkIsKept, Branch!Updated, Branch!Undoable
<1>3. IInv => UpdateIsWholeOrUndone
  BY <1>1, <1>2 DEF IInv, UpdateIsWholeOrUndone, Branch!UpdateIsWholeOrUndone
<1> QED
  BY <1>3, Inductive, PTL
=============================================================================
