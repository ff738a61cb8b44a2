---------------------------- MODULE ToolFilesProofs ----------------------------
(***************************************************************************)
(* The invariants of the parts that keep their promises in files, each        *)
(* proved for its part from an inductive invariant (IInv) of its own module.  *)
(***************************************************************************)
EXTENDS ToolFiles, FiniteSetTheorems, SequenceTheorems, TLAPS

LEMMA BoundsAreNumbers ==
    /\ MaxVersion \in Nat \ {0} /\ MaxRevision \in Nat \ {0} /\ MaxSaved \in Nat \ {0}
    /\ MaxBasis \in Nat \ {0} /\ MaxSource \in Nat \ {0} /\ MaxTask \in Nat \ {0}
    /\ MaxLosses \in Nat /\ MaxInstance \in Nat /\ MaxMove \in Nat /\ MaxAttempt \in Nat
    /\ MaxRequest \in Nat /\ MaxLoss \in Nat
BY BoundsAssumption DEF BoundsAssumption

LEMMA NobodyIsNoHost == "nobody" \notin Hosts
BY BoundsAssumption DEF BoundsAssumption

LEMMA NowhereIsNoPlace == \A p \in DOMAIN PlaceOf : PlaceOf[p] # "nowhere"
BY BoundsAssumption DEF BoundsAssumption

-----------------------------------------------------------------------------
(* The upgrade of the restart record. *)

LEMMA UpgradeBegins == Upgrade!Init => Upgrade!IInv
<1> SUFFICES ASSUME Upgrade!Init PROVE Upgrade!IInv
  OBVIOUS
<1> USE BoundsAreNumbers, NobodyIsNoHost DEF Upgrade!Init, Upgrade!Missing, Upgrade!Versions,
   Upgrade!Original,
      Upgrade!Converted, Upgrade!Nobody, Upgrade!record_, Upgrade!backup_
<1>1. Upgrade!TypeOK
  BY DEF Upgrade!TypeOK
<1>2. Upgrade!LockIsHeld
  BY DEF Upgrade!LockIsHeld, Upgrade!TypeOK
<1>3. Upgrade!BackupIsFirst
  BY DEF Upgrade!BackupIsFirst, Upgrade!TypeOK, Upgrade!LockIsHeld, Upgrade!OpenedIsLasting
<1>4. Upgrade!OpenedIsLasting
  BY DEF Upgrade!OpenedIsLasting, Upgrade!TypeOK, Upgrade!LockIsHeld
<1> QED
  BY <1>1, <1>2, <1>3, <1>4 DEF Upgrade!IInv

LEMMA UpgradeStutters == Upgrade!IInv /\ UNCHANGED Upgrade!journalUpgrade => Upgrade!IInv'
BY DEF Upgrade!journalUpgrade, Upgrade!Missing, Upgrade!Versions,
   Upgrade!Original, Upgrade!Converted, Upgrade!Nobody, Upgrade!record_,
   Upgrade!backup_, Upgrade!TypeOK, Upgrade!LockIsHeld,
   Upgrade!BackupIsFirst, Upgrade!OpenedIsLasting, Upgrade!IInv

LEMMA UpgradeStep == Upgrade!IInv /\ Upgrade!Next => Upgrade!IInv'
<1> SUFFICES ASSUME Upgrade!IInv, Upgrade!Next PROVE Upgrade!IInv'
  OBVIOUS
<1> USE BoundsAreNumbers, NobodyIsNoHost DEF Upgrade!Missing, Upgrade!Versions,
   Upgrade!Original, Upgrade!Converted,
      Upgrade!Nobody, Upgrade!record_, Upgrade!backup_, Upgrade!IInv
<1>1. CASE Upgrade!PowerLoss
  <2> USE <1>1 DEF Upgrade!PowerLoss, Upgrade!TypeOK
  <2>1. Upgrade!TypeOK'
    OBVIOUS
  <2>2. Upgrade!LockIsHeld'
    BY DEF Upgrade!LockIsHeld
  <2>3. Upgrade!BackupIsFirst'
    BY DEF Upgrade!BackupIsFirst, Upgrade!LockIsHeld, Upgrade!OpenedIsLasting
  <2>4. Upgrade!OpenedIsLasting'
    BY DEF Upgrade!OpenedIsLasting, Upgrade!LockIsHeld
  <2> QED
    BY <2>1, <2>2, <2>3, <2>4
<1>2. ASSUME NEW w \in Hosts, Upgrade!Start(w) PROVE Upgrade!IInv'
  <2> USE <1>2 DEF Upgrade!Start, Upgrade!Takes, Upgrade!Goes, Upgrade!TypeOK
  <2>1. Upgrade!TypeOK'
    OBVIOUS
  <2>2. Upgrade!LockIsHeld'
    BY DEF Upgrade!LockIsHeld
  <2>3. Upgrade!BackupIsFirst'
    BY DEF Upgrade!BackupIsFirst, Upgrade!LockIsHeld, Upgrade!OpenedIsLasting
  <2>4. Upgrade!OpenedIsLasting'
    BY DEF Upgrade!OpenedIsLasting, Upgrade!LockIsHeld
  <2> QED
    BY <2>1, <2>2, <2>3, <2>4
<1>3. ASSUME NEW w \in Hosts, Upgrade!Inspects(w) PROVE Upgrade!IInv'
  <2> USE <1>3 DEF Upgrade!Inspects, Upgrade!Goes, Upgrade!Syncs, Upgrade!Returns,
        Upgrade!TypeOK
  <2>1. Upgrade!TypeOK'
    OBVIOUS
  <2>2. Upgrade!LockIsHeld'
    BY DEF Upgrade!LockIsHeld
  <2>3. Upgrade!BackupIsFirst'
    BY DEF Upgrade!BackupIsFirst, Upgrade!LockIsHeld, Upgrade!OpenedIsLasting
  <2>4. Upgrade!OpenedIsLasting'
    BY DEF Upgrade!OpenedIsLasting, Upgrade!LockIsHeld
  <2> QED
    BY <2>1, <2>2, <2>3, <2>4
<1>4. ASSUME NEW w \in Hosts, Upgrade!Preserves(w) PROVE Upgrade!IInv'
  <2> USE <1>4 DEF Upgrade!Preserves, Upgrade!Goes, Upgrade!TypeOK
  <2>1. Upgrade!TypeOK'
    OBVIOUS
  <2>2. Upgrade!LockIsHeld'
    BY DEF Upgrade!LockIsHeld
  <2>3. Upgrade!BackupIsFirst'
    BY DEF Upgrade!BackupIsFirst, Upgrade!LockIsHeld, Upgrade!OpenedIsLasting
  <2>4. Upgrade!OpenedIsLasting'
    BY DEF Upgrade!OpenedIsLasting, Upgrade!LockIsHeld
  <2> QED
    BY <2>1, <2>2, <2>3, <2>4
<1>5. ASSUME NEW w \in Hosts, Upgrade!Verifies(w) PROVE Upgrade!IInv'
  <2> USE <1>5 DEF Upgrade!Verifies, Upgrade!Goes, Upgrade!Syncs, Upgrade!Returns,
        Upgrade!TypeOK
  <2>1. Upgrade!TypeOK'
    OBVIOUS
  <2>2. Upgrade!LockIsHeld'
    BY DEF Upgrade!LockIsHeld
  <2>3. Upgrade!BackupIsFirst'
    BY DEF Upgrade!BackupIsFirst, Upgrade!LockIsHeld, Upgrade!OpenedIsLasting
  <2>4. Upgrade!OpenedIsLasting'
    BY DEF Upgrade!OpenedIsLasting, Upgrade!LockIsHeld
  <2> QED
    BY <2>1, <2>2, <2>3, <2>4
<1>6. ASSUME NEW w \in Hosts, Upgrade!Activates(w) PROVE Upgrade!IInv'
  <2> USE <1>6 DEF Upgrade!Activates, Upgrade!Goes, Upgrade!TypeOK
  <2>1. Upgrade!TypeOK'
    OBVIOUS
  <2>2. Upgrade!LockIsHeld'
    BY DEF Upgrade!LockIsHeld
  <2>3. Upgrade!BackupIsFirst'
    BY DEF Upgrade!BackupIsFirst, Upgrade!LockIsHeld, Upgrade!OpenedIsLasting
  <2>4. Upgrade!OpenedIsLasting'
    BY DEF Upgrade!OpenedIsLasting, Upgrade!LockIsHeld
  <2> QED
    BY <2>1, <2>2, <2>3, <2>4
<1>7. ASSUME NEW w \in Hosts, Upgrade!ReadsBack(w) PROVE Upgrade!IInv'
  <2> USE <1>7 DEF Upgrade!ReadsBack, Upgrade!Goes, Upgrade!Syncs, Upgrade!Returns,
        Upgrade!TypeOK
  <2>1. Upgrade!TypeOK'
    OBVIOUS
  <2>2. Upgrade!LockIsHeld'
    BY DEF Upgrade!LockIsHeld
  <2>3. Upgrade!BackupIsFirst'
    BY DEF Upgrade!BackupIsFirst, Upgrade!LockIsHeld, Upgrade!OpenedIsLasting
  <2>4. Upgrade!OpenedIsLasting'
    BY DEF Upgrade!OpenedIsLasting, Upgrade!LockIsHeld
  <2> QED
    BY <2>1, <2>2, <2>3, <2>4
<1>8. ASSUME NEW w \in Hosts, Upgrade!Reopen(w) PROVE Upgrade!IInv'
  <2> USE <1>8 DEF Upgrade!Reopen, Upgrade!Takes, Upgrade!Goes, Upgrade!TypeOK
  <2>1. Upgrade!TypeOK'
    OBVIOUS
  <2>2. Upgrade!LockIsHeld'
    BY DEF Upgrade!LockIsHeld
  <2>3. Upgrade!BackupIsFirst'
    BY DEF Upgrade!BackupIsFirst, Upgrade!LockIsHeld, Upgrade!OpenedIsLasting
  <2>4. Upgrade!OpenedIsLasting'
    BY DEF Upgrade!OpenedIsLasting, Upgrade!LockIsHeld
  <2> QED
    BY <2>1, <2>2, <2>3, <2>4
<1>9. ASSUME NEW w \in Hosts, Upgrade!Opens(w) PROVE Upgrade!IInv'
  <2> USE <1>9 DEF Upgrade!Opens, Upgrade!Goes, Upgrade!Returns, Upgrade!TypeOK
  <2>1. Upgrade!TypeOK'
    OBVIOUS
  <2>2. Upgrade!LockIsHeld'
    BY DEF Upgrade!LockIsHeld
  <2>3. Upgrade!BackupIsFirst'
    BY DEF Upgrade!BackupIsFirst, Upgrade!LockIsHeld, Upgrade!OpenedIsLasting
  <2>4. Upgrade!OpenedIsLasting'
    BY DEF Upgrade!OpenedIsLasting, Upgrade!LockIsHeld
  <2> QED
    BY <2>1, <2>2, <2>3, <2>4
<1>10. ASSUME NEW w \in Hosts, Upgrade!Writes(w) PROVE Upgrade!IInv'
  <2> USE <1>10 DEF Upgrade!Writes, Upgrade!Goes, Upgrade!TypeOK
  <2>1. Upgrade!TypeOK'
    OBVIOUS
  <2>2. Upgrade!LockIsHeld'
    BY DEF Upgrade!LockIsHeld
  <2>3. Upgrade!BackupIsFirst'
    BY DEF Upgrade!BackupIsFirst, Upgrade!LockIsHeld, Upgrade!OpenedIsLasting
  <2>4. Upgrade!OpenedIsLasting'
    BY DEF Upgrade!OpenedIsLasting, Upgrade!LockIsHeld
  <2> QED
    BY <2>1, <2>2, <2>3, <2>4
<1>11. ASSUME NEW w \in Hosts, Upgrade!Ends(w) PROVE Upgrade!IInv'
  <2> USE <1>11 DEF Upgrade!Ends, Upgrade!Goes, Upgrade!Returns, Upgrade!TypeOK
  <2>1. Upgrade!TypeOK'
    OBVIOUS
  <2>2. Upgrade!LockIsHeld'
    BY DEF Upgrade!LockIsHeld
  <2>3. Upgrade!BackupIsFirst'
    BY DEF Upgrade!BackupIsFirst, Upgrade!LockIsHeld, Upgrade!OpenedIsLasting
  <2>4. Upgrade!OpenedIsLasting'
    BY DEF Upgrade!OpenedIsLasting, Upgrade!LockIsHeld
  <2> QED
    BY <2>1, <2>2, <2>3, <2>4
<1> QED
BY <1>1, <1>2, <1>3, <1>4, <1>5, <1>6, <1>7, <1>8, <1>9, <1>10, <1>11 DEF Upgrade!Next

-----------------------------------------------------------------------------
(* The upgrade of a folder. *)

LEMMA FolderBegins == Folder!Init => Folder!IInv
<1> SUFFICES ASSUME Folder!Init PROVE Folder!IInv
  OBVIOUS
<1> USE BoundsAreNumbers, NobodyIsNoHost DEF Folder!Init, Folder!Missing, Folder!Files,
   Folder!Pointers, Folder!Nobody,
      Folder!folder
<1>1. Folder!TypeOK
  <2>1. Folder!HostsOK
    BY DEF Folder!HostsOK, Folder!TypeOK
  <2> QED
    BY <2>1 DEF Folder!TypeOK, Folder!PointersAreExpected, Folder!Original,
       Folder!Converted, Folder!Journal, Folder!Intentions
<1>2. Folder!LockIsHeld
  BY DEF Folder!LockIsHeld, Folder!TypeOK, Folder!HostsOK, Folder!Original,
     Folder!Converted, Folder!Journal, Folder!Intentions
<1>3. Folder!StagesLast
  BY DEF Folder!StagesLast, Folder!TypeOK, Folder!HostsOK, Folder!OriginsDiffer,
     Folder!UpgradeIsWhole, Folder!LockIsHeld, Folder!Original, Folder!Converted,
     Folder!Journal, Folder!Intentions
<1>4. Folder!PointersAreExpected
  BY DEF Folder!PointersAreExpected, Folder!TypeOK, Folder!HostsOK, Folder!LockIsHeld,
     Folder!Original, Folder!Converted, Folder!Journal, Folder!Intentions
<1>5. Folder!OriginsDiffer
  BY DEF Folder!OriginsDiffer, Folder!TypeOK, Folder!HostsOK, Folder!PointersAreExpected,
     Folder!Original, Folder!Converted, Folder!Journal, Folder!Intentions
<1>6. Folder!UpgradeIsWhole
  BY DEF Folder!UpgradeIsWhole, Folder!TypeOK, Folder!HostsOK, Folder!StagesLast,
     Folder!PointersAreExpected, Folder!OriginsDiffer, Folder!Original, Folder!Converted,
     Folder!Journal, Folder!Intentions
<1>7. Folder!UpgradeKeepsSaves
  BY DEF Folder!UpgradeKeepsSaves, Folder!TypeOK, Folder!HostsOK,
     Folder!PointersAreExpected, Folder!Original, Folder!Converted, Folder!Journal,
     Folder!Intentions
<1> QED
  BY <1>1, <1>2, <1>3, <1>4, <1>5, <1>6, <1>7 DEF Folder!IInv

LEMMA FolderStutters == Folder!IInv /\ UNCHANGED Folder!folderUpgrade => Folder!IInv'
BY DEF Folder!folderUpgrade, Folder!Missing, Folder!Files, Folder!Pointers,
   Folder!Nobody, Folder!folder, Folder!HostsOK, Folder!TypeOK,
   Folder!PointersAreExpected, Folder!Original, Folder!Converted,
   Folder!Journal, Folder!Intentions, Folder!LockIsHeld,
   Folder!StagesLast, Folder!OriginsDiffer, Folder!UpgradeIsWhole,
   Folder!UpgradeKeepsSaves, Folder!IInv

LEMMA FolderStep == Folder!IInv /\ Folder!Next => Folder!IInv'
<1> SUFFICES ASSUME Folder!IInv, Folder!Next PROVE Folder!IInv'
  OBVIOUS
<1> USE BoundsAreNumbers, NobodyIsNoHost DEF Folder!Missing, Folder!Files, Folder!Pointers,
   Folder!Nobody,
      Folder!folder, Folder!IInv
<1>1. CASE Folder!PowerLoss
  <2>1. Folder!TypeOK'
    <3>1. Folder!HostsOK'
      BY <1>1 DEF Folder!PowerLoss, Folder!HostsOK, Folder!TypeOK
    <3> QED
      BY <1>1, <3>1 DEF Folder!PowerLoss, Folder!TypeOK, Folder!PointersAreExpected,
         Folder!Original, Folder!Converted, Folder!Journal, Folder!Intentions
  <2>2. Folder!LockIsHeld'
    BY <1>1 DEF Folder!PowerLoss, Folder!LockIsHeld, Folder!TypeOK, Folder!HostsOK,
       Folder!Original, Folder!Converted, Folder!Journal, Folder!Intentions
  <2>3. Folder!StagesLast'
    BY <1>1 DEF Folder!PowerLoss, Folder!StagesLast, Folder!TypeOK, Folder!HostsOK,
       Folder!OriginsDiffer, Folder!UpgradeIsWhole, Folder!LockIsHeld, Folder!Original,
       Folder!Converted, Folder!Journal, Folder!Intentions
  <2>4. Folder!PointersAreExpected'
    BY <1>1 DEF Folder!PowerLoss, Folder!PointersAreExpected, Folder!TypeOK, Folder!HostsOK,
       Folder!LockIsHeld, Folder!Original, Folder!Converted, Folder!Journal,
       Folder!Intentions
  <2>5. Folder!OriginsDiffer'
    BY <1>1 DEF Folder!PowerLoss, Folder!OriginsDiffer, Folder!TypeOK, Folder!HostsOK,
       Folder!PointersAreExpected, Folder!Original, Folder!Converted, Folder!Journal,
       Folder!Intentions
  <2>6. Folder!UpgradeIsWhole'
    BY <1>1 DEF Folder!PowerLoss, Folder!UpgradeIsWhole, Folder!TypeOK, Folder!HostsOK,
       Folder!StagesLast, Folder!PointersAreExpected, Folder!OriginsDiffer, Folder!Original,
       Folder!Converted, Folder!Journal, Folder!Intentions
  <2>7. Folder!UpgradeKeepsSaves'
    BY <1>1 DEF Folder!PowerLoss, Folder!UpgradeKeepsSaves, Folder!TypeOK, Folder!HostsOK,
       Folder!PointersAreExpected, Folder!Original, Folder!Converted, Folder!Journal,
       Folder!Intentions
  <2> QED
    BY <2>1, <2>2, <2>3, <2>4, <2>5, <2>6, <2>7
<1>2. ASSUME NEW h \in Hosts, Folder!Opens(h) PROVE Folder!IInv'
  <2>1. Folder!TypeOK'
    <3>1. Folder!HostsOK'
      BY <1>2 DEF Folder!Opens, Folder!Goes, Folder!Saw, Folder!HostsOK, Folder!TypeOK
    <3> QED
      BY <1>2, <3>1 DEF Folder!Opens, Folder!Goes, Folder!Saw, Folder!TypeOK,
         Folder!PointersAreExpected, Folder!Original, Folder!Converted, Folder!Journal,
         Folder!Intentions
  <2>2. Folder!LockIsHeld'
    BY <1>2 DEF Folder!Opens, Folder!Goes, Folder!Saw, Folder!LockIsHeld, Folder!TypeOK,
       Folder!HostsOK, Folder!Original, Folder!Converted, Folder!Journal, Folder!Intentions
  <2>3. Folder!StagesLast'
    BY <1>2 DEF Folder!Opens, Folder!Goes, Folder!Saw, Folder!StagesLast, Folder!TypeOK,
       Folder!HostsOK, Folder!OriginsDiffer, Folder!UpgradeIsWhole, Folder!LockIsHeld,
       Folder!Original, Folder!Converted, Folder!Journal, Folder!Intentions
  <2>4. Folder!PointersAreExpected'
    BY <1>2 DEF Folder!Opens, Folder!Goes, Folder!Saw, Folder!PointersAreExpected,
       Folder!TypeOK, Folder!HostsOK, Folder!LockIsHeld, Folder!Original, Folder!Converted,
       Folder!Journal, Folder!Intentions
  <2>5. Folder!OriginsDiffer'
    BY <1>2 DEF Folder!Opens, Folder!Goes, Folder!Saw, Folder!OriginsDiffer, Folder!TypeOK,
       Folder!HostsOK, Folder!PointersAreExpected, Folder!Original, Folder!Converted,
       Folder!Journal, Folder!Intentions
  <2>6. Folder!UpgradeIsWhole'
    BY <1>2 DEF Folder!Opens, Folder!Goes, Folder!Saw, Folder!UpgradeIsWhole, Folder!TypeOK,
       Folder!HostsOK, Folder!StagesLast, Folder!PointersAreExpected, Folder!OriginsDiffer,
       Folder!Original, Folder!Converted, Folder!Journal, Folder!Intentions
  <2>7. Folder!UpgradeKeepsSaves'
    BY <1>2 DEF Folder!Opens, Folder!Goes, Folder!Saw, Folder!UpgradeKeepsSaves,
       Folder!TypeOK, Folder!HostsOK, Folder!PointersAreExpected, Folder!Original,
       Folder!Converted, Folder!Journal, Folder!Intentions
  <2> QED
    BY <2>1, <2>2, <2>3, <2>4, <2>5, <2>6, <2>7
<1>3. ASSUME NEW h \in Hosts, Folder!Upgrade(h) PROVE Folder!IInv'
  <2>1. Folder!TypeOK'
    <3>1. Folder!HostsOK'
      BY <1>3 DEF Folder!Upgrade, Folder!Goes, Folder!HostsOK, Folder!TypeOK
    <3> QED
      BY <1>3, <3>1 DEF Folder!Upgrade, Folder!Goes, Folder!TypeOK,
         Folder!PointersAreExpected, Folder!Original, Folder!Converted, Folder!Journal,
         Folder!Intentions
  <2>2. Folder!LockIsHeld'
    BY <1>3 DEF Folder!Upgrade, Folder!Goes, Folder!LockIsHeld, Folder!TypeOK,
       Folder!HostsOK, Folder!Original, Folder!Converted, Folder!Journal, Folder!Intentions
  <2>3. Folder!StagesLast'
    BY <1>3 DEF Folder!Upgrade, Folder!Goes, Folder!StagesLast, Folder!TypeOK,
       Folder!HostsOK, Folder!OriginsDiffer, Folder!UpgradeIsWhole, Folder!LockIsHeld,
       Folder!Original, Folder!Converted, Folder!Journal, Folder!Intentions
  <2>4. Folder!PointersAreExpected'
    BY <1>3 DEF Folder!Upgrade, Folder!Goes, Folder!PointersAreExpected, Folder!TypeOK,
       Folder!HostsOK, Folder!LockIsHeld, Folder!Original, Folder!Converted, Folder!Journal,
       Folder!Intentions
  <2>5. Folder!OriginsDiffer'
    BY <1>3 DEF Folder!Upgrade, Folder!Goes, Folder!OriginsDiffer, Folder!TypeOK,
       Folder!HostsOK, Folder!PointersAreExpected, Folder!Original, Folder!Converted,
       Folder!Journal, Folder!Intentions
  <2>6. Folder!UpgradeIsWhole'
    BY <1>3 DEF Folder!Upgrade, Folder!Goes, Folder!UpgradeIsWhole, Folder!TypeOK,
       Folder!HostsOK, Folder!StagesLast, Folder!PointersAreExpected, Folder!OriginsDiffer,
       Folder!Original, Folder!Converted, Folder!Journal, Folder!Intentions
  <2>7. Folder!UpgradeKeepsSaves'
    BY <1>3 DEF Folder!Upgrade, Folder!Goes, Folder!UpgradeKeepsSaves, Folder!TypeOK,
       Folder!HostsOK, Folder!PointersAreExpected, Folder!Original, Folder!Converted,
       Folder!Journal, Folder!Intentions
  <2> QED
    BY <2>1, <2>2, <2>3, <2>4, <2>5, <2>6, <2>7
<1>4. ASSUME NEW h \in Hosts, Folder!Recover(h) PROVE Folder!IInv'
  <2>1. Folder!TypeOK'
    <3>1. Folder!HostsOK'
      BY <1>4 DEF Folder!Recover, Folder!Goes, Folder!HostsOK, Folder!TypeOK
    <3> QED
      BY <1>4, <3>1 DEF Folder!Recover, Folder!Goes, Folder!TypeOK,
         Folder!PointersAreExpected, Folder!Original, Folder!Converted, Folder!Journal,
         Folder!Intentions
  <2>2. Folder!LockIsHeld'
    BY <1>4 DEF Folder!Recover, Folder!Goes, Folder!LockIsHeld, Folder!TypeOK,
       Folder!HostsOK, Folder!Original, Folder!Converted, Folder!Journal, Folder!Intentions
  <2>3. Folder!StagesLast'
    BY <1>4 DEF Folder!Recover, Folder!Goes, Folder!StagesLast, Folder!TypeOK,
       Folder!HostsOK, Folder!OriginsDiffer, Folder!UpgradeIsWhole, Folder!LockIsHeld,
       Folder!Original, Folder!Converted, Folder!Journal, Folder!Intentions
  <2>4. Folder!PointersAreExpected'
    BY <1>4 DEF Folder!Recover, Folder!Goes, Folder!PointersAreExpected, Folder!TypeOK,
       Folder!HostsOK, Folder!LockIsHeld, Folder!Original, Folder!Converted, Folder!Journal,
       Folder!Intentions
  <2>5. Folder!OriginsDiffer'
    BY <1>4 DEF Folder!Recover, Folder!Goes, Folder!OriginsDiffer, Folder!TypeOK,
       Folder!HostsOK, Folder!PointersAreExpected, Folder!Original, Folder!Converted,
       Folder!Journal, Folder!Intentions
  <2>6. Folder!UpgradeIsWhole'
    BY <1>4 DEF Folder!Recover, Folder!Goes, Folder!UpgradeIsWhole, Folder!TypeOK,
       Folder!HostsOK, Folder!StagesLast, Folder!PointersAreExpected, Folder!OriginsDiffer,
       Folder!Original, Folder!Converted, Folder!Journal, Folder!Intentions
  <2>7. Folder!UpgradeKeepsSaves'
    BY <1>4 DEF Folder!Recover, Folder!Goes, Folder!UpgradeKeepsSaves, Folder!TypeOK,
       Folder!HostsOK, Folder!PointersAreExpected, Folder!Original, Folder!Converted,
       Folder!Journal, Folder!Intentions
  <2> QED
    BY <2>1, <2>2, <2>3, <2>4, <2>5, <2>6, <2>7
<1>5. ASSUME NEW h \in Hosts, Folder!StageOriginal(h) PROVE Folder!IInv'
  <2>1. Folder!TypeOK'
    <3>1. Folder!HostsOK'
      BY <1>5 DEF Folder!StageOriginal, Folder!Stages, Folder!Staged, Folder!Published,
         Folder!Synced, Folder!PublishFails, Folder!Goes, Folder!Returns, Folder!HostsOK,
         Folder!TypeOK
    <3>2. Folder!HostsOK'
      BY <1>5 DEF Folder!StageOriginal, Folder!Stages, Folder!Staged, Folder!Published,
         Folder!Synced, Folder!PublishFails, Folder!Goes, Folder!Returns, Folder!TypeOK,
         Folder!PointersAreExpected, Folder!Original, Folder!Converted, Folder!Journal,
         Folder!Intentions, Folder!HostsOK
    <3>3. Folder!Original \in Folder!Files
      BY BoundsAreNumbers DEF Folder!Original, Folder!Converted, Folder!Journal,
         Folder!Intentions
    <3>4. v2' \subseteq v2 \cup {Folder!Original} /\ v2 \subseteq Folder!Files
      BY <1>5 DEF Folder!StageOriginal, Folder!Stages, Folder!Staged, Folder!Published,
         Folder!Synced, Folder!PublishFails, Folder!Goes, Folder!Returns, Folder!TypeOK,
         Folder!PointersAreExpected, Folder!Original, Folder!Converted, Folder!Journal,
         Folder!Intentions
    <3>5. v3' \subseteq v2'
      BY <1>5 DEF Folder!StageOriginal, Folder!Stages, Folder!Staged, Folder!Published,
         Folder!Synced, Folder!PublishFails, Folder!Goes, Folder!Returns, Folder!TypeOK,
         Folder!PointersAreExpected, Folder!Original, Folder!Converted, Folder!Journal,
         Folder!Intentions
    <3>6. v4' \in v5' /\ v5' \subseteq Folder!Pointers
      BY <1>5 DEF Folder!StageOriginal, Folder!Stages, Folder!Staged, Folder!Published,
         Folder!Synced, Folder!PublishFails, Folder!Goes, Folder!Returns, Folder!TypeOK,
         Folder!PointersAreExpected, Folder!Original, Folder!Converted, Folder!Journal,
         Folder!Intentions
    <3> QED
      BY <3>1, <3>2, <3>3, <3>4, <3>5, <3>6 DEF Folder!TypeOK, Folder!PointersAreExpected,
         Folder!Original, Folder!Converted, Folder!Journal, Folder!Intentions
  <2>2. Folder!LockIsHeld'
    BY <1>5 DEF Folder!StageOriginal, Folder!Stages, Folder!Staged, Folder!Published,
       Folder!Synced, Folder!PublishFails, Folder!Goes, Folder!Returns, Folder!LockIsHeld,
       Folder!TypeOK, Folder!HostsOK, Folder!Original, Folder!Converted, Folder!Journal,
       Folder!Intentions
  <2>3. Folder!StagesLast'
    BY <1>5 DEF Folder!StageOriginal, Folder!Stages, Folder!Staged, Folder!Published,
       Folder!Synced, Folder!PublishFails, Folder!Goes, Folder!Returns, Folder!StagesLast,
       Folder!TypeOK, Folder!HostsOK, Folder!OriginsDiffer, Folder!UpgradeIsWhole,
       Folder!LockIsHeld, Folder!Original, Folder!Converted, Folder!Journal,
       Folder!Intentions
  <2>4. Folder!PointersAreExpected'
    BY <1>5 DEF Folder!StageOriginal, Folder!Stages, Folder!Staged, Folder!Published,
       Folder!Synced, Folder!PublishFails, Folder!Goes, Folder!Returns,
       Folder!PointersAreExpected, Folder!TypeOK, Folder!HostsOK, Folder!LockIsHeld,
       Folder!Original, Folder!Converted, Folder!Journal, Folder!Intentions
  <2>5. Folder!OriginsDiffer'
    BY <1>5 DEF Folder!StageOriginal, Folder!Stages, Folder!Staged, Folder!Published,
       Folder!Synced, Folder!PublishFails, Folder!Goes, Folder!Returns,
       Folder!OriginsDiffer, Folder!TypeOK, Folder!HostsOK, Folder!PointersAreExpected,
       Folder!Original, Folder!Converted, Folder!Journal, Folder!Intentions
  <2>6. Folder!UpgradeIsWhole'
    BY <1>5 DEF Folder!StageOriginal, Folder!Stages, Folder!Staged, Folder!Published,
       Folder!Synced, Folder!PublishFails, Folder!Goes, Folder!Returns,
       Folder!UpgradeIsWhole, Folder!TypeOK, Folder!HostsOK, Folder!StagesLast,
       Folder!PointersAreExpected, Folder!OriginsDiffer, Folder!Original, Folder!Converted,
       Folder!Journal, Folder!Intentions
  <2>7. Folder!UpgradeKeepsSaves'
    <3>1. v5' \subseteq v5 /\ v9' = v9
      BY <1>5 DEF Folder!StageOriginal, Folder!Stages, Folder!Staged, Folder!Published,
         Folder!Synced, Folder!PublishFails, Folder!Goes, Folder!Returns,
         Folder!UpgradeKeepsSaves, Folder!TypeOK, Folder!HostsOK,
         Folder!PointersAreExpected, Folder!Original, Folder!Converted, Folder!Journal,
         Folder!Intentions
    <3> QED
      BY <3>1 DEF Folder!UpgradeKeepsSaves, Folder!TypeOK, Folder!HostsOK,
         Folder!PointersAreExpected, Folder!Original, Folder!Converted, Folder!Journal,
         Folder!Intentions
  <2> QED
    BY <2>1, <2>2, <2>3, <2>4, <2>5, <2>6, <2>7
<1>6. ASSUME NEW h \in Hosts, Folder!StageObject(h) PROVE Folder!IInv'
  <2>1. Folder!TypeOK'
    <3>1. Folder!HostsOK'
      BY <1>6 DEF Folder!StageObject, Folder!Stages, Folder!Staged, Folder!Published,
         Folder!Synced, Folder!PublishFails, Folder!Goes, Folder!Returns, Folder!HostsOK,
         Folder!TypeOK
    <3>2. Folder!HostsOK'
      BY <1>6 DEF Folder!StageObject, Folder!Stages, Folder!Staged, Folder!Published,
         Folder!Synced, Folder!PublishFails, Folder!Goes, Folder!Returns, Folder!TypeOK,
         Folder!PointersAreExpected, Folder!Original, Folder!Converted, Folder!Journal,
         Folder!Intentions, Folder!HostsOK
    <3>3. Folder!Converted \in Folder!Files
      BY BoundsAreNumbers DEF Folder!Original, Folder!Converted, Folder!Journal,
         Folder!Intentions
    <3>4. v2' \subseteq v2 \cup {Folder!Converted} /\ v2 \subseteq Folder!Files
      BY <1>6 DEF Folder!StageObject, Folder!Stages, Folder!Staged, Folder!Published,
         Folder!Synced, Folder!PublishFails, Folder!Goes, Folder!Returns, Folder!TypeOK,
         Folder!PointersAreExpected, Folder!Original, Folder!Converted, Folder!Journal,
         Folder!Intentions
    <3>5. v3' \subseteq v2'
      BY <1>6 DEF Folder!StageObject, Folder!Stages, Folder!Staged, Folder!Published,
         Folder!Synced, Folder!PublishFails, Folder!Goes, Folder!Returns, Folder!TypeOK,
         Folder!PointersAreExpected, Folder!Original, Folder!Converted, Folder!Journal,
         Folder!Intentions
    <3>6. v4' \in v5' /\ v5' \subseteq Folder!Pointers
      BY <1>6 DEF Folder!StageObject, Folder!Stages, Folder!Staged, Folder!Published,
         Folder!Synced, Folder!PublishFails, Folder!Goes, Folder!Returns, Folder!TypeOK,
         Folder!PointersAreExpected, Folder!Original, Folder!Converted, Folder!Journal,
         Folder!Intentions
    <3> QED
      BY <3>1, <3>2, <3>3, <3>4, <3>5, <3>6 DEF Folder!TypeOK, Folder!PointersAreExpected,
         Folder!Original, Folder!Converted, Folder!Journal, Folder!Intentions
  <2>2. Folder!LockIsHeld'
    BY <1>6 DEF Folder!StageObject, Folder!Stages, Folder!Staged, Folder!Published,
       Folder!Synced, Folder!PublishFails, Folder!Goes, Folder!Returns, Folder!LockIsHeld,
       Folder!TypeOK, Folder!HostsOK, Folder!Original, Folder!Converted, Folder!Journal,
       Folder!Intentions
  <2>3. Folder!StagesLast'
    BY <1>6 DEF Folder!StageObject, Folder!Stages, Folder!Staged, Folder!Published,
       Folder!Synced, Folder!PublishFails, Folder!Goes, Folder!Returns, Folder!StagesLast,
       Folder!TypeOK, Folder!HostsOK, Folder!OriginsDiffer, Folder!UpgradeIsWhole,
       Folder!LockIsHeld, Folder!Original, Folder!Converted, Folder!Journal,
       Folder!Intentions
  <2>4. Folder!PointersAreExpected'
    BY <1>6 DEF Folder!StageObject, Folder!Stages, Folder!Staged, Folder!Published,
       Folder!Synced, Folder!PublishFails, Folder!Goes, Folder!Returns,
       Folder!PointersAreExpected, Folder!TypeOK, Folder!HostsOK, Folder!LockIsHeld,
       Folder!Original, Folder!Converted, Folder!Journal, Folder!Intentions
  <2>5. Folder!OriginsDiffer'
    BY <1>6 DEF Folder!StageObject, Folder!Stages, Folder!Staged, Folder!Published,
       Folder!Synced, Folder!PublishFails, Folder!Goes, Folder!Returns,
       Folder!OriginsDiffer, Folder!TypeOK, Folder!HostsOK, Folder!PointersAreExpected,
       Folder!Original, Folder!Converted, Folder!Journal, Folder!Intentions
  <2>6. Folder!UpgradeIsWhole'
    BY <1>6 DEF Folder!StageObject, Folder!Stages, Folder!Staged, Folder!Published,
       Folder!Synced, Folder!PublishFails, Folder!Goes, Folder!Returns,
       Folder!UpgradeIsWhole, Folder!TypeOK, Folder!HostsOK, Folder!StagesLast,
       Folder!PointersAreExpected, Folder!OriginsDiffer, Folder!Original, Folder!Converted,
       Folder!Journal, Folder!Intentions
  <2>7. Folder!UpgradeKeepsSaves'
    <3>1. v5' \subseteq v5 /\ v9' = v9
      BY <1>6 DEF Folder!StageObject, Folder!Stages, Folder!Staged, Folder!Published,
         Folder!Synced, Folder!PublishFails, Folder!Goes, Folder!Returns,
         Folder!UpgradeKeepsSaves, Folder!TypeOK, Folder!HostsOK,
         Folder!PointersAreExpected, Folder!Original, Folder!Converted, Folder!Journal,
         Folder!Intentions
    <3> QED
      BY <3>1 DEF Folder!UpgradeKeepsSaves, Folder!TypeOK, Folder!HostsOK,
         Folder!PointersAreExpected, Folder!Original, Folder!Converted, Folder!Journal,
         Folder!Intentions
  <2> QED
    BY <2>1, <2>2, <2>3, <2>4, <2>5, <2>6, <2>7
<1>7. ASSUME NEW h \in Hosts, Folder!StageJournal(h) PROVE Folder!IInv'
  <2>1. Folder!TypeOK'
    <3>1. Folder!HostsOK'
      BY <1>7 DEF Folder!StageJournal, Folder!Stages, Folder!Staged, Folder!Published,
         Folder!Synced, Folder!PublishFails, Folder!Goes, Folder!Returns, Folder!HostsOK,
         Folder!TypeOK
    <3>2. Folder!HostsOK'
      BY <1>7 DEF Folder!StageJournal, Folder!Stages, Folder!Staged, Folder!Published,
         Folder!Synced, Folder!PublishFails, Folder!Goes, Folder!Returns, Folder!TypeOK,
         Folder!PointersAreExpected, Folder!Original, Folder!Converted, Folder!Journal,
         Folder!Intentions, Folder!HostsOK
    <3>3. Folder!Journal \in Folder!Files
      BY BoundsAreNumbers DEF Folder!Original, Folder!Converted, Folder!Journal,
         Folder!Intentions
    <3>4. v2' \subseteq v2 \cup {Folder!Journal} /\ v2 \subseteq Folder!Files
      BY <1>7 DEF Folder!StageJournal, Folder!Stages, Folder!Staged, Folder!Published,
         Folder!Synced, Folder!PublishFails, Folder!Goes, Folder!Returns, Folder!TypeOK,
         Folder!PointersAreExpected, Folder!Original, Folder!Converted, Folder!Journal,
         Folder!Intentions
    <3>5. v3' \subseteq v2'
      BY <1>7 DEF Folder!StageJournal, Folder!Stages, Folder!Staged, Folder!Published,
         Folder!Synced, Folder!PublishFails, Folder!Goes, Folder!Returns, Folder!TypeOK,
         Folder!PointersAreExpected, Folder!Original, Folder!Converted, Folder!Journal,
         Folder!Intentions
    <3>6. v4' \in v5' /\ v5' \subseteq Folder!Pointers
      BY <1>7 DEF Folder!StageJournal, Folder!Stages, Folder!Staged, Folder!Published,
         Folder!Synced, Folder!PublishFails, Folder!Goes, Folder!Returns, Folder!TypeOK,
         Folder!PointersAreExpected, Folder!Original, Folder!Converted, Folder!Journal,
         Folder!Intentions
    <3> QED
      BY <3>1, <3>2, <3>3, <3>4, <3>5, <3>6 DEF Folder!TypeOK, Folder!PointersAreExpected,
         Folder!Original, Folder!Converted, Folder!Journal, Folder!Intentions
  <2>2. Folder!LockIsHeld'
    BY <1>7 DEF Folder!StageJournal, Folder!Stages, Folder!Staged, Folder!Published,
       Folder!Synced, Folder!PublishFails, Folder!Goes, Folder!Returns, Folder!LockIsHeld,
       Folder!TypeOK, Folder!HostsOK, Folder!Original, Folder!Converted, Folder!Journal,
       Folder!Intentions
  <2>3. Folder!StagesLast'
    BY <1>7 DEF Folder!StageJournal, Folder!Stages, Folder!Staged, Folder!Published,
       Folder!Synced, Folder!PublishFails, Folder!Goes, Folder!Returns, Folder!StagesLast,
       Folder!TypeOK, Folder!HostsOK, Folder!OriginsDiffer, Folder!UpgradeIsWhole,
       Folder!LockIsHeld, Folder!Original, Folder!Converted, Folder!Journal,
       Folder!Intentions
  <2>4. Folder!PointersAreExpected'
    BY <1>7 DEF Folder!StageJournal, Folder!Stages, Folder!Staged, Folder!Published,
       Folder!Synced, Folder!PublishFails, Folder!Goes, Folder!Returns,
       Folder!PointersAreExpected, Folder!TypeOK, Folder!HostsOK, Folder!LockIsHeld,
       Folder!Original, Folder!Converted, Folder!Journal, Folder!Intentions
  <2>5. Folder!OriginsDiffer'
    BY <1>7 DEF Folder!StageJournal, Folder!Stages, Folder!Staged, Folder!Published,
       Folder!Synced, Folder!PublishFails, Folder!Goes, Folder!Returns,
       Folder!OriginsDiffer, Folder!TypeOK, Folder!HostsOK, Folder!PointersAreExpected,
       Folder!Original, Folder!Converted, Folder!Journal, Folder!Intentions
  <2>6. Folder!UpgradeIsWhole'
    BY <1>7 DEF Folder!StageJournal, Folder!Stages, Folder!Staged, Folder!Published,
       Folder!Synced, Folder!PublishFails, Folder!Goes, Folder!Returns,
       Folder!UpgradeIsWhole, Folder!TypeOK, Folder!HostsOK, Folder!StagesLast,
       Folder!PointersAreExpected, Folder!OriginsDiffer, Folder!Original, Folder!Converted,
       Folder!Journal, Folder!Intentions
  <2>7. Folder!UpgradeKeepsSaves'
    <3>1. v5' \subseteq v5 /\ v9' = v9
      BY <1>7 DEF Folder!StageJournal, Folder!Stages, Folder!Staged, Folder!Published,
         Folder!Synced, Folder!PublishFails, Folder!Goes, Folder!Returns,
         Folder!UpgradeKeepsSaves, Folder!TypeOK, Folder!HostsOK,
         Folder!PointersAreExpected, Folder!Original, Folder!Converted, Folder!Journal,
         Folder!Intentions
    <3> QED
      BY <3>1 DEF Folder!UpgradeKeepsSaves, Folder!TypeOK, Folder!HostsOK,
         Folder!PointersAreExpected, Folder!Original, Folder!Converted, Folder!Journal,
         Folder!Intentions
  <2> QED
    BY <2>1, <2>2, <2>3, <2>4, <2>5, <2>6, <2>7
<1>8. ASSUME NEW h \in Hosts, Folder!StageIntentions(h) PROVE Folder!IInv'
  <2>1. Folder!TypeOK'
    <3>1. Folder!HostsOK'
      BY <1>8 DEF Folder!StageIntentions, Folder!Stages, Folder!Staged, Folder!Published,
         Folder!Synced, Folder!PublishFails, Folder!Goes, Folder!Returns, Folder!HostsOK,
         Folder!TypeOK
    <3>2. Folder!HostsOK'
      BY <1>8 DEF Folder!StageIntentions, Folder!Stages, Folder!Staged, Folder!Published,
         Folder!Synced, Folder!PublishFails, Folder!Goes, Folder!Returns, Folder!TypeOK,
         Folder!PointersAreExpected, Folder!Original, Folder!Converted, Folder!Journal,
         Folder!Intentions, Folder!HostsOK
    <3>3. Folder!Intentions \in Folder!Files
      BY BoundsAreNumbers DEF Folder!Original, Folder!Converted, Folder!Journal,
         Folder!Intentions
    <3>4. v2' \subseteq v2 \cup {Folder!Intentions} /\ v2 \subseteq Folder!Files
      BY <1>8 DEF Folder!StageIntentions, Folder!Stages, Folder!Staged, Folder!Published,
         Folder!Synced, Folder!PublishFails, Folder!Goes, Folder!Returns, Folder!TypeOK,
         Folder!PointersAreExpected, Folder!Original, Folder!Converted, Folder!Journal,
         Folder!Intentions
    <3>5. v3' \subseteq v2'
      BY <1>8 DEF Folder!StageIntentions, Folder!Stages, Folder!Staged, Folder!Published,
         Folder!Synced, Folder!PublishFails, Folder!Goes, Folder!Returns, Folder!TypeOK,
         Folder!PointersAreExpected, Folder!Original, Folder!Converted, Folder!Journal,
         Folder!Intentions
    <3>6. v4' \in v5' /\ v5' \subseteq Folder!Pointers
      BY <1>8 DEF Folder!StageIntentions, Folder!Stages, Folder!Staged, Folder!Published,
         Folder!Synced, Folder!PublishFails, Folder!Goes, Folder!Returns, Folder!TypeOK,
         Folder!PointersAreExpected, Folder!Original, Folder!Converted, Folder!Journal,
         Folder!Intentions
    <3> QED
      BY <3>1, <3>2, <3>3, <3>4, <3>5, <3>6 DEF Folder!TypeOK, Folder!PointersAreExpected,
         Folder!Original, Folder!Converted, Folder!Journal, Folder!Intentions
  <2>2. Folder!LockIsHeld'
    BY <1>8 DEF Folder!StageIntentions, Folder!Stages, Folder!Staged, Folder!Published,
       Folder!Synced, Folder!PublishFails, Folder!Goes, Folder!Returns, Folder!LockIsHeld,
       Folder!TypeOK, Folder!HostsOK, Folder!Original, Folder!Converted, Folder!Journal,
       Folder!Intentions
  <2>3. Folder!StagesLast'
    BY <1>8 DEF Folder!StageIntentions, Folder!Stages, Folder!Staged, Folder!Published,
       Folder!Synced, Folder!PublishFails, Folder!Goes, Folder!Returns, Folder!StagesLast,
       Folder!TypeOK, Folder!HostsOK, Folder!OriginsDiffer, Folder!UpgradeIsWhole,
       Folder!LockIsHeld, Folder!Original, Folder!Converted, Folder!Journal,
       Folder!Intentions
  <2>4. Folder!PointersAreExpected'
    BY <1>8 DEF Folder!StageIntentions, Folder!Stages, Folder!Staged, Folder!Published,
       Folder!Synced, Folder!PublishFails, Folder!Goes, Folder!Returns,
       Folder!PointersAreExpected, Folder!TypeOK, Folder!HostsOK, Folder!LockIsHeld,
       Folder!Original, Folder!Converted, Folder!Journal, Folder!Intentions
  <2>5. Folder!OriginsDiffer'
    BY <1>8 DEF Folder!StageIntentions, Folder!Stages, Folder!Staged, Folder!Published,
       Folder!Synced, Folder!PublishFails, Folder!Goes, Folder!Returns,
       Folder!OriginsDiffer, Folder!TypeOK, Folder!HostsOK, Folder!PointersAreExpected,
       Folder!Original, Folder!Converted, Folder!Journal, Folder!Intentions
  <2>6. Folder!UpgradeIsWhole'
    BY ZenonT(40), <1>8 DEF Folder!StageIntentions, Folder!Stages, Folder!Staged, Folder!Published,
       Folder!Synced, Folder!PublishFails, Folder!Goes, Folder!Returns,
       Folder!UpgradeIsWhole, Folder!TypeOK, Folder!HostsOK, Folder!StagesLast,
       Folder!PointersAreExpected, Folder!OriginsDiffer, Folder!Original, Folder!Converted,
       Folder!Journal, Folder!Intentions
  <2>7. Folder!UpgradeKeepsSaves'
    <3>1. v5' \subseteq v5 /\ v9' = v9
      BY <1>8 DEF Folder!StageIntentions, Folder!Stages, Folder!Staged, Folder!Published,
         Folder!Synced, Folder!PublishFails, Folder!Goes, Folder!Returns,
         Folder!UpgradeKeepsSaves, Folder!TypeOK, Folder!HostsOK,
         Folder!PointersAreExpected, Folder!Original, Folder!Converted, Folder!Journal,
         Folder!Intentions
    <3> QED
      BY <3>1 DEF Folder!UpgradeKeepsSaves, Folder!TypeOK, Folder!HostsOK,
         Folder!PointersAreExpected, Folder!Original, Folder!Converted, Folder!Journal,
         Folder!Intentions
  <2> QED
    BY <2>1, <2>2, <2>3, <2>4, <2>5, <2>6, <2>7
<1>9. ASSUME NEW h \in Hosts, Folder!ReadsBack(h) PROVE Folder!IInv'
  <2>1. Folder!TypeOK'
    <3>1. Folder!HostsOK'
      BY <1>9 DEF Folder!ReadsBack, Folder!Goes, Folder!Returns, Folder!HostsOK,
         Folder!TypeOK
    <3> QED
      BY <1>9, <3>1 DEF Folder!ReadsBack, Folder!Goes, Folder!Returns, Folder!TypeOK,
         Folder!PointersAreExpected, Folder!Original, Folder!Converted, Folder!Journal,
         Folder!Intentions
  <2>2. Folder!LockIsHeld'
    BY <1>9 DEF Folder!ReadsBack, Folder!Goes, Folder!Returns, Folder!LockIsHeld,
       Folder!TypeOK, Folder!HostsOK, Folder!Original, Folder!Converted, Folder!Journal,
       Folder!Intentions
  <2>3. Folder!StagesLast'
    BY <1>9 DEF Folder!ReadsBack, Folder!Goes, Folder!Returns, Folder!StagesLast,
       Folder!TypeOK, Folder!HostsOK, Folder!OriginsDiffer, Folder!UpgradeIsWhole,
       Folder!LockIsHeld, Folder!Original, Folder!Converted, Folder!Journal,
       Folder!Intentions
  <2>4. Folder!PointersAreExpected'
    BY <1>9 DEF Folder!ReadsBack, Folder!Goes, Folder!Returns, Folder!PointersAreExpected,
       Folder!TypeOK, Folder!HostsOK, Folder!LockIsHeld, Folder!Original, Folder!Converted,
       Folder!Journal, Folder!Intentions
  <2>5. Folder!OriginsDiffer'
    BY <1>9 DEF Folder!ReadsBack, Folder!Goes, Folder!Returns, Folder!OriginsDiffer,
       Folder!TypeOK, Folder!HostsOK, Folder!PointersAreExpected, Folder!Original,
       Folder!Converted, Folder!Journal, Folder!Intentions
  <2>6. Folder!UpgradeIsWhole'
    BY <1>9 DEF Folder!ReadsBack, Folder!Goes, Folder!Returns, Folder!UpgradeIsWhole,
       Folder!TypeOK, Folder!HostsOK, Folder!StagesLast, Folder!PointersAreExpected,
       Folder!OriginsDiffer, Folder!Original, Folder!Converted, Folder!Journal,
       Folder!Intentions
  <2>7. Folder!UpgradeKeepsSaves'
    BY <1>9 DEF Folder!ReadsBack, Folder!Goes, Folder!Returns, Folder!UpgradeKeepsSaves,
       Folder!TypeOK, Folder!HostsOK, Folder!PointersAreExpected, Folder!Original,
       Folder!Converted, Folder!Journal, Folder!Intentions
  <2> QED
    BY <2>1, <2>2, <2>3, <2>4, <2>5, <2>6, <2>7
<1>10. ASSUME NEW h \in Hosts, Folder!Activates(h) PROVE Folder!IInv'
  <2>1. Folder!TypeOK'
    <3>1. Folder!HostsOK'
      BY <1>10 DEF Folder!Activates, Folder!Goes, Folder!Returns, Folder!Synced,
         Folder!HostsOK, Folder!TypeOK
    <3>2. Folder!HostsOK'
      BY <1>10 DEF Folder!Activates, Folder!Goes, Folder!Returns, Folder!Synced,
         Folder!TypeOK, Folder!PointersAreExpected, Folder!Original, Folder!Converted,
         Folder!Journal, Folder!Intentions, Folder!HostsOK
    <3>3. v2' = v2 /\ v3' \subseteq v2'
      BY <1>10 DEF Folder!Activates, Folder!Goes, Folder!Returns, Folder!Synced,
         Folder!TypeOK, Folder!PointersAreExpected, Folder!Original, Folder!Converted,
         Folder!Journal, Folder!Intentions
    <3>4. v4' \in v5'
      BY <1>10 DEF Folder!Activates, Folder!Goes, Folder!Returns, Folder!Synced,
         Folder!TypeOK, Folder!PointersAreExpected, Folder!Original, Folder!Converted,
         Folder!Journal, Folder!Intentions
    <3>5. v5' \subseteq v5 \cup {Folder!Converted}
      BY <1>10 DEF Folder!Activates, Folder!Goes, Folder!Returns, Folder!Synced,
         Folder!TypeOK, Folder!PointersAreExpected, Folder!Original, Folder!Converted,
         Folder!Journal, Folder!Intentions
    <3>6. Folder!Converted \in Folder!Pointers
      BY BoundsAreNumbers DEF Folder!Original, Folder!Converted, Folder!Journal,
         Folder!Intentions
    <3> QED
      BY <3>1, <3>2, <3>3, <3>4, <3>5, <3>6, <1>9 DEF Folder!TypeOK,
         Folder!PointersAreExpected, Folder!Original, Folder!Converted, Folder!Journal,
         Folder!Intentions
  <2>2. Folder!LockIsHeld'
    BY <1>10 DEF Folder!Activates, Folder!Goes, Folder!Returns, Folder!Synced,
       Folder!LockIsHeld, Folder!TypeOK, Folder!HostsOK, Folder!Original, Folder!Converted,
       Folder!Journal, Folder!Intentions
  <2>3. Folder!StagesLast'
    BY <1>10 DEF Folder!Activates, Folder!Goes, Folder!Returns, Folder!Synced,
       Folder!StagesLast, Folder!TypeOK, Folder!HostsOK, Folder!OriginsDiffer,
       Folder!UpgradeIsWhole, Folder!LockIsHeld, Folder!Original, Folder!Converted,
       Folder!Journal, Folder!Intentions
  <2>4. Folder!PointersAreExpected'
    BY <1>10 DEF Folder!Activates, Folder!Goes, Folder!Returns, Folder!Synced,
       Folder!PointersAreExpected, Folder!TypeOK, Folder!HostsOK, Folder!LockIsHeld,
       Folder!Original, Folder!Converted, Folder!Journal, Folder!Intentions
  <2>5. Folder!OriginsDiffer'
    BY <1>10 DEF Folder!Activates, Folder!Goes, Folder!Returns, Folder!Synced,
       Folder!OriginsDiffer, Folder!TypeOK, Folder!HostsOK, Folder!PointersAreExpected,
       Folder!Original, Folder!Converted, Folder!Journal, Folder!Intentions
  <2>6. Folder!UpgradeIsWhole'
    BY <1>10 DEF Folder!Activates, Folder!Goes, Folder!Returns, Folder!Synced,
       Folder!UpgradeIsWhole, Folder!TypeOK, Folder!HostsOK, Folder!StagesLast,
       Folder!PointersAreExpected, Folder!OriginsDiffer, Folder!Original, Folder!Converted,
       Folder!Journal, Folder!Intentions
  <2>7. Folder!UpgradeKeepsSaves'
    BY <1>10 DEF Folder!Activates, Folder!Goes, Folder!Returns, Folder!Synced,
       Folder!UpgradeKeepsSaves, Folder!TypeOK, Folder!HostsOK, Folder!PointersAreExpected,
       Folder!Original, Folder!Converted, Folder!Journal, Folder!Intentions
  <2> QED
    BY <2>1, <2>2, <2>3, <2>4, <2>5, <2>6, <2>7
<1>11. ASSUME NEW h \in Hosts, Folder!SaveBegins(h) PROVE Folder!IInv'
  <2>1. Folder!TypeOK'
    <3>1. Folder!HostsOK'
      BY <1>11 DEF Folder!SaveBegins, Folder!Goes, Folder!HostsOK, Folder!TypeOK
    <3> QED
      BY <1>11, <3>1 DEF Folder!SaveBegins, Folder!Goes, Folder!TypeOK,
         Folder!PointersAreExpected, Folder!Original, Folder!Converted, Folder!Journal,
         Folder!Intentions
  <2>2. Folder!LockIsHeld'
    BY <1>11 DEF Folder!SaveBegins, Folder!Goes, Folder!LockIsHeld, Folder!TypeOK,
       Folder!HostsOK, Folder!Original, Folder!Converted, Folder!Journal, Folder!Intentions
  <2>3. Folder!StagesLast'
    BY <1>11 DEF Folder!SaveBegins, Folder!Goes, Folder!StagesLast, Folder!TypeOK,
       Folder!HostsOK, Folder!OriginsDiffer, Folder!UpgradeIsWhole, Folder!LockIsHeld,
       Folder!Original, Folder!Converted, Folder!Journal, Folder!Intentions
  <2>4. Folder!PointersAreExpected'
    BY <1>11 DEF Folder!SaveBegins, Folder!Goes, Folder!PointersAreExpected, Folder!TypeOK,
       Folder!HostsOK, Folder!LockIsHeld, Folder!Original, Folder!Converted, Folder!Journal,
       Folder!Intentions
  <2>5. Folder!OriginsDiffer'
    BY <1>11 DEF Folder!SaveBegins, Folder!Goes, Folder!OriginsDiffer, Folder!TypeOK,
       Folder!HostsOK, Folder!PointersAreExpected, Folder!Original, Folder!Converted,
       Folder!Journal, Folder!Intentions
  <2>6. Folder!UpgradeIsWhole'
    BY <1>11 DEF Folder!SaveBegins, Folder!Goes, Folder!UpgradeIsWhole, Folder!TypeOK,
       Folder!HostsOK, Folder!StagesLast, Folder!PointersAreExpected, Folder!OriginsDiffer,
       Folder!Original, Folder!Converted, Folder!Journal, Folder!Intentions
  <2>7. Folder!UpgradeKeepsSaves'
    BY <1>11 DEF Folder!SaveBegins, Folder!Goes, Folder!UpgradeKeepsSaves, Folder!TypeOK,
       Folder!HostsOK, Folder!PointersAreExpected, Folder!Original, Folder!Converted,
       Folder!Journal, Folder!Intentions
  <2> QED
    BY <2>1, <2>2, <2>3, <2>4, <2>5, <2>6, <2>7
<1>12. ASSUME NEW h \in Hosts, Folder!Writes(h) PROVE Folder!IInv'
  <2>1. Folder!TypeOK'
    <3> USE <1>12 DEF Folder!Writes, Folder!Published, Folder!Synced, Folder!PublishFails,
          Folder!Goes, Folder!Returns, Folder!TypeOK
    <3>1. Folder!HostsOK'
      BY DEF Folder!HostsOK
    <3>2. Folder!HostsOK'
      BY DEF Folder!PointersAreExpected, Folder!Original, Folder!Converted, Folder!Journal,
         Folder!Intentions, Folder!HostsOK
    <3>3. v8[h] + 1 \in Folder!Files
      BY DEF Folder!PointersAreExpected, Folder!Original, Folder!Converted, Folder!Journal,
         Folder!Intentions, Folder!HostsOK
    <3>4. v2' \subseteq v2 \cup {v8[h] + 1} /\ v2 \subseteq Folder!Files
      BY DEF Folder!PointersAreExpected, Folder!Original, Folder!Converted, Folder!Journal,
         Folder!Intentions
    <3>5. v3' \subseteq v2'
      BY DEF Folder!PointersAreExpected, Folder!Original, Folder!Converted, Folder!Journal,
         Folder!Intentions
    <3>6. v4' \in v5' /\ v5' \subseteq Folder!Pointers
      BY DEF Folder!PointersAreExpected, Folder!Original, Folder!Converted, Folder!Journal,
         Folder!Intentions
    <3> QED
      BY <3>1, <3>2, <3>3, <3>4, <3>5, <3>6 DEF Folder!PointersAreExpected, Folder!Original,
         Folder!Converted, Folder!Journal, Folder!Intentions
  <2>2. Folder!LockIsHeld'
    BY <1>12 DEF Folder!Writes, Folder!Published, Folder!Synced, Folder!PublishFails,
       Folder!Goes, Folder!Returns, Folder!LockIsHeld, Folder!TypeOK, Folder!HostsOK,
       Folder!Original, Folder!Converted, Folder!Journal, Folder!Intentions
  <2>3. Folder!StagesLast'
    BY <1>12 DEF Folder!Writes, Folder!Published, Folder!Synced, Folder!PublishFails,
       Folder!Goes, Folder!Returns, Folder!StagesLast, Folder!TypeOK, Folder!HostsOK,
       Folder!OriginsDiffer, Folder!UpgradeIsWhole, Folder!LockIsHeld, Folder!Original,
       Folder!Converted, Folder!Journal, Folder!Intentions
  <2>4. Folder!PointersAreExpected'
    BY <1>12 DEF Folder!Writes, Folder!Published, Folder!Synced, Folder!PublishFails,
       Folder!Goes, Folder!Returns, Folder!PointersAreExpected, Folder!TypeOK,
       Folder!HostsOK, Folder!LockIsHeld, Folder!Original, Folder!Converted, Folder!Journal,
       Folder!Intentions
  <2>5. Folder!OriginsDiffer'
    BY <1>12 DEF Folder!Writes, Folder!Published, Folder!Synced, Folder!PublishFails,
       Folder!Goes, Folder!Returns, Folder!OriginsDiffer, Folder!TypeOK, Folder!HostsOK,
       Folder!PointersAreExpected, Folder!Original, Folder!Converted, Folder!Journal,
       Folder!Intentions
  <2>6. Folder!UpgradeIsWhole'
    BY <1>12 DEF Folder!Writes, Folder!Published, Folder!Synced, Folder!PublishFails,
       Folder!Goes, Folder!Returns, Folder!UpgradeIsWhole, Folder!TypeOK, Folder!HostsOK,
       Folder!StagesLast, Folder!PointersAreExpected, Folder!OriginsDiffer, Folder!Original,
       Folder!Converted, Folder!Journal, Folder!Intentions
  <2>7. Folder!UpgradeKeepsSaves'
    <3>1. v5' \subseteq v5 /\ v9' = v9
      BY <1>12 DEF Folder!Writes, Folder!Published, Folder!Synced, Folder!PublishFails,
         Folder!Goes, Folder!Returns, Folder!UpgradeKeepsSaves, Folder!TypeOK,
         Folder!HostsOK, Folder!PointersAreExpected, Folder!Original, Folder!Converted,
         Folder!Journal, Folder!Intentions
    <3> QED
      BY <3>1 DEF Folder!UpgradeKeepsSaves, Folder!TypeOK, Folder!HostsOK,
         Folder!PointersAreExpected, Folder!Original, Folder!Converted, Folder!Journal,
         Folder!Intentions
  <2> QED
    BY <2>1, <2>2, <2>3, <2>4, <2>5, <2>6, <2>7
<1>13. ASSUME NEW h \in Hosts, Folder!Points(h) PROVE Folder!IInv'
  <2>1. Folder!TypeOK'
    <3>1. Folder!HostsOK'
      <4> USE DEF Folder!HostsOK, Folder!TypeOK
      <4>1. v8[h] + 1 \in 1 .. MaxRevision /\ v8[h] = v4
        BY <1>13 DEF Folder!Points, Folder!Synced, Folder!Goes, Folder!Returns, Folder!Saw,
           Folder!PointersAreExpected, Folder!Converted
      <4>2. v7' \in [Hosts -> {"closed", "offered", "open", "original", "object", "journal",
                           "intentions", "readback", "saving", "writing", "pointing"}]
        BY <1>13 DEF Folder!Points, Folder!Synced, Folder!Goes, Folder!Returns, Folder!Saw
      <4>3. v8' = v8 \/ v8' = [v8 EXCEPT ![h] = v8[h] + 1]
        BY <1>13 DEF Folder!Points, Folder!Synced, Folder!Goes, Folder!Returns, Folder!Saw
      <4>4. v8' \in [Hosts -> Folder!Pointers]
        BY <4>1, <4>3
      <4>5. UNCHANGED v1 /\ v6' \in Hosts \cup {Folder!Nobody} /\ UNCHANGED v10
        BY <1>13 DEF Folder!Points, Folder!Synced, Folder!Goes, Folder!Returns, Folder!Saw
      <4>6. v9' \in 0 .. MaxRevision
        BY <1>13, <4>1 DEF Folder!Points
      <4> QED
        BY <4>1, <4>2, <4>3, <4>4, <4>5, <4>6, <1>13
    <3>2. v8[h] + 1 \in 1 .. MaxRevision /\ v8[h] = v4
      BY <1>13 DEF Folder!Points, Folder!Synced, Folder!Goes, Folder!Returns, Folder!Saw,
         Folder!TypeOK, Folder!PointersAreExpected, Folder!Original, Folder!Converted,
         Folder!Journal, Folder!Intentions, Folder!HostsOK
    <3>3. v2' = v2 /\ v3' \subseteq v2'
      BY <1>13 DEF Folder!Points, Folder!Synced, Folder!Goes, Folder!Returns, Folder!Saw,
         Folder!TypeOK, Folder!PointersAreExpected, Folder!Original, Folder!Converted,
         Folder!Journal, Folder!Intentions
    <3>4. v4' \in v5'
      BY <1>13 DEF Folder!Points, Folder!Synced, Folder!Goes, Folder!Returns, Folder!Saw,
         Folder!TypeOK, Folder!PointersAreExpected, Folder!Original, Folder!Converted,
         Folder!Journal, Folder!Intentions
    <3>5. \A x \in v5' : x \in v5 \/ x = v8[h] + 1
      BY <1>13 DEF Folder!Points, Folder!Synced, Folder!Goes, Folder!Returns, Folder!Saw,
         Folder!TypeOK, Folder!PointersAreExpected, Folder!Original, Folder!Converted,
         Folder!Journal, Folder!Intentions
    <3>6. v5 \subseteq Folder!Pointers /\ 1 .. MaxRevision \subseteq Folder!Pointers
      BY DEF Folder!TypeOK
    <3>7. v5' \subseteq Folder!Pointers
      BY Zenon, <3>2, <3>5, <3>6
    <3> QED
      BY <3>1, <3>2, <3>3, <3>4, <3>5, <3>6, <3>7, <1>13 DEF Folder!TypeOK,
         Folder!PointersAreExpected, Folder!Original, Folder!Converted, Folder!Journal,
         Folder!Intentions
  <2>2. Folder!LockIsHeld'
    BY <1>13 DEF Folder!Points, Folder!Synced, Folder!Goes, Folder!Returns, Folder!Saw,
       Folder!LockIsHeld, Folder!TypeOK, Folder!HostsOK, Folder!Original, Folder!Converted,
       Folder!Journal, Folder!Intentions
  <2>3. Folder!StagesLast'
    BY <1>13 DEF Folder!Points, Folder!Synced, Folder!Goes, Folder!Returns, Folder!Saw,
       Folder!StagesLast, Folder!TypeOK, Folder!HostsOK, Folder!OriginsDiffer,
       Folder!UpgradeIsWhole, Folder!LockIsHeld, Folder!Original, Folder!Converted,
       Folder!Journal, Folder!Intentions
  <2>4. Folder!PointersAreExpected'
    BY <1>13 DEF Folder!Points, Folder!Synced, Folder!Goes, Folder!Returns, Folder!Saw,
       Folder!PointersAreExpected, Folder!TypeOK, Folder!HostsOK, Folder!LockIsHeld,
       Folder!Original, Folder!Converted, Folder!Journal, Folder!Intentions
  <2>5. Folder!OriginsDiffer'
    BY <1>13 DEF Folder!Points, Folder!Synced, Folder!Goes, Folder!Returns, Folder!Saw,
       Folder!OriginsDiffer, Folder!TypeOK, Folder!HostsOK, Folder!PointersAreExpected,
       Folder!Original, Folder!Converted, Folder!Journal, Folder!Intentions
  <2>6. Folder!UpgradeIsWhole'
    BY <1>13 DEF Folder!Points, Folder!Synced, Folder!Goes, Folder!Returns, Folder!Saw,
       Folder!UpgradeIsWhole, Folder!TypeOK, Folder!HostsOK, Folder!StagesLast,
       Folder!PointersAreExpected, Folder!OriginsDiffer, Folder!Original, Folder!Converted,
       Folder!Journal, Folder!Intentions
  <2>7. Folder!UpgradeKeepsSaves'
    <3>1. v8[h] + 1 \in 1 .. MaxRevision /\ v8[h] = v4
      BY <1>13 DEF Folder!Points, Folder!Synced, Folder!Goes, Folder!Returns, Folder!Saw,
         Folder!UpgradeKeepsSaves, Folder!TypeOK, Folder!HostsOK,
         Folder!PointersAreExpected, Folder!Original, Folder!Converted, Folder!Journal,
         Folder!Intentions
    <3>2. \/ v5' = {v8[h] + 1} /\ v9' = v8[h] + 1
          \/ v5' \subseteq v5 \cup {v8[h] + 1} /\ v9' = v9
      BY <1>13 DEF Folder!Points, Folder!Synced, Folder!TypeOK
    <3>3. v9 > 0 => v4 \in v9 .. MaxRevision
      BY <1>13 DEF Folder!TypeOK, Folder!UpgradeKeepsSaves
    <3>4. v9 \in 0 .. MaxRevision /\ v4 \in 0 .. MaxRevision
      BY <1>13, <3>1 DEF Folder!PointersAreExpected, Folder!TypeOK, Folder!HostsOK,
         Folder!Converted
    <3>5. \A x \in v5 : v9 > 0 => x \in v9 .. MaxRevision
      BY DEF Folder!UpgradeKeepsSaves
    <3>6. \A x \in v5' : v9' > 0 => x \in v9' .. MaxRevision
      BY <3>1, <3>2, <3>3, <3>4, <3>5
    <3> QED
      BY <3>1, <3>2, <3>3, <3>4, <3>5, <3>6, <3>6 DEF Folder!UpgradeKeepsSaves,
         Folder!TypeOK, Folder!HostsOK, Folder!PointersAreExpected, Folder!Original,
         Folder!Converted, Folder!Journal, Folder!Intentions
  <2> QED
    BY <2>1, <2>2, <2>3, <2>4, <2>5, <2>6, <2>7
<1>14. ASSUME NEW h \in Hosts, Folder!Ends(h) PROVE Folder!IInv'
  <2>1. Folder!TypeOK'
    <3>1. Folder!HostsOK'
      BY <1>14 DEF Folder!Ends, Folder!Goes, Folder!Returns, Folder!HostsOK, Folder!TypeOK
    <3> QED
      BY <1>14, <3>1 DEF Folder!Ends, Folder!Goes, Folder!Returns, Folder!TypeOK,
         Folder!PointersAreExpected, Folder!Original, Folder!Converted, Folder!Journal,
         Folder!Intentions
  <2>2. Folder!LockIsHeld'
    BY <1>14 DEF Folder!Ends, Folder!Goes, Folder!Returns, Folder!LockIsHeld, Folder!TypeOK,
       Folder!HostsOK, Folder!Original, Folder!Converted, Folder!Journal, Folder!Intentions
  <2>3. Folder!StagesLast'
    BY <1>14 DEF Folder!Ends, Folder!Goes, Folder!Returns, Folder!StagesLast, Folder!TypeOK,
       Folder!HostsOK, Folder!OriginsDiffer, Folder!UpgradeIsWhole, Folder!LockIsHeld,
       Folder!Original, Folder!Converted, Folder!Journal, Folder!Intentions
  <2>4. Folder!PointersAreExpected'
    BY <1>14 DEF Folder!Ends, Folder!Goes, Folder!Returns, Folder!PointersAreExpected,
       Folder!TypeOK, Folder!HostsOK, Folder!LockIsHeld, Folder!Original, Folder!Converted,
       Folder!Journal, Folder!Intentions
  <2>5. Folder!OriginsDiffer'
    BY <1>14 DEF Folder!Ends, Folder!Goes, Folder!Returns, Folder!OriginsDiffer,
       Folder!TypeOK, Folder!HostsOK, Folder!PointersAreExpected, Folder!Original,
       Folder!Converted, Folder!Journal, Folder!Intentions
  <2>6. Folder!UpgradeIsWhole'
    BY <1>14 DEF Folder!Ends, Folder!Goes, Folder!Returns, Folder!UpgradeIsWhole,
       Folder!TypeOK, Folder!HostsOK, Folder!StagesLast, Folder!PointersAreExpected,
       Folder!OriginsDiffer, Folder!Original, Folder!Converted, Folder!Journal,
       Folder!Intentions
  <2>7. Folder!UpgradeKeepsSaves'
    BY <1>14 DEF Folder!Ends, Folder!Goes, Folder!Returns, Folder!UpgradeKeepsSaves,
       Folder!TypeOK, Folder!HostsOK, Folder!PointersAreExpected, Folder!Original,
       Folder!Converted, Folder!Journal, Folder!Intentions
  <2> QED
    BY <2>1, <2>2, <2>3, <2>4, <2>5, <2>6, <2>7
<1> QED
BY <1>1, <1>2, <1>3, <1>4, <1>5, <1>6, <1>7, <1>8, <1>9, <1>10, <1>11, <1>12, <1>13, <1>14
   DEF Folder!Next

-----------------------------------------------------------------------------
(* The recent tools and the checkpoint shelves. *)

\* The effect of a new entry on the index, of another write of the same index, and of what
\* a host remembers on both.
Listed(h) ==
    LET entry == [id |-> v11 + 1, path |-> v8[h]] IN
    /\ v11 + 1 \in 1 .. MaxInstance /\ v11' = v11 + 1 /\ v8[h] \in DOMAIN PlaceOf
    /\ v1[v9[h]] = PlaceOf[v8[h]] /\ \A x \in v3 : PlaceOf[x.path] # PlaceOf[v8[h]]
    /\ v3' \in {v3, v3 \cup {entry}}
    /\ \/ v3' = v3 \cup {entry} /\ v4' = {v3'} /\ v12' = v12 \cup {v11 + 1}
       \/ v4' = v4 \cup {v3'} /\ v12' = v12

ListedAgain(id) ==
    /\ v3' = v3 /\ v11' = v11 /\ \E x \in v3 : x.id = id
    /\ \/ v4' = {v3'} /\ v12' = v12 \cup {id}
       \/ v4' = v4 \cup {v3'} /\ v12' = v12

Remembered(h, id) ==
    /\ \/ id = v11 + 1 /\ Listed(h)
       \/ ListedAgain(id) /\ \E x \in v3 : x.id = id /\ PlaceOf[x.path] = v1[v9[h]]
    /\ \/ id \in v12' /\ v7' = [v7 EXCEPT ![h] = "capturing"] /\ v9' = v9
          /\ v10' = [v10 EXCEPT ![h] = id]
       \/ v7' = [v7 EXCEPT ![h] = "open"] /\ v9' = v9 /\ v10' = [v10 EXCEPT ![h] = 0]

LEMMA ListingKeeps ==
    ASSUME Instances!IInv, NEW h \in Hosts, Listed(h)
    PROVE  Instances!IndexOK' /\ Instances!IndexesAgree' /\ Instances!RegistrationsAreKept'
<1> USE BoundsAreNumbers DEF Instances!IInv, Instances!Instances
<1> DEFINE entry == [id |-> v11 + 1, path |-> v8[h]]
<1>1. entry \in Instances!Entries /\ entry.id = v11 + 1 /\ entry.path = v8[h]
  BY DEF Listed, Instances!Entries
<1>2. /\ v11 \in 0 .. MaxInstance /\ v12 \subseteq 1 .. MaxInstance
      /\ \A known \in v4 \cup {v3} : known \subseteq Instances!Entries
  BY DEF Instances!TypeOK, Instances!IndexOK
<1>3. /\ v3 \in v4
      /\ \A known \in v4 : \A one \in known :
           /\ one.id <= v11
           /\ \A two \in known : one # two => PlaceOf[one.path] # PlaceOf[two.path]
           /\ \A other \in v4 : \A two \in other : one.id = two.id => one = two
  BY DEF Instances!IndexesAgree
<1> HIDE DEF entry
<1>4. v3' \in v4' /\ \A known \in v4' : known \in v4 \cup {v3 \cup {entry}}
  BY <1>3 DEF Listed, entry
<1>5. \A known \in v4' : \A one \in known : one = entry \/ \E k \in v4 : one \in k
  BY <1>3, <1>4
<1>6. \A one \in v3 : PlaceOf[one.path] # PlaceOf[entry.path]
  BY <1>1 DEF Listed
<1>7. Instances!IndexOK'
  <2>1. \A known \in v4' \cup {v3'} : known \subseteq Instances!Entries
    <3>1. v3 \cup {entry} \subseteq Instances!Entries
      BY <1>1, <1>2
    <3> QED
      BY <1>2, <1>4, <3>1
  <2>2. v11' \in 0 .. MaxInstance
    BY <1>2 DEF Listed
  <2>3. v12' \subseteq 1 .. MaxInstance
    BY <1>2 DEF Listed
  <2> QED
    BY <2>1, <2>2, <2>3 DEF Instances!IndexOK, Instances!Entries
<1>8. Instances!IndexesAgree'
  <2> SUFFICES ASSUME NEW known \in v4', NEW one \in known
               PROVE  /\ one.id <= v11'
                      /\ \A two \in known : one # two => PlaceOf[one.path] # PlaceOf[two.path]
                      /\ \A other \in v4' : \A two \in other : one.id = two.id => one = two
    BY <1>4 DEF Instances!IndexesAgree
  <2>1. \A k \in v4 : \A x \in k : x.id \in Nat /\ x.id <= v11
    BY <1>2, <1>3 DEF Instances!Entries
  <2>2. one.id <= v11'
    BY <2>1, <1>1, <1>2, <1>5 DEF Listed
  <2>3. \A two \in known : one # two => PlaceOf[one.path] # PlaceOf[two.path]
    BY <1>3, <1>4, <1>6
  <2>4. ASSUME NEW other \in v4', NEW two \in other, one.id = two.id PROVE one = two
    <3>1. one # entry => one.id # entry.id
      BY <2>1, <1>1, <1>2, <1>5
    <3>2. two # entry => two.id # entry.id
      BY <2>1, <1>1, <1>2, <1>5
    <3>3. one # entry /\ two # entry => one = two
      BY <2>4, <1>3, <1>5
    <3> QED
      BY <2>4, <3>1, <3>2, <3>3
  <2> QED
    BY <2>2, <2>3, <2>4
<1>9. Instances!RegistrationsAreKept'
  <2>1. \A known \in v4 : v12 \subseteq {x.id : x \in known}
    BY DEF Instances!RegistrationsAreKept
  <2>2. v12 \cup {v11 + 1} \subseteq {x.id : x \in v3 \cup {entry}}
    BY <2>1, <1>1, <1>3
  <2>3. v12 \subseteq {x.id : x \in v3'}
    BY <2>1, <2>2, <1>3 DEF Listed, entry
  <2> QED
    BY <2>1, <2>2, <2>3 DEF Listed, entry, Instances!RegistrationsAreKept
<1> QED
  BY <1>7, <1>8, <1>9

LEMMA ListingAgainKeeps ==
    ASSUME Instances!IInv, NEW id \in 1 .. MaxInstance, ListedAgain(id)
    PROVE  Instances!IndexOK' /\ Instances!IndexesAgree' /\ Instances!RegistrationsAreKept'
<1> USE BoundsAreNumbers DEF Instances!IInv, Instances!Instances, ListedAgain
<1>1. v3 \in v4 /\ v3' \in v4' /\ \A known \in v4' : known \in v4
  BY DEF Instances!IndexesAgree
<1>2. Instances!IndexOK'
  BY <1>1 DEF Instances!TypeOK, Instances!IndexOK
<1>3. Instances!IndexesAgree'
  BY <1>1 DEF Instances!IndexesAgree
<1>4. Instances!RegistrationsAreKept'
  BY <1>1 DEF Instances!RegistrationsAreKept
<1> QED
  BY <1>2, <1>3, <1>4

LEMMA OwnersAreListed ==
    ASSUME Instances!IInv
    PROVE  \A i \in Instances!Instances, f \in Directories : Instances!Owns(i, f) =>
             i \in v12 /\ i <= v11 /\ \E x \in v3 : x.id = i
BY DEF Instances!IInv, Instances!ShelvesAreOwned, Instances!RegistrationsAreKept,
   Instances!IndexesAgree

LEMMA RemembersLists ==
    ASSUME Instances!IInv, NEW h \in Hosts, Instances!Remembers(h)
    PROVE  \/ /\ UNCHANGED <<v3, v4, v11, v12>> /\ v7' = [v7 EXCEPT ![h] = "idle"]
              /\ v9' = [v9 EXCEPT ![h] = "nowhere"] /\ v10' = [v10 EXCEPT ![h] = 0]
           \/ \E id \in Instances!Instances : Remembered(h, id)
<1> USE DEF Instances!IInv, Instances!Instances
<1>1. /\ v8 \in [Hosts -> DOMAIN PlaceOf \cup {"nowhere"}]
      /\ v9 \in [Hosts -> Directories \cup {"nowhere"}] /\ v11 \in 0 .. MaxInstance
      /\ v8[h] \in DOMAIN PlaceOf
  BY DEF Instances!TypeOK, Instances!HostsOK, Instances!IndexOK, Instances!HostsHaveTools,
     Instances!Remembers, Instances!Nowhere
<1>2. CASE Instances!Rests(h, "idle") /\ UNCHANGED <<v3, v4, v11, v12>>
  BY <1>2 DEF Instances!Rests, Instances!Goes, Instances!Nowhere
<1>3. ASSUME NEW id \in Instances!Instances, v1[v9[h]] = PlaceOf[v8[h]],
             \/ Instances!Matching(h) = {} /\ id = v11 + 1 /\ v11' = id
                /\ Instances!Writes(h, Instances!Appended(h, id), id)
             \/ /\ id \in {e.id : e \in Instances!Matching(h)} /\ UNCHANGED v11
                /\ Instances!Writes(h, v3, id),
             \/ /\ id \in v12' /\ Instances!Goes(h, "capturing")
                /\ v10' = [v10 EXCEPT ![h] = id] /\ UNCHANGED <<v8, v9>>
             \/ id \notin v12' /\ Instances!Rests(h, "open")
      PROVE  Remembered(h, id)
  <2>1. \/ id \in v12' /\ v7' = [v7 EXCEPT ![h] = "capturing"] /\ v9' = v9
           /\ v10' = [v10 EXCEPT ![h] = id]
        \/ v7' = [v7 EXCEPT ![h] = "open"] /\ v9' = v9 /\ v10' = [v10 EXCEPT ![h] = 0]
    BY <1>1, <1>3 DEF Instances!Rests, Instances!Goes
  <2>2. CASE /\ Instances!Matching(h) = {} /\ id = v11 + 1 /\ v11' = id
             /\ Instances!Writes(h, Instances!Appended(h, id), id)
    <3>1. \A x \in v3 : PlaceOf[x.path] # PlaceOf[v8[h]]
      <4> SUFFICES ASSUME NEW x \in v3, PlaceOf[x.path] = PlaceOf[v8[h]] PROVE FALSE
        OBVIOUS
      <4>1. x \in Instances!Matching(h)
        BY <1>1, <1>3, NowhereIsNoPlace DEF Instances!Matching, Instances!Names,
           Instances!Nowhere
      <4> QED
        BY <2>2, <4>1
    <3>2. /\ v3' \in {v3, v3 \cup {[id |-> v11 + 1, path |-> v8[h]]}}
          /\ \/ v3' = v3 \cup {[id |-> v11 + 1, path |-> v8[h]]} /\ v4' = {v3'}
                /\ v12' = v12 \cup {v11 + 1}
             \/ v4' = v4 \cup {v3'} /\ v12' = v12
      BY <2>2 DEF Instances!Writes, Instances!Appended
    <3>3. Listed(h)
      BY <1>1, <1>3, <2>2, <3>1, <3>2 DEF Listed
    <3> QED
      BY <2>1, <2>2, <3>3 DEF Remembered
  <2>3. CASE /\ id \in {e.id : e \in Instances!Matching(h)} /\ UNCHANGED v11
             /\ Instances!Writes(h, v3, id)
    <3>1. PICK e \in Instances!Matching(h) : e.id = id
      BY <2>3
    <3>2. e \in v3 /\ PlaceOf[e.path] = v1[v9[h]]
      BY <1>3 DEF Instances!Matching, Instances!Names
    <3>3. ListedAgain(id)
      BY <2>3, <3>1, <3>2 DEF ListedAgain, Instances!Writes
    <3> QED
      BY <2>1, <3>1, <3>2, <3>3 DEF Remembered
  <2> QED
    BY <1>3, <2>2, <2>3
<1> QED
  BY <1>2, <1>3 DEF Instances!Remembers, Instances!Pinned

LEMMA RegistersLists ==
    ASSUME Instances!IInv, NEW h \in Hosts, Instances!Registers(h)
    PROVE  UNCHANGED <<v3, v4, v11, v12>> \/ Listed(h)
<1> USE BoundsAreNumbers DEF Instances!IInv, Instances!Instances
<1>1. v11 \in 0 .. MaxInstance /\ v8[h] \in DOMAIN PlaceOf
  BY DEF Instances!TypeOK, Instances!IndexOK, Instances!HostsHaveTools, Instances!Registers
<1>2. CASE /\ Instances!Verified(h) /\ v11 < MaxInstance /\ v11' = v11 + 1
           /\ Instances!Writes(h, Instances!Appended(h, v11'), v11')
  <2>1. v1[v9[h]] = PlaceOf[v8[h]] /\ \A x \in v3 : PlaceOf[x.path] # PlaceOf[v8[h]]
    BY <1>1, <1>2, NowhereIsNoPlace DEF Instances!Verified, Instances!Pinned,
       Instances!Names, Instances!Nowhere
  <2>2. /\ v3' \in {v3, v3 \cup {[id |-> v11 + 1, path |-> v8[h]]}}
        /\ \/ v3' = v3 \cup {[id |-> v11 + 1, path |-> v8[h]]} /\ v4' = {v3'}
              /\ v12' = v12 \cup {v11 + 1}
           \/ v4' = v4 \cup {v3'} /\ v12' = v12
    BY <1>2 DEF Instances!Writes, Instances!Appended
  <2> QED
    BY <1>1, <1>2, <2>1, <2>2 DEF Listed
<1> QED
  BY <1>2 DEF Instances!Registers

LEMMA ActivatesVerified ==
    ASSUME Instances!IInv, NEW h \in Hosts, Instances!Activates(h)
    PROVE  \/ Instances!Rests(h, "idle") /\ UNCHANGED v2
           \/ /\ Instances!Verified(h) /\ Instances!Goes(h, "registering")
              /\ UNCHANGED <<v6, v8, v9, v10>>
              /\ \E r \in 1 .. MaxSaved : v2' = [v2 EXCEPT ![v9[h]] = r]
<1>1. \A i \in Instances!Instances : \A c \in Instances!Newest(v5[i]) :
          c.revision \in 1 .. MaxSaved
  BY DEF Instances!IInv, Instances!TypeOK, Instances!FoldersOK, Instances!Checkpoints,
     Instances!Newest
<1> QED
  BY <1>1 DEF Instances!Activates

LEMMA InstancesBegin == Instances!Init => Instances!IInv
<1> SUFFICES ASSUME Instances!Init PROVE Instances!IInv
  OBVIOUS
<1> USE BoundsAreNumbers, NobodyIsNoHost, NowhereIsNoPlace DEF Instances!Init,
   Instances!Instances, Instances!Nobody, Instances!Nowhere,
      Instances!disk, Instances!hosts, Instances!bounds
<1>1. Instances!TypeOK
  <2>1. Instances!FoldersOK
    BY DEF Instances!FoldersOK, Instances!TypeOK
  <2>2. Instances!IndexOK
    BY DEF Instances!IndexOK, Instances!TypeOK
  <2>3. Instances!HostsOK
    BY DEF Instances!HostsOK, Instances!TypeOK
  <2> QED
    BY <2>1, <2>2, <2>3 DEF Instances!TypeOK
<1>2. Instances!PlacesAreOwn
  BY DEF Instances!PlacesAreOwn, Instances!HostsHaveTools, Instances!TypeOK,
     Instances!FoldersOK, Instances!IndexOK, Instances!HostsOK
<1>3. Instances!HostsHaveTools
  BY DEF Instances!HostsHaveTools, Instances!TypeOK, Instances!FoldersOK, Instances!IndexOK,
     Instances!HostsOK
<1>4. Instances!IndexesAgree
  BY DEF Instances!IndexesAgree, Instances!Entries, Instances!TypeOK, Instances!FoldersOK,
     Instances!IndexOK, Instances!HostsOK
<1>5. Instances!RegistrationsAreKept
  BY DEF Instances!RegistrationsAreKept, Instances!IndexesAgree, Instances!HostsHaveTools,
     Instances!TypeOK, Instances!FoldersOK, Instances!IndexOK, Instances!HostsOK
<1>6. Instances!ShelvesAreOwned
  BY DEF Instances!ShelvesAreOwned, Instances!Owns, Instances!PlacesAreOwn,
     Instances!HostsHaveTools, Instances!IndexesAgree, Instances!RegistrationsAreKept,
     Instances!TypeOK, Instances!FoldersOK, Instances!IndexOK, Instances!HostsOK
<1> QED
  BY <1>1, <1>2, <1>3, <1>4, <1>5, <1>6 DEF Instances!IInv

LEMMA InstancesStutter == Instances!IInv /\ UNCHANGED Instances!toolInstances => Instances!IInv'
BY DEF Instances!toolInstances, Instances!Instances, Instances!Nobody,
   Instances!Nowhere, Instances!disk, Instances!hosts, Instances!bounds,
   Instances!FoldersOK, Instances!TypeOK, Instances!IndexOK,
   Instances!HostsOK, Instances!PlacesAreOwn, Instances!HostsHaveTools,
   Instances!IndexesAgree, Instances!Entries,
   Instances!RegistrationsAreKept, Instances!ShelvesAreOwned,
   Instances!Owns, Instances!Checkpoints, Instances!IInv

LEMMA InstancesStep == Instances!IInv /\ Instances!Next => Instances!IInv'
<1> SUFFICES ASSUME Instances!IInv, Instances!Next PROVE Instances!IInv'
  OBVIOUS
<1> USE BoundsAreNumbers, NobodyIsNoHost, NowhereIsNoPlace DEF Instances!Instances,
   Instances!Nobody, Instances!Nowhere, Instances!disk,
      Instances!hosts, Instances!bounds, Instances!IInv
<1>1. CASE Instances!PowerLoss
  <2>1. Instances!TypeOK'
    <3> USE <1>1 DEF Instances!PowerLoss, Instances!TypeOK
    <3>1. Instances!FoldersOK'
      BY DEF Instances!FoldersOK
    <3>2. Instances!IndexOK'
      BY DEF Instances!IndexOK
    <3>3. Instances!HostsOK'
      BY DEF Instances!HostsOK
    <3> QED
      BY <3>1, <3>2, <3>3
  <2>2. Instances!PlacesAreOwn'
    BY <1>1 DEF Instances!PowerLoss, Instances!PlacesAreOwn, Instances!HostsHaveTools,
       Instances!TypeOK, Instances!FoldersOK, Instances!IndexOK, Instances!HostsOK
  <2>3. Instances!HostsHaveTools'
    BY <1>1 DEF Instances!PowerLoss, Instances!HostsHaveTools, Instances!TypeOK,
       Instances!FoldersOK, Instances!IndexOK, Instances!HostsOK
  <2>4. Instances!IndexesAgree'
    BY <1>1 DEF Instances!PowerLoss, Instances!IndexesAgree, Instances!Entries,
       Instances!TypeOK, Instances!FoldersOK, Instances!IndexOK, Instances!HostsOK
  <2>5. Instances!RegistrationsAreKept'
    BY <1>1 DEF Instances!PowerLoss, Instances!RegistrationsAreKept, Instances!IndexesAgree,
       Instances!HostsHaveTools, Instances!TypeOK, Instances!FoldersOK, Instances!IndexOK,
       Instances!HostsOK
  <2>6. Instances!ShelvesAreOwned'
    <3>1. \A i \in Instances!Instances, x \in Directories :
             Instances!Owns(i, x)' => Instances!Owns(i, x)
      BY <1>1 DEF Instances!PowerLoss, Instances!Owns
    <3>2. v3' \in v4 /\ v12 \subseteq {entry.id : entry \in v3} /\ UNCHANGED <<v1, v2, v12>>
      BY <1>1 DEF Instances!PowerLoss, Instances!IndexesAgree,
         Instances!RegistrationsAreKept
    <3>3. \A entry \in v3' : entry.id \in v12 => entry \in v3
      BY <3>2 DEF Instances!IndexesAgree
    <3> QED
      BY <3>1, <3>2, <3>3 DEF Instances!ShelvesAreOwned
  <2> QED
    BY <2>1, <2>2, <2>3, <2>4, <2>5, <2>6
<1>2. ASSUME NEW f \in Directories, NEW place \in {PlaceOf[p] : p \in DOMAIN PlaceOf}, Instances!Move(f, place) PROVE Instances!IInv'
  <2> USE <1>2 DEF Instances!Move, Instances!TypeOK
  <2>1. Instances!TypeOK'
    <3>1. Instances!FoldersOK'
      BY DEF Instances!FoldersOK
    <3>2. Instances!IndexOK'
      BY DEF Instances!IndexOK
    <3>3. Instances!HostsOK'
      BY DEF Instances!HostsOK
    <3> QED
      BY <3>1, <3>2, <3>3
  <2>2. Instances!PlacesAreOwn'
    BY DEF Instances!PlacesAreOwn, Instances!HostsHaveTools, Instances!FoldersOK,
       Instances!IndexOK, Instances!HostsOK
  <2>3. Instances!HostsHaveTools'
    BY DEF Instances!HostsHaveTools, Instances!FoldersOK, Instances!IndexOK,
       Instances!HostsOK
  <2>4. Instances!IndexesAgree'
    BY DEF Instances!IndexesAgree, Instances!Entries, Instances!FoldersOK,
       Instances!IndexOK, Instances!HostsOK
  <2>5. Instances!RegistrationsAreKept'
    BY DEF Instances!RegistrationsAreKept, Instances!IndexesAgree, Instances!HostsHaveTools,
       Instances!FoldersOK, Instances!IndexOK, Instances!HostsOK
  <2>6. Instances!ShelvesAreOwned'
    BY DEF Instances!ShelvesAreOwned, Instances!Owns, Instances!PlacesAreOwn,
       Instances!HostsHaveTools, Instances!IndexesAgree, Instances!RegistrationsAreKept,
       Instances!FoldersOK, Instances!IndexOK, Instances!HostsOK
  <2> QED
    BY <2>1, <2>2, <2>3, <2>4, <2>5, <2>6
<1>3. ASSUME NEW h \in Hosts, NEW p \in DOMAIN PlaceOf, NEW f \in Directories, Instances!Create(h, p, f) PROVE Instances!IInv'
  <2>1. Instances!TypeOK'
    <3> USE <1>3 DEF Instances!Create, Instances!NewToolPath, Instances!Goes,
          Instances!TypeOK
    <3>1. Instances!FoldersOK'
      BY DEF Instances!FoldersOK
    <3>2. Instances!IndexOK'
      BY DEF Instances!IndexOK
    <3>3. Instances!HostsOK'
      BY DEF Instances!HostsOK
    <3> QED
      BY <3>1, <3>2, <3>3
  <2>2. Instances!PlacesAreOwn'
    BY <1>3 DEF Instances!Create, Instances!NewToolPath, Instances!Goes,
       Instances!PlacesAreOwn, Instances!HostsHaveTools, Instances!TypeOK,
       Instances!FoldersOK, Instances!IndexOK, Instances!HostsOK
  <2>3. Instances!HostsHaveTools'
    BY <1>3 DEF Instances!Create, Instances!NewToolPath, Instances!Goes,
       Instances!HostsHaveTools, Instances!TypeOK, Instances!FoldersOK, Instances!IndexOK,
       Instances!HostsOK
  <2>4. Instances!IndexesAgree'
    BY <1>3 DEF Instances!Create, Instances!NewToolPath, Instances!Goes,
       Instances!IndexesAgree, Instances!Entries, Instances!TypeOK, Instances!FoldersOK,
       Instances!IndexOK, Instances!HostsOK
  <2>5. Instances!RegistrationsAreKept'
    BY <1>3 DEF Instances!Create, Instances!NewToolPath, Instances!Goes,
       Instances!RegistrationsAreKept, Instances!IndexesAgree, Instances!HostsHaveTools,
       Instances!TypeOK, Instances!FoldersOK, Instances!IndexOK, Instances!HostsOK
  <2>6. Instances!ShelvesAreOwned'
    <3>1. \A i \in Instances!Instances, x \in Directories :
             Instances!Owns(i, x)' => Instances!Owns(i, x)
      BY <1>3 DEF Instances!Create, Instances!NewToolPath, Instances!Goes, Instances!Owns,
         Instances!TypeOK, Instances!HostsOK
    <3>2. \A entry \in v3, g \in Directories :
             v1'[g] = PlaceOf[entry.path] /\ v2'[g] > 0 =>
                 v1[g] = PlaceOf[entry.path] /\ v2[g] > 0
      BY <1>3 DEF Instances!Create, Instances!NewToolPath, Instances!Goes, Instances!TypeOK,
         Instances!FoldersOK
    <3>3. UNCHANGED <<v3, v12>>
      BY <1>3 DEF Instances!Create, Instances!NewToolPath, Instances!Goes
    <3>4. ASSUME NEW i \in Instances!Instances, NEW x \in Directories, Instances!Owns(i, x)'
           PROVE  /\ i \in v12'
                  /\ \A g \in Directories : Instances!Owns(i, g)' => x = g
                  /\ \A entry \in v3', g \in Directories :
                       entry.id = i /\ v1'[g] = PlaceOf[entry.path] /\ v2'[g] > 0 => g = x
      <4>1. Instances!Owns(i, x)
        BY <3>1, <3>4
      <4>2. i \in v12' /\ \A g \in Directories : Instances!Owns(i, g)' => x = g
        BY <3>1, <3>3, <4>1 DEF Instances!ShelvesAreOwned
      <4>3. \A entry \in v3', g \in Directories :
                  entry.id = i /\ v1'[g] = PlaceOf[entry.path] /\ v2'[g] > 0 => g = x
        BY <3>2, <3>3, <4>1 DEF Instances!ShelvesAreOwned
      <4> QED
        BY <4>2, <4>3
    <3> QED
      BY <3>4 DEF Instances!ShelvesAreOwned
  <2> QED
    BY <2>1, <2>2, <2>3, <2>4, <2>5, <2>6
<1>4. ASSUME NEW h \in Hosts, NEW p \in DOMAIN PlaceOf, NEW f \in Directories, Instances!Select(h, p, f) PROVE Instances!IInv'
  <2>1. Instances!TypeOK'
    <3> USE <1>4 DEF Instances!Select, Instances!Goes, Instances!TypeOK
    <3>1. Instances!FoldersOK'
      BY DEF Instances!FoldersOK
    <3>2. Instances!IndexOK'
      BY DEF Instances!IndexOK
    <3>3. Instances!HostsOK'
      BY DEF Instances!HostsOK
    <3> QED
      BY <3>1, <3>2, <3>3
  <2>2. Instances!PlacesAreOwn'
    BY <1>4 DEF Instances!Select, Instances!Goes, Instances!PlacesAreOwn,
       Instances!HostsHaveTools, Instances!TypeOK, Instances!FoldersOK, Instances!IndexOK,
       Instances!HostsOK
  <2>3. Instances!HostsHaveTools'
    BY <1>4 DEF Instances!Select, Instances!Goes, Instances!HostsHaveTools,
       Instances!TypeOK, Instances!FoldersOK, Instances!IndexOK, Instances!HostsOK
  <2>4. Instances!IndexesAgree'
    BY <1>4 DEF Instances!Select, Instances!Goes, Instances!IndexesAgree, Instances!Entries,
       Instances!TypeOK, Instances!FoldersOK, Instances!IndexOK, Instances!HostsOK
  <2>5. Instances!RegistrationsAreKept'
    BY <1>4 DEF Instances!Select, Instances!Goes, Instances!RegistrationsAreKept,
       Instances!IndexesAgree, Instances!HostsHaveTools, Instances!TypeOK,
       Instances!FoldersOK, Instances!IndexOK, Instances!HostsOK
  <2>6. Instances!ShelvesAreOwned'
    <3>1. \A i \in Instances!Instances, x \in Directories :
             Instances!Owns(i, x)' => Instances!Owns(i, x)
      BY <1>4 DEF Instances!Select, Instances!Goes, Instances!Owns, Instances!TypeOK,
         Instances!HostsOK
    <3>2. \A entry \in v3, g \in Directories :
             v1'[g] = PlaceOf[entry.path] /\ v2'[g] > 0 =>
                 v1[g] = PlaceOf[entry.path] /\ v2[g] > 0
      BY <1>4 DEF Instances!Select, Instances!Goes, Instances!TypeOK, Instances!FoldersOK
    <3>3. UNCHANGED <<v3, v12>>
      BY <1>4 DEF Instances!Select, Instances!Goes
    <3>4. ASSUME NEW i \in Instances!Instances, NEW x \in Directories, Instances!Owns(i, x)'
           PROVE  /\ i \in v12'
                  /\ \A g \in Directories : Instances!Owns(i, g)' => x = g
                  /\ \A entry \in v3', g \in Directories :
                       entry.id = i /\ v1'[g] = PlaceOf[entry.path] /\ v2'[g] > 0 => g = x
      <4>1. Instances!Owns(i, x)
        BY <3>1, <3>4
      <4>2. i \in v12' /\ \A g \in Directories : Instances!Owns(i, g)' => x = g
        BY <3>1, <3>3, <4>1 DEF Instances!ShelvesAreOwned
      <4>3. \A entry \in v3', g \in Directories :
                  entry.id = i /\ v1'[g] = PlaceOf[entry.path] /\ v2'[g] > 0 => g = x
        BY <3>2, <3>3, <4>1 DEF Instances!ShelvesAreOwned
      <4> QED
        BY <4>2, <4>3
    <3> QED
      BY <3>4 DEF Instances!ShelvesAreOwned
  <2> QED
    BY <2>1, <2>2, <2>3, <2>4, <2>5, <2>6
<1>5. ASSUME NEW h \in Hosts, NEW p \in DOMAIN PlaceOf, Instances!RecoverBegins(h, p) PROVE Instances!IInv'
  <2> USE <1>5 DEF Instances!RecoverBegins, Instances!Goes, Instances!TypeOK
  <2>1. Instances!TypeOK'
    <3>1. Instances!FoldersOK'
      BY DEF Instances!FoldersOK
    <3>2. Instances!IndexOK'
      BY DEF Instances!IndexOK
    <3>3. Instances!HostsOK'
      BY DEF Instances!HostsOK
    <3> QED
      BY <3>1, <3>2, <3>3
  <2>2. Instances!PlacesAreOwn'
    BY DEF Instances!PlacesAreOwn, Instances!HostsHaveTools, Instances!FoldersOK,
       Instances!IndexOK, Instances!HostsOK
  <2>3. Instances!HostsHaveTools'
    BY DEF Instances!HostsHaveTools, Instances!FoldersOK, Instances!IndexOK,
       Instances!HostsOK
  <2>4. Instances!IndexesAgree'
    BY DEF Instances!IndexesAgree, Instances!Entries, Instances!FoldersOK,
       Instances!IndexOK, Instances!HostsOK
  <2>5. Instances!RegistrationsAreKept'
    BY DEF Instances!RegistrationsAreKept, Instances!IndexesAgree, Instances!HostsHaveTools,
       Instances!FoldersOK, Instances!IndexOK, Instances!HostsOK
  <2>6. Instances!ShelvesAreOwned'
    BY DEF Instances!ShelvesAreOwned, Instances!Owns, Instances!PlacesAreOwn,
       Instances!HostsHaveTools, Instances!IndexesAgree, Instances!RegistrationsAreKept,
       Instances!FoldersOK, Instances!IndexOK, Instances!HostsOK
  <2> QED
    BY <2>1, <2>2, <2>3, <2>4, <2>5, <2>6
<1>6. ASSUME NEW h \in Hosts, NEW f \in Directories, Instances!Makes(h, f) PROVE Instances!IInv'
  <2> USE <1>6 DEF Instances!Makes, Instances!Goes, Instances!TypeOK
  <2>1. Instances!TypeOK'
    <3>1. Instances!FoldersOK'
      BY DEF Instances!FoldersOK, Instances!HostsHaveTools, Instances!HostsOK,
         Instances!Checkpoints
    <3>2. Instances!IndexOK'
      BY DEF Instances!IndexOK
    <3>3. Instances!HostsOK'
      BY DEF Instances!HostsOK
    <3> QED
      BY <3>1, <3>2, <3>3
  <2>2. Instances!PlacesAreOwn'
    BY DEF Instances!PlacesAreOwn, Instances!HostsHaveTools, Instances!FoldersOK,
       Instances!IndexOK, Instances!HostsOK
  <2>3. Instances!HostsHaveTools'
    BY DEF Instances!HostsHaveTools, Instances!FoldersOK, Instances!IndexOK,
       Instances!HostsOK
  <2>4. Instances!IndexesAgree'
    BY DEF Instances!IndexesAgree, Instances!Entries, Instances!FoldersOK,
       Instances!IndexOK, Instances!HostsOK
  <2>5. Instances!RegistrationsAreKept'
    BY DEF Instances!RegistrationsAreKept, Instances!IndexesAgree, Instances!HostsHaveTools,
       Instances!FoldersOK, Instances!IndexOK, Instances!HostsOK
  <2>6. Instances!ShelvesAreOwned'
    BY DEF Instances!ShelvesAreOwned, Instances!Owns, Instances!PlacesAreOwn,
       Instances!HostsHaveTools, Instances!IndexesAgree, Instances!RegistrationsAreKept,
       Instances!FoldersOK, Instances!IndexOK, Instances!HostsOK
  <2> QED
    BY <2>1, <2>2, <2>3, <2>4, <2>5, <2>6
<1>7. ASSUME NEW h \in Hosts, Instances!Save(h) PROVE Instances!IInv'
  <2>1. Instances!TypeOK'
    <3>1. Instances!FoldersOK'
      <4>1. v9[h] \in Directories /\ v2[v9[h]] + 1 \in 0 .. MaxSaved
        BY <1>7 DEF Instances!Save, Instances!HostsHaveTools, Instances!TypeOK,
           Instances!FoldersOK
      <4>2. v2' = [v2 EXCEPT ![v9[h]] = v2[v9[h]] + 1] /\ UNCHANGED <<v1, v5>>
        BY <1>7 DEF Instances!Save
      <4>3. v2' \in [Directories -> 0 .. MaxSaved]
        BY <4>1, <4>2 DEF Instances!TypeOK, Instances!FoldersOK
      <4> QED
        BY <4>2, <4>3 DEF Instances!TypeOK, Instances!FoldersOK
    <3>2. Instances!IndexOK'
      BY <1>7 DEF Instances!Save, Instances!Pinned, Instances!IndexOK, Instances!TypeOK
    <3>3. Instances!HostsOK'
      BY <1>7 DEF Instances!Save, Instances!Pinned, Instances!HostsOK, Instances!TypeOK
    <3> QED
      BY <1>7, <3>1, <3>2, <3>3 DEF Instances!Save, Instances!Pinned, Instances!TypeOK
  <2>2. Instances!PlacesAreOwn'
    BY <1>7 DEF Instances!Save, Instances!Pinned, Instances!PlacesAreOwn,
       Instances!HostsHaveTools, Instances!TypeOK, Instances!FoldersOK, Instances!IndexOK,
       Instances!HostsOK
  <2>3. Instances!HostsHaveTools'
    BY <1>7 DEF Instances!Save, Instances!Pinned, Instances!HostsHaveTools,
       Instances!TypeOK, Instances!FoldersOK, Instances!IndexOK, Instances!HostsOK
  <2>4. Instances!IndexesAgree'
    BY <1>7 DEF Instances!Save, Instances!Pinned, Instances!IndexesAgree, Instances!Entries,
       Instances!TypeOK, Instances!FoldersOK, Instances!IndexOK, Instances!HostsOK
  <2>5. Instances!RegistrationsAreKept'
    BY <1>7 DEF Instances!Save, Instances!Pinned, Instances!RegistrationsAreKept,
       Instances!IndexesAgree, Instances!HostsHaveTools, Instances!TypeOK,
       Instances!FoldersOK, Instances!IndexOK, Instances!HostsOK
  <2>6. Instances!ShelvesAreOwned'
    BY <1>7 DEF Instances!Save, Instances!Pinned, Instances!ShelvesAreOwned, Instances!Owns,
       Instances!PlacesAreOwn, Instances!HostsHaveTools, Instances!IndexesAgree,
       Instances!RegistrationsAreKept, Instances!TypeOK, Instances!FoldersOK,
       Instances!IndexOK, Instances!HostsOK
  <2> QED
    BY <2>1, <2>2, <2>3, <2>4, <2>5, <2>6
<1>8. ASSUME NEW h \in Hosts, Instances!Remember(h) PROVE Instances!IInv'
  <2> USE <1>8 DEF Instances!Remember, Instances!Pinned, Instances!Goes, Instances!TypeOK
  <2>1. Instances!TypeOK'
    <3>1. Instances!FoldersOK'
      BY DEF Instances!FoldersOK
    <3>2. Instances!IndexOK'
      BY DEF Instances!IndexOK
    <3>3. Instances!HostsOK'
      BY DEF Instances!HostsOK
    <3> QED
      BY <3>1, <3>2, <3>3
  <2>2. Instances!PlacesAreOwn'
    BY DEF Instances!PlacesAreOwn, Instances!HostsHaveTools, Instances!FoldersOK,
       Instances!IndexOK, Instances!HostsOK
  <2>3. Instances!HostsHaveTools'
    BY DEF Instances!HostsHaveTools, Instances!FoldersOK, Instances!IndexOK,
       Instances!HostsOK
  <2>4. Instances!IndexesAgree'
    BY DEF Instances!IndexesAgree, Instances!Entries, Instances!FoldersOK,
       Instances!IndexOK, Instances!HostsOK
  <2>5. Instances!RegistrationsAreKept'
    BY DEF Instances!RegistrationsAreKept, Instances!IndexesAgree, Instances!HostsHaveTools,
       Instances!FoldersOK, Instances!IndexOK, Instances!HostsOK
  <2>6. Instances!ShelvesAreOwned'
    BY DEF Instances!ShelvesAreOwned, Instances!Owns, Instances!PlacesAreOwn,
       Instances!HostsHaveTools, Instances!IndexesAgree, Instances!RegistrationsAreKept,
       Instances!FoldersOK, Instances!IndexOK, Instances!HostsOK
  <2> QED
    BY <2>1, <2>2, <2>3, <2>4, <2>5, <2>6
<1>9. ASSUME NEW h \in Hosts, Instances!Remembers(h) PROVE Instances!IInv'
  <2>1. Instances!TypeOK'
    <3>1. Instances!FoldersOK'
      BY <1>9 DEF Instances!Remembers, Instances!Pinned, Instances!Writes,
         Instances!Appended, Instances!Matching, Instances!Names, Instances!Goes,
         Instances!Releases, Instances!Rests, Instances!FoldersOK, Instances!TypeOK
    <3>2. Instances!IndexOK'
      <4>1. CASE UNCHANGED <<v3, v4, v11, v12>>
        BY <4>1 DEF Instances!IndexOK, Instances!TypeOK
      <4>2. ASSUME NEW id \in Instances!Instances, Remembered(h, id)
             PROVE  Instances!IndexOK'
        BY <4>2, ListingKeeps, ListingAgainKeeps DEF Remembered
      <4> QED
        BY <1>9, RemembersLists, <4>1, <4>2
    <3>3. Instances!HostsOK'
      BY <1>9 DEF Instances!Remembers, Instances!Pinned, Instances!Writes,
         Instances!Appended, Instances!Matching, Instances!Names, Instances!Goes,
         Instances!Releases, Instances!Rests, Instances!HostsOK, Instances!TypeOK
    <3> QED
      BY <1>9, <3>1, <3>2, <3>3 DEF Instances!Remembers, Instances!Pinned, Instances!Writes,
         Instances!Appended, Instances!Matching, Instances!Names, Instances!Goes,
         Instances!Releases, Instances!Rests, Instances!TypeOK
  <2>2. Instances!PlacesAreOwn'
    BY <1>9 DEF Instances!Remembers, Instances!Pinned, Instances!Writes, Instances!Appended,
       Instances!Matching, Instances!Names, Instances!Goes, Instances!Releases,
       Instances!Rests, Instances!PlacesAreOwn, Instances!HostsHaveTools, Instances!TypeOK,
       Instances!FoldersOK, Instances!IndexOK, Instances!HostsOK
  <2>3. Instances!HostsHaveTools'
    BY <1>9 DEF Instances!Remembers, Instances!Pinned, Instances!Writes, Instances!Appended,
       Instances!Matching, Instances!Names, Instances!Goes, Instances!Releases,
       Instances!Rests, Instances!HostsHaveTools, Instances!TypeOK, Instances!FoldersOK,
       Instances!IndexOK, Instances!HostsOK
  <2>4. Instances!IndexesAgree'
    <3>1. CASE UNCHANGED <<v3, v4, v11, v12>>
      BY <3>1 DEF Instances!IndexesAgree
    <3>2. ASSUME NEW id \in Instances!Instances, Remembered(h, id)
           PROVE  Instances!IndexesAgree'
      BY <3>2, ListingKeeps, ListingAgainKeeps DEF Remembered
    <3> QED
      BY <1>9, RemembersLists, <3>1, <3>2
  <2>5. Instances!RegistrationsAreKept'
    <3>1. CASE UNCHANGED <<v3, v4, v11, v12>>
      BY <3>1 DEF Instances!RegistrationsAreKept
    <3>2. ASSUME NEW id \in Instances!Instances, Remembered(h, id)
           PROVE  Instances!RegistrationsAreKept'
      BY <3>2, ListingKeeps, ListingAgainKeeps DEF Remembered
    <3> QED
      BY <1>9, RemembersLists, <3>1, <3>2
  <2>6. Instances!ShelvesAreOwned'
    <3>1. UNCHANGED <<v1, v2, v5>> /\ v7[h] = "remembering" /\ v9[h] \in Directories
              /\ v1[v9[h]] # "nowhere"
      BY <1>9 DEF Instances!Remembers, Instances!HostsHaveTools, Instances!Nowhere
    <3>2. CASE UNCHANGED <<v3, v4, v11, v12>> /\ v7' = [v7 EXCEPT ![h] = "idle"]
                /\ v9' = [v9 EXCEPT ![h] = "nowhere"] /\ v10' = [v10 EXCEPT ![h] = 0]
      <4>1. \A i \in Instances!Instances, x \in Directories :
                 Instances!Owns(i, x)' => Instances!Owns(i, x)
        BY <3>1, <3>2 DEF Instances!Owns, Instances!TypeOK, Instances!HostsOK
      <4> QED
        BY <3>1, <3>2, <4>1 DEF Instances!ShelvesAreOwned
    <3>3. ASSUME NEW id \in Instances!Instances, Remembered(h, id)
           PROVE  Instances!ShelvesAreOwned'
      <4>1. \A i \in Instances!Instances, x \in Directories :
                 Instances!Owns(i, x)' =>
                     Instances!Owns(i, x) \/ (id \in v12' /\ i = id /\ x = v9[h])
        BY <3>1, <3>3 DEF Remembered, Instances!Owns, Instances!TypeOK, Instances!HostsOK
      <4>2. CASE id = v11 + 1 /\ Listed(h)
        <5>1. \A i \in Instances!Instances, x \in Directories : Instances!Owns(i, x) => i # id
          BY <4>2, OwnersAreListed DEF Instances!TypeOK, Instances!IndexOK
        <5>2. \A entry \in v3' :
                  \/ entry \in v3 /\ entry.id # id
                  \/ entry.id = id /\ PlaceOf[entry.path] = v1[v9[h]]
          <6>1. \A entry \in v3 : entry.id # v11 + 1
            BY DEF Instances!IndexesAgree, Instances!TypeOK, Instances!IndexOK,
               Instances!Entries
          <6>2. v3' \subseteq v3 \cup {[id |-> v11 + 1, path |-> v8[h]]}
            BY <4>2 DEF Listed
          <6>3. PlaceOf[v8[h]] = v1[v9[h]]
            BY <4>2 DEF Listed
          <6> QED
            BY <4>2, <6>1, <6>2, <6>3
        <5>3. v12 \subseteq v12'
          BY <4>2 DEF Listed
        <5>4. \A g \in Directories : v1[g] = v1[v9[h]] => g = v9[h]
          BY <3>1 DEF Instances!PlacesAreOwn, Instances!Nowhere
        <5> QED
          BY <3>1, <4>1, <5>1, <5>2, <5>3, <5>4 DEF Instances!ShelvesAreOwned
      <4>3. CASE ListedAgain(id) /\ \E x \in v3 : x.id = id /\ PlaceOf[x.path] = v1[v9[h]]
        <5>1. v3' = v3 /\ v12 \subseteq v12'
          BY <4>3 DEF ListedAgain
        <5>2. \A entry \in v3 : entry.id = id => PlaceOf[entry.path] = v1[v9[h]]
          BY <4>3 DEF Instances!IndexesAgree
        <5>3. \A g \in Directories : v1[g] = v1[v9[h]] => g = v9[h]
          BY <3>1 DEF Instances!PlacesAreOwn, Instances!Nowhere
        <5>4. \A x \in Directories : Instances!Owns(id, x) => x = v9[h]
          <6>1. v2[v9[h]] > 0
            BY <3>1 DEF Instances!HostsHaveTools
          <6> QED
            BY <4>3, <6>1, <3>1 DEF Instances!ShelvesAreOwned
        <5> QED
          BY <3>1, <4>1, <5>1, <5>2, <5>3, <5>4 DEF Instances!ShelvesAreOwned
      <4> QED
        BY <3>3, <4>2, <4>3 DEF Remembered
    <3> QED
      BY <1>9, <3>2, <3>3, RemembersLists
  <2> QED
    BY <2>1, <2>2, <2>3, <2>4, <2>5, <2>6
<1>10. ASSUME NEW h \in Hosts, Instances!Capture(h) PROVE Instances!IInv'
  <2>1. Instances!TypeOK'
    <3>1. Instances!FoldersOK'
      <4>1. /\ v9[h] \in Directories /\ v2[v9[h]] \in 1 .. MaxSaved
            /\ v10[h] \in Instances!Instances
        <5>1. v9[h] \in Directories /\ v2[v9[h]] > 0 /\ v10[h] \in v12
          BY <1>10 DEF Instances!Capture, Instances!HostsHaveTools
        <5>2. v2[v9[h]] \in 0 .. MaxSaved /\ v12 \subseteq Instances!Instances
          BY <5>1 DEF Instances!TypeOK, Instances!FoldersOK, Instances!IndexOK
        <5>3. v2[v9[h]] \in 1 .. MaxSaved
          BY <5>1, <5>2
        <5>4. v10[h] \in Instances!Instances
          BY Zenon, <5>1, <5>2
        <5> QED
          BY Zenon, <5>1, <5>3, <5>4
      <4>2. Instances!Checkpoint(v9[h]) \in Instances!Checkpoints
        BY <4>1 DEF Instances!Checkpoint, Instances!Checkpoints
      <4>3. v5' \in [Instances!Instances -> SUBSET Instances!Checkpoints]
        BY SMTT(30), <1>10, <4>1, <4>2 DEF Instances!Capture, Instances!TypeOK, Instances!FoldersOK
      <4> QED
        BY <1>10, <4>3 DEF Instances!Capture, Instances!TypeOK, Instances!FoldersOK,
           Instances!Checkpoints
    <3>2. Instances!IndexOK'
      BY <1>10 DEF Instances!Capture, Instances!Checkpoint, Instances!Pinned,
         Instances!Goes, Instances!Releases, Instances!Rests, Instances!IndexOK,
         Instances!TypeOK
    <3>3. Instances!HostsOK'
      BY <1>10 DEF Instances!Capture, Instances!Checkpoint, Instances!Pinned,
         Instances!Goes, Instances!Releases, Instances!Rests, Instances!HostsOK,
         Instances!TypeOK
    <3> QED
      BY <1>10, <3>1, <3>2, <3>3 DEF Instances!Capture, Instances!Checkpoint,
         Instances!Pinned, Instances!Goes, Instances!Releases, Instances!Rests,
         Instances!TypeOK
  <2>2. Instances!PlacesAreOwn'
    BY <1>10 DEF Instances!Capture, Instances!Checkpoint, Instances!Pinned, Instances!Goes,
       Instances!Releases, Instances!Rests, Instances!PlacesAreOwn,
       Instances!HostsHaveTools, Instances!TypeOK, Instances!FoldersOK, Instances!IndexOK,
       Instances!HostsOK
  <2>3. Instances!HostsHaveTools'
    BY <1>10 DEF Instances!Capture, Instances!Checkpoint, Instances!Pinned, Instances!Goes,
       Instances!Releases, Instances!Rests, Instances!HostsHaveTools, Instances!TypeOK,
       Instances!FoldersOK, Instances!IndexOK, Instances!HostsOK
  <2>4. Instances!IndexesAgree'
    BY <1>10 DEF Instances!Capture, Instances!Checkpoint, Instances!Pinned, Instances!Goes,
       Instances!Releases, Instances!Rests, Instances!IndexesAgree, Instances!Entries,
       Instances!TypeOK, Instances!FoldersOK, Instances!IndexOK, Instances!HostsOK
  <2>5. Instances!RegistrationsAreKept'
    BY <1>10 DEF Instances!Capture, Instances!Checkpoint, Instances!Pinned, Instances!Goes,
       Instances!Releases, Instances!Rests, Instances!RegistrationsAreKept,
       Instances!IndexesAgree, Instances!HostsHaveTools, Instances!TypeOK,
       Instances!FoldersOK, Instances!IndexOK, Instances!HostsOK
  <2>6. Instances!ShelvesAreOwned'
    BY <1>10 DEF Instances!Capture, Instances!Checkpoint, Instances!Pinned, Instances!Goes,
       Instances!Releases, Instances!Rests, Instances!ShelvesAreOwned, Instances!Owns,
       Instances!PlacesAreOwn, Instances!HostsHaveTools, Instances!IndexesAgree,
       Instances!RegistrationsAreKept, Instances!TypeOK, Instances!FoldersOK,
       Instances!IndexOK, Instances!HostsOK
  <2> QED
    BY <2>1, <2>2, <2>3, <2>4, <2>5, <2>6
<1>11. ASSUME NEW h \in Hosts, Instances!Activates(h) PROVE Instances!IInv'
  <2>1. Instances!TypeOK'
    <3>1. Instances!FoldersOK'
      <4>1. UNCHANGED <<v1, v5>>
        BY <1>11 DEF Instances!Activates, Instances!Verified, Instances!Pinned,
           Instances!Names, Instances!Newest, Instances!Goes, Instances!Releases,
           Instances!Rests
      <4>2. v2' \in [Directories -> 0 .. MaxSaved]
        <5>1. CASE UNCHANGED v2
          BY <5>1 DEF Instances!TypeOK, Instances!FoldersOK
        <5>2. ASSUME NEW r \in 1 .. MaxSaved, v2' = [v2 EXCEPT ![v9[h]] = r]
               PROVE  v2' \in [Directories -> 0 .. MaxSaved]
          <6>1. v2 \in [Directories -> 0 .. MaxSaved] /\ r \in 0 .. MaxSaved
            BY DEF Instances!TypeOK, Instances!FoldersOK
          <6> QED
            BY <5>2, <6>1
        <5> QED
          BY <1>11, <5>1, <5>2, ActivatesVerified
      <4> QED
        BY <4>1, <4>2 DEF Instances!TypeOK, Instances!FoldersOK, Instances!Checkpoints
    <3>2. Instances!IndexOK'
      BY <1>11 DEF Instances!Activates, Instances!Verified, Instances!Pinned,
         Instances!Names, Instances!Newest, Instances!Goes, Instances!Releases,
         Instances!Rests, Instances!IndexOK, Instances!TypeOK
    <3>3. Instances!HostsOK'
      BY <1>11 DEF Instances!Activates, Instances!Verified, Instances!Pinned,
         Instances!Names, Instances!Newest, Instances!Goes, Instances!Releases,
         Instances!Rests, Instances!HostsOK, Instances!TypeOK
    <3> QED
      BY <1>11, <3>1, <3>2, <3>3 DEF Instances!Activates, Instances!Verified,
         Instances!Pinned, Instances!Names, Instances!Newest, Instances!Goes,
         Instances!Releases, Instances!Rests, Instances!TypeOK
  <2>2. Instances!PlacesAreOwn'
    BY <1>11 DEF Instances!Activates, Instances!Verified, Instances!Pinned, Instances!Names,
       Instances!Newest, Instances!Goes, Instances!Releases, Instances!Rests,
       Instances!PlacesAreOwn, Instances!HostsHaveTools, Instances!TypeOK,
       Instances!FoldersOK, Instances!IndexOK, Instances!HostsOK
  <2>3. Instances!HostsHaveTools'
    <3> USE <1>11 DEF Instances!Activates, Instances!Goes, Instances!HostsHaveTools,
          Instances!TypeOK, Instances!HostsOK
    <3>1. CASE Instances!Rests(h, "idle") /\ UNCHANGED v2
      BY <3>1 DEF Instances!Verified, Instances!Pinned, Instances!Names, Instances!Newest,
         Instances!Releases, Instances!Rests
    <3>2. ASSUME NEW r \in 1 .. MaxSaved, Instances!Goes(h, "registering"),
                 UNCHANGED <<v6, v8, v9, v10>>, v2' = [v2 EXCEPT ![v9[h]] = r]
           PROVE  Instances!HostsHaveTools'
      BY <3>2 DEF Instances!FoldersOK
    <3> QED
      BY <3>1, <3>2, ActivatesVerified
  <2>4. Instances!IndexesAgree'
    BY <1>11 DEF Instances!Activates, Instances!Verified, Instances!Pinned, Instances!Names,
       Instances!Newest, Instances!Goes, Instances!Releases, Instances!Rests,
       Instances!IndexesAgree, Instances!Entries, Instances!TypeOK, Instances!FoldersOK,
       Instances!IndexOK, Instances!HostsOK
  <2>5. Instances!RegistrationsAreKept'
    BY <1>11 DEF Instances!Activates, Instances!Verified, Instances!Pinned, Instances!Names,
       Instances!Newest, Instances!Goes, Instances!Releases, Instances!Rests,
       Instances!RegistrationsAreKept, Instances!IndexesAgree, Instances!HostsHaveTools,
       Instances!TypeOK, Instances!FoldersOK, Instances!IndexOK, Instances!HostsOK
  <2>6. Instances!ShelvesAreOwned'
    <3>1. \A i \in Instances!Instances, x \in Directories :
             Instances!Owns(i, x)' => Instances!Owns(i, x)
      BY <1>11 DEF Instances!Activates, Instances!Verified, Instances!Pinned,
         Instances!Names, Instances!Newest, Instances!Goes, Instances!Releases,
         Instances!Rests, Instances!Owns, Instances!TypeOK, Instances!HostsOK
    <3>2. \A entry \in v3, g \in Directories :
             v1'[g] = PlaceOf[entry.path] /\ v2'[g] > 0 =>
                 v1[g] = PlaceOf[entry.path] /\ v2[g] > 0
      <4>1. UNCHANGED v1
        BY <1>11 DEF Instances!Activates, Instances!Verified, Instances!Pinned,
           Instances!Names, Instances!Newest, Instances!Goes, Instances!Releases,
           Instances!Rests
      <4>2. CASE UNCHANGED v2
        BY <4>1, <4>2
      <4>3. CASE /\ Instances!Verified(h)
                 /\ \E r \in 1 .. MaxSaved : v2' = [v2 EXCEPT ![v9[h]] = r]
        <5>1. v1[v9[h]] # "nowhere"
          BY <1>11 DEF Instances!Activates, Instances!HostsHaveTools, Instances!Nowhere
        <5>2. \A entry \in v3 : PlaceOf[entry.path] # v1[v9[h]]
          BY <4>3, <5>1 DEF Instances!Verified, Instances!Names, Instances!Nowhere
        <5>3. \A g \in Directories : g # v9[h] => v2'[g] = v2[g]
          BY <4>3 DEF Instances!TypeOK, Instances!FoldersOK
        <5> QED
          BY <4>1, <5>2, <5>3
      <4> QED
        BY <1>11, <4>2, <4>3, ActivatesVerified
    <3>3. UNCHANGED <<v3, v12>>
      BY <1>11 DEF Instances!Activates, Instances!Verified, Instances!Pinned,
         Instances!Names, Instances!Newest, Instances!Goes, Instances!Releases,
         Instances!Rests
    <3>4. ASSUME NEW i \in Instances!Instances, NEW x \in Directories, Instances!Owns(i, x)'
           PROVE  /\ i \in v12'
                  /\ \A g \in Directories : Instances!Owns(i, g)' => x = g
                  /\ \A entry \in v3', g \in Directories :
                       entry.id = i /\ v1'[g] = PlaceOf[entry.path] /\ v2'[g] > 0 => g = x
      <4>1. Instances!Owns(i, x)
        BY <3>1, <3>4
      <4>2. i \in v12' /\ \A g \in Directories : Instances!Owns(i, g)' => x = g
        BY <3>1, <3>3, <4>1 DEF Instances!ShelvesAreOwned
      <4>3. \A entry \in v3', g \in Directories :
                  entry.id = i /\ v1'[g] = PlaceOf[entry.path] /\ v2'[g] > 0 => g = x
        BY <3>2, <3>3, <4>1 DEF Instances!ShelvesAreOwned
      <4> QED
        BY <4>2, <4>3
    <3> QED
      BY <3>4 DEF Instances!ShelvesAreOwned
  <2> QED
    BY <2>1, <2>2, <2>3, <2>4, <2>5, <2>6
<1>12. ASSUME NEW h \in Hosts, Instances!Registers(h) PROVE Instances!IInv'
  <2>1. Instances!TypeOK'
    <3>1. Instances!FoldersOK'
      BY <1>12 DEF Instances!Registers, Instances!Verified, Instances!Pinned,
         Instances!Names, Instances!Writes, Instances!Appended, Instances!Goes,
         Instances!Releases, Instances!Rests, Instances!FoldersOK, Instances!TypeOK
    <3>2. Instances!IndexOK'
      <4>1. CASE UNCHANGED <<v3, v4, v11, v12>>
        BY <4>1 DEF Instances!IndexOK, Instances!TypeOK
      <4>2. CASE Listed(h)
        BY <4>2, ListingKeeps
      <4> QED
        BY <1>12, RegistersLists, <4>1, <4>2
    <3>3. Instances!HostsOK'
      BY <1>12 DEF Instances!Registers, Instances!Verified, Instances!Pinned,
         Instances!Names, Instances!Writes, Instances!Appended, Instances!Goes,
         Instances!Releases, Instances!Rests, Instances!HostsOK, Instances!TypeOK
    <3> QED
      BY <1>12, <3>1, <3>2, <3>3 DEF Instances!Registers, Instances!Verified,
         Instances!Pinned, Instances!Names, Instances!Writes, Instances!Appended,
         Instances!Goes, Instances!Releases, Instances!Rests, Instances!TypeOK
  <2>2. Instances!PlacesAreOwn'
    BY <1>12 DEF Instances!Registers, Instances!Verified, Instances!Pinned, Instances!Names,
       Instances!Writes, Instances!Appended, Instances!Goes, Instances!Releases,
       Instances!Rests, Instances!PlacesAreOwn, Instances!HostsHaveTools, Instances!TypeOK,
       Instances!FoldersOK, Instances!IndexOK, Instances!HostsOK
  <2>3. Instances!HostsHaveTools'
    BY <1>12 DEF Instances!Registers, Instances!Verified, Instances!Pinned, Instances!Names,
       Instances!Writes, Instances!Appended, Instances!Goes, Instances!Releases,
       Instances!Rests, Instances!HostsHaveTools, Instances!TypeOK, Instances!FoldersOK,
       Instances!IndexOK, Instances!HostsOK
  <2>4. Instances!IndexesAgree'
    <3>1. CASE UNCHANGED <<v3, v4, v11, v12>>
      BY <3>1 DEF Instances!IndexesAgree
    <3>2. CASE Listed(h)
      BY <3>2, ListingKeeps
    <3> QED
      BY <1>12, RegistersLists, <3>1, <3>2
  <2>5. Instances!RegistrationsAreKept'
    <3>1. CASE UNCHANGED <<v3, v4, v11, v12>>
      BY <3>1 DEF Instances!RegistrationsAreKept
    <3>2. CASE Listed(h)
      BY <3>2, ListingKeeps
    <3> QED
      BY <1>12, RegistersLists, <3>1, <3>2
  <2>6. Instances!ShelvesAreOwned'
    <3>1. UNCHANGED <<v1, v2, v5>> /\ v7[h] = "registering"
      BY <1>12 DEF Instances!Registers
    <3>2. \A i \in Instances!Instances, x \in Directories :
                 Instances!Owns(i, x)' => Instances!Owns(i, x)
      BY <1>12 DEF Instances!Registers, Instances!Rests, Instances!Goes, Instances!Owns,
         Instances!TypeOK, Instances!HostsOK
    <3>3. v12 \subseteq v12' /\ \A entry \in v3' : entry \in v3 \/ entry.id = v11 + 1
      BY <1>12, RegistersLists DEF Listed
    <3>4. \A i \in Instances!Instances, x \in Directories :
                 Instances!Owns(i, x) => i # v11 + 1
      BY OwnersAreListed DEF Instances!TypeOK, Instances!IndexOK
    <3> QED
      BY <3>1, <3>2, <3>3, <3>4 DEF Instances!ShelvesAreOwned
  <2> QED
    BY <2>1, <2>2, <2>3, <2>4, <2>5, <2>6
<1>13. ASSUME NEW h \in Hosts, Instances!Ends(h) PROVE Instances!IInv'
  <2> USE <1>13 DEF Instances!Ends, Instances!Goes, Instances!Releases, Instances!Rests,
        Instances!TypeOK
  <2>1. Instances!TypeOK'
    <3>1. Instances!FoldersOK'
      BY DEF Instances!FoldersOK
    <3>2. Instances!IndexOK'
      BY DEF Instances!IndexOK
    <3>3. Instances!HostsOK'
      BY DEF Instances!HostsOK
    <3> QED
      BY <3>1, <3>2, <3>3
  <2>2. Instances!PlacesAreOwn'
    BY DEF Instances!PlacesAreOwn, Instances!HostsHaveTools, Instances!FoldersOK,
       Instances!IndexOK, Instances!HostsOK
  <2>3. Instances!HostsHaveTools'
    BY DEF Instances!HostsHaveTools, Instances!FoldersOK, Instances!IndexOK,
       Instances!HostsOK
  <2>4. Instances!IndexesAgree'
    BY DEF Instances!IndexesAgree, Instances!Entries, Instances!FoldersOK,
       Instances!IndexOK, Instances!HostsOK
  <2>5. Instances!RegistrationsAreKept'
    BY DEF Instances!RegistrationsAreKept, Instances!IndexesAgree, Instances!HostsHaveTools,
       Instances!FoldersOK, Instances!IndexOK, Instances!HostsOK
  <2>6. Instances!ShelvesAreOwned'
    BY DEF Instances!ShelvesAreOwned, Instances!Owns, Instances!PlacesAreOwn,
       Instances!HostsHaveTools, Instances!IndexesAgree, Instances!RegistrationsAreKept,
       Instances!FoldersOK, Instances!IndexOK, Instances!HostsOK
  <2> QED
    BY <2>1, <2>2, <2>3, <2>4, <2>5, <2>6
<1> QED
BY <1>1, <1>2, <1>3, <1>4, <1>5, <1>6, <1>7, <1>8, <1>9, <1>10, <1>11, <1>12, <1>13 DEF
   Instances!Next

-----------------------------------------------------------------------------
(* Files outside the tool. *)

LEMMA NoReportIsNone ==
    /\ Attempts!NoReport.status = "none"
    /\ Attempts!NoReport \in [operation : {0} \cup Attempts!Attempts,
                              status : Attempts!Outcomes]
BY DEF Attempts!NoReport, Attempts!Outcomes

LEMMA ShownIsReported ==
    ASSUME Attempts!TypeOK, NEW s \in Attempts!Outcomes, Attempts!Shows(s)
    PROVE  /\ v17' \in [operation : {0} \cup Attempts!Attempts, status : Attempts!Outcomes]
           /\ v17'.status = s
BY DEF Attempts!Shows, Attempts!TypeOK, Attempts!CountsOK

LEMMA RecordsChange ==
    \A r \in Attempts!Records :
        /\ \A a \in {0} \cup Attempts!Attempts :
             /\ [r EXCEPT !.attempt = a] \in Attempts!Records
             /\ [r EXCEPT !.attempt = a].attempt = a
             /\ [r EXCEPT !.attempt = a].pending = r.pending
             /\ [r EXCEPT !.attempt = a].handed = r.handed
        /\ [r EXCEPT !.pending = FALSE] \in Attempts!Records
        /\ [r EXCEPT !.pending = FALSE].attempt = r.attempt
        /\ LET n == [r EXCEPT !.pending = FALSE, !.handed = @ \/ r.pending] IN
             /\ n \in Attempts!Records /\ n.attempt = r.attempt
             /\ r.pending \/ r.handed => n.handed
BY DEF Attempts!Records

LEMMA WritesKeep ==
    ASSUME Attempts!RecordOK, Attempts!CopyMayLast, NEW new \in Attempts!Records,
           Attempts!Written(new) \/ Attempts!WriteFails(new)
    PROVE  /\ Attempts!RecordOK' /\ Attempts!CopyMayLast'
           /\ v2' \subseteq v2 \cup {new} /\ v3' \in {v3, new}
BY DEF Attempts!RecordOK, Attempts!CopyMayLast, Attempts!Written, Attempts!WriteFails

LEMMA PendingLasts ==
    ASSUME Attempts!PendingIsKept, NEW new, v2' \subseteq v2 \cup {new},
           v19 => v19', v19' \/ new.pending \/ new.handed
    PROVE  Attempts!PendingIsKept'
BY DEF Attempts!PendingIsKept

LEMMA NothingIsUnresolved ==
    ASSUME Attempts!IInv, v3.attempt = 0
    PROVE  v18 = {}
BY DEF Attempts!IInv, Attempts!TypeOK, Attempts!CountsOK, Attempts!CopyMayLast,
   Attempts!EffectsAreRecorded, Attempts!Attempts

LEMMA AttemptsBegin == Attempts!Init => Attempts!IInv
<1> SUFFICES ASSUME Attempts!Init PROVE Attempts!IInv
  OBVIOUS
<1> USE BoundsAreNumbers DEF Attempts!Init, Attempts!Records, Attempts!Outcomes,
   Attempts!Attempts,
      Attempts!Bases, Attempts!Nothing, Attempts!Others,
      Attempts!Contents, Attempts!journal, Attempts!files, Attempts!panel,
      Attempts!work, Attempts!ghosts
<1>1. Attempts!TypeOK
  <2> USE DEF Attempts!TypeOK
  <2>1. Attempts!RecordOK
    BY DEF Attempts!RecordOK
  <2>2. Attempts!FilesOK
    BY DEF Attempts!FilesOK, Attempts!CountsOK, Attempts!StepsOK
  <2>3. Attempts!StepsOK
    BY NoReportIsNone DEF Attempts!StepsOK, Attempts!CountsOK, Attempts!Outcomes
  <2>4. Attempts!CountsOK
    BY DEF Attempts!CountsOK
  <2> QED
    BY <2>1, <2>2, <2>3, <2>4
<1>2. Attempts!CopyMayLast
  BY DEF Attempts!CopyMayLast, Attempts!TypeOK, Attempts!StepsOK
<1>3. Attempts!AttemptsAreStaged
  BY DEF Attempts!AttemptsAreStaged, Attempts!TypeOK, Attempts!StepsOK,
     Attempts!CopyMayLast, Attempts!CountsOK
<1>4. Attempts!EffectsAreRecorded
  BY DEF Attempts!EffectsAreRecorded, Attempts!TypeOK, Attempts!StepsOK,
     Attempts!AttemptsAreStaged, Attempts!CopyMayLast
<1>5. Attempts!ReportsAreTrue
  BY NoReportIsNone DEF Attempts!ReportsAreTrue, Attempts!TypeOK, Attempts!StepsOK,
     Attempts!AttemptsAreStaged, Attempts!CountsOK
<1>6. Attempts!PendingIsKept
  <2>1. v2 = {v3} /\ (v19 = ~ v3.pending)
    BY DEF Attempts!Init
  <2>2. \A left \in v2 : left = v3
    BY <2>1
  <2>3. v19 \/ v3.pending
    BY Zenon, <2>1
  <2> QED
    BY Zenon, <2>2, <2>3 DEF Attempts!PendingIsKept
<1> QED
  BY <1>1, <1>2, <1>3, <1>4, <1>5, <1>6 DEF Attempts!IInv

LEMMA AttemptsStutter == Attempts!IInv /\ UNCHANGED Attempts!fileAttempts => Attempts!IInv'
<1> SUFFICES ASSUME Attempts!IInv, UNCHANGED Attempts!fileAttempts PROVE Attempts!IInv'
  OBVIOUS
<1> USE DEF Attempts!fileAttempts, Attempts!Attempts, Attempts!Bases,
      Attempts!Nothing, Attempts!Others, Attempts!Contents,
      Attempts!journal, Attempts!files, Attempts!panel, Attempts!work,
      Attempts!ghosts
<1>1. Attempts!TypeOK'
  BY ZenonT(60) DEF Attempts!IInv, Attempts!TypeOK, Attempts!RecordOK, Attempts!FilesOK,
     Attempts!StepsOK, Attempts!CountsOK
<1>2. Attempts!CopyMayLast'
  BY DEF Attempts!IInv, Attempts!CopyMayLast
<1>3. Attempts!AttemptsAreStaged'
  BY DEF Attempts!IInv, Attempts!AttemptsAreStaged
<1>4. Attempts!EffectsAreRecorded'
  BY DEF Attempts!IInv, Attempts!EffectsAreRecorded
<1>5. Attempts!ReportsAreTrue'
  BY DEF Attempts!IInv, Attempts!ReportsAreTrue
<1>6. Attempts!PendingIsKept'
  BY Zenon DEF Attempts!IInv, Attempts!PendingIsKept
<1> QED
  BY <1>1, <1>2, <1>3, <1>4, <1>5, <1>6 DEF Attempts!IInv

LEMMA AttemptsStep == Attempts!IInv /\ Attempts!Next => Attempts!IInv'
<1> SUFFICES ASSUME Attempts!IInv, Attempts!Next PROVE Attempts!IInv'
  OBVIOUS
<1> USE BoundsAreNumbers DEF Attempts!Attempts, Attempts!Bases, Attempts!Nothing,
   Attempts!Others,
      Attempts!Contents, Attempts!journal, Attempts!files, Attempts!panel,
      Attempts!work, Attempts!ghosts, Attempts!IInv
<1>1. CASE Attempts!Files
  <2> USE <1>1 DEF Attempts!Files, Attempts!Opens, Attempts!TypeOK
  <2>1. Attempts!TypeOK'
    <3>1. Attempts!RecordOK'
      BY DEF Attempts!RecordOK
    <3>2. Attempts!FilesOK'
      BY DEF Attempts!FilesOK, Attempts!CountsOK, Attempts!StepsOK
    <3>3. Attempts!StepsOK'
      BY NoReportIsNone DEF Attempts!StepsOK, Attempts!CountsOK, Attempts!Outcomes
    <3>4. Attempts!CountsOK'
      BY DEF Attempts!CountsOK
    <3> QED
      BY <3>1, <3>2, <3>3, <3>4
  <2>2. Attempts!CopyMayLast'
    BY DEF Attempts!CopyMayLast, Attempts!StepsOK
  <2>3. Attempts!AttemptsAreStaged'
    BY DEF Attempts!AttemptsAreStaged, Attempts!StepsOK, Attempts!CopyMayLast,
       Attempts!CountsOK
  <2>4. Attempts!EffectsAreRecorded'
    BY DEF Attempts!EffectsAreRecorded, Attempts!StepsOK, Attempts!AttemptsAreStaged,
       Attempts!CopyMayLast
  <2>5. Attempts!ReportsAreTrue'
    BY NoReportIsNone DEF Attempts!ReportsAreTrue, Attempts!StepsOK,
       Attempts!AttemptsAreStaged, Attempts!CountsOK
  <2>6. Attempts!PendingIsKept'
    BY DEF Attempts!PendingIsKept, Attempts!StepsOK, Attempts!CopyMayLast,
       Attempts!AttemptsAreStaged
  <2> QED
    BY <2>1, <2>2, <2>3, <2>4, <2>5, <2>6
<1>2. CASE Attempts!ReviewRecovery
  <2> USE <1>2 DEF Attempts!ReviewRecovery, Attempts!Offers, Attempts!Opens, Attempts!TypeOK
  <2>1. Attempts!TypeOK'
    <3>1. Attempts!RecordOK'
      BY DEF Attempts!RecordOK
    <3>2. Attempts!FilesOK'
      BY DEF Attempts!FilesOK, Attempts!CountsOK, Attempts!StepsOK
    <3>3. Attempts!StepsOK'
      BY NoReportIsNone DEF Attempts!StepsOK, Attempts!CountsOK, Attempts!Outcomes
    <3>4. Attempts!CountsOK'
      BY DEF Attempts!CountsOK
    <3> QED
      BY <3>1, <3>2, <3>3, <3>4
  <2>2. Attempts!CopyMayLast'
    BY DEF Attempts!CopyMayLast, Attempts!StepsOK
  <2>3. Attempts!AttemptsAreStaged'
    BY DEF Attempts!AttemptsAreStaged, Attempts!StepsOK, Attempts!CopyMayLast,
       Attempts!CountsOK
  <2>4. Attempts!EffectsAreRecorded'
    BY DEF Attempts!EffectsAreRecorded, Attempts!StepsOK, Attempts!AttemptsAreStaged,
       Attempts!CopyMayLast
  <2>5. Attempts!ReportsAreTrue'
    BY NoReportIsNone DEF Attempts!ReportsAreTrue, Attempts!StepsOK,
       Attempts!AttemptsAreStaged, Attempts!CountsOK
  <2>6. Attempts!PendingIsKept'
    BY DEF Attempts!PendingIsKept, Attempts!StepsOK, Attempts!CopyMayLast,
       Attempts!AttemptsAreStaged
  <2> QED
    BY <2>1, <2>2, <2>3, <2>4, <2>5, <2>6
<1>3. CASE Attempts!FilesBack
  <2> USE <1>3 DEF Attempts!FilesBack, Attempts!Opens, Attempts!TypeOK
  <2>1. Attempts!TypeOK'
    <3>1. Attempts!RecordOK'
      BY DEF Attempts!RecordOK
    <3>2. Attempts!FilesOK'
      BY DEF Attempts!FilesOK, Attempts!CountsOK, Attempts!StepsOK
    <3>3. Attempts!StepsOK'
      BY NoReportIsNone DEF Attempts!StepsOK, Attempts!CountsOK, Attempts!Outcomes
    <3>4. Attempts!CountsOK'
      BY DEF Attempts!CountsOK
    <3> QED
      BY <3>1, <3>2, <3>3, <3>4
  <2>2. Attempts!CopyMayLast'
    BY DEF Attempts!CopyMayLast, Attempts!StepsOK
  <2>3. Attempts!AttemptsAreStaged'
    BY DEF Attempts!AttemptsAreStaged, Attempts!StepsOK, Attempts!CopyMayLast,
       Attempts!CountsOK
  <2>4. Attempts!EffectsAreRecorded'
    BY DEF Attempts!EffectsAreRecorded, Attempts!StepsOK, Attempts!AttemptsAreStaged,
       Attempts!CopyMayLast
  <2>5. Attempts!ReportsAreTrue'
    BY NoReportIsNone DEF Attempts!ReportsAreTrue, Attempts!StepsOK,
       Attempts!AttemptsAreStaged, Attempts!CountsOK
  <2>6. Attempts!PendingIsKept'
    BY DEF Attempts!PendingIsKept, Attempts!StepsOK, Attempts!CopyMayLast,
       Attempts!AttemptsAreStaged
  <2> QED
    BY <2>1, <2>2, <2>3, <2>4, <2>5, <2>6
<1>4. ASSUME NEW d \in Directories, Attempts!ChooseImport(d) PROVE Attempts!IInv'
  <2> USE <1>4 DEF Attempts!ChooseImport, Attempts!Offers, Attempts!Opens, Attempts!TypeOK
  <2>1. Attempts!TypeOK'
    <3>1. Attempts!RecordOK'
      BY DEF Attempts!RecordOK
    <3>2. Attempts!FilesOK'
      BY DEF Attempts!FilesOK, Attempts!CountsOK, Attempts!StepsOK
    <3>3. Attempts!StepsOK'
      BY NoReportIsNone DEF Attempts!StepsOK, Attempts!CountsOK, Attempts!Outcomes
    <3>4. Attempts!CountsOK'
      BY DEF Attempts!CountsOK
    <3> QED
      BY <3>1, <3>2, <3>3, <3>4
  <2>2. Attempts!CopyMayLast'
    BY DEF Attempts!CopyMayLast, Attempts!StepsOK
  <2>3. Attempts!AttemptsAreStaged'
    BY DEF Attempts!AttemptsAreStaged, Attempts!StepsOK, Attempts!CopyMayLast,
       Attempts!CountsOK
  <2>4. Attempts!EffectsAreRecorded'
    BY DEF Attempts!EffectsAreRecorded, Attempts!StepsOK, Attempts!AttemptsAreStaged,
       Attempts!CopyMayLast
  <2>5. Attempts!ReportsAreTrue'
    BY NoReportIsNone DEF Attempts!ReportsAreTrue, Attempts!StepsOK,
       Attempts!AttemptsAreStaged, Attempts!CountsOK
  <2>6. Attempts!PendingIsKept'
    BY DEF Attempts!PendingIsKept, Attempts!StepsOK, Attempts!CopyMayLast,
       Attempts!AttemptsAreStaged
  <2> QED
    BY <2>1, <2>2, <2>3, <2>4, <2>5, <2>6
<1>5. ASSUME NEW d \in Directories, Attempts!RecoveryLocation(d) PROVE Attempts!IInv'
  <2> USE <1>5 DEF Attempts!RecoveryLocation, Attempts!Offers, Attempts!Opens,
        Attempts!TypeOK
  <2>1. Attempts!TypeOK'
    <3>1. Attempts!RecordOK'
      BY DEF Attempts!RecordOK
    <3>2. Attempts!FilesOK'
      BY DEF Attempts!FilesOK, Attempts!CountsOK, Attempts!StepsOK
    <3>3. Attempts!StepsOK'
      BY NoReportIsNone DEF Attempts!StepsOK, Attempts!CountsOK, Attempts!Outcomes
    <3>4. Attempts!CountsOK'
      BY DEF Attempts!CountsOK
    <3> QED
      BY <3>1, <3>2, <3>3, <3>4
  <2>2. Attempts!CopyMayLast'
    BY DEF Attempts!CopyMayLast, Attempts!StepsOK
  <2>3. Attempts!AttemptsAreStaged'
    BY DEF Attempts!AttemptsAreStaged, Attempts!StepsOK, Attempts!CopyMayLast,
       Attempts!CountsOK
  <2>4. Attempts!EffectsAreRecorded'
    BY DEF Attempts!EffectsAreRecorded, Attempts!StepsOK, Attempts!AttemptsAreStaged,
       Attempts!CopyMayLast
  <2>5. Attempts!ReportsAreTrue'
    BY NoReportIsNone DEF Attempts!ReportsAreTrue, Attempts!StepsOK,
       Attempts!AttemptsAreStaged, Attempts!CountsOK
  <2>6. Attempts!PendingIsKept'
    BY DEF Attempts!PendingIsKept, Attempts!StepsOK, Attempts!CopyMayLast,
       Attempts!AttemptsAreStaged
  <2> QED
    BY <2>1, <2>2, <2>3, <2>4, <2>5, <2>6
<1>6. ASSUME NEW d \in Directories, Attempts!ExportFile(d) PROVE Attempts!IInv'
  <2> USE <1>6 DEF Attempts!ExportFile, Attempts!Begin, Attempts!NoFileAttempt
  <2>1. Attempts!TypeOK'
    <3> USE DEF Attempts!InventoryOrigin, Attempts!TypeOK
    <3>1. Attempts!RecordOK'
      BY DEF Attempts!RecordOK
    <3>2. Attempts!FilesOK'
      BY DEF Attempts!FilesOK, Attempts!CountsOK, Attempts!StepsOK
    <3>3. Attempts!StepsOK'
      BY NoReportIsNone DEF Attempts!StepsOK, Attempts!CountsOK, Attempts!Outcomes
    <3>4. Attempts!CountsOK'
      BY DEF Attempts!CountsOK
    <3> QED
      BY <3>1, <3>2, <3>3, <3>4
  <2>2. Attempts!CopyMayLast'
    BY DEF Attempts!InventoryOrigin, Attempts!CopyMayLast, Attempts!TypeOK, Attempts!StepsOK
  <2>3. Attempts!AttemptsAreStaged'
    <3>1. v18 = {}
      BY NothingIsUnresolved
    <3>2. v12' # 0 /\ v10' = "selected" /\ v17' = Attempts!NoReport /\ v18' = {} /\ v3'.attempt = 0
      BY <3>1 DEF Attempts!TypeOK, Attempts!CountsOK
    <3> QED
      BY <3>2 DEF Attempts!AttemptsAreStaged
  <2>4. Attempts!EffectsAreRecorded'
    BY DEF Attempts!InventoryOrigin, Attempts!EffectsAreRecorded, Attempts!TypeOK,
       Attempts!StepsOK, Attempts!AttemptsAreStaged, Attempts!CopyMayLast
  <2>5. Attempts!ReportsAreTrue'
    BY NoReportIsNone DEF Attempts!InventoryOrigin, Attempts!ReportsAreTrue,
       Attempts!TypeOK, Attempts!StepsOK, Attempts!AttemptsAreStaged, Attempts!CountsOK
  <2>6. Attempts!PendingIsKept'
    BY DEF Attempts!InventoryOrigin, Attempts!PendingIsKept, Attempts!TypeOK,
       Attempts!StepsOK, Attempts!CopyMayLast, Attempts!AttemptsAreStaged
  <2> QED
    BY <2>1, <2>2, <2>3, <2>4, <2>5, <2>6
<1>7. ASSUME NEW d \in Directories, Attempts!BackupFile(d) PROVE Attempts!IInv'
  <2> USE <1>7 DEF Attempts!BackupFile, Attempts!Begin, Attempts!NoFileAttempt
  <2>1. Attempts!TypeOK'
    <3> USE DEF Attempts!InventoryOrigin, Attempts!TypeOK
    <3>1. Attempts!RecordOK'
      BY DEF Attempts!RecordOK
    <3>2. Attempts!FilesOK'
      BY DEF Attempts!FilesOK, Attempts!CountsOK, Attempts!StepsOK
    <3>3. Attempts!StepsOK'
      BY NoReportIsNone DEF Attempts!StepsOK, Attempts!CountsOK, Attempts!Outcomes
    <3>4. Attempts!CountsOK'
      BY DEF Attempts!CountsOK
    <3> QED
      BY <3>1, <3>2, <3>3, <3>4
  <2>2. Attempts!CopyMayLast'
    BY DEF Attempts!InventoryOrigin, Attempts!CopyMayLast, Attempts!TypeOK, Attempts!StepsOK
  <2>3. Attempts!AttemptsAreStaged'
    <3>1. v18 = {}
      BY NothingIsUnresolved
    <3>2. v12' # 0 /\ v10' = "selected" /\ v17' = Attempts!NoReport /\ v18' = {} /\ v3'.attempt = 0
      BY <3>1 DEF Attempts!TypeOK, Attempts!CountsOK
    <3> QED
      BY <3>2 DEF Attempts!AttemptsAreStaged
  <2>4. Attempts!EffectsAreRecorded'
    BY DEF Attempts!InventoryOrigin, Attempts!EffectsAreRecorded, Attempts!TypeOK,
       Attempts!StepsOK, Attempts!AttemptsAreStaged, Attempts!CopyMayLast
  <2>5. Attempts!ReportsAreTrue'
    BY NoReportIsNone DEF Attempts!InventoryOrigin, Attempts!ReportsAreTrue,
       Attempts!TypeOK, Attempts!StepsOK, Attempts!AttemptsAreStaged, Attempts!CountsOK
  <2>6. Attempts!PendingIsKept'
    BY DEF Attempts!InventoryOrigin, Attempts!PendingIsKept, Attempts!TypeOK,
       Attempts!StepsOK, Attempts!CopyMayLast, Attempts!AttemptsAreStaged
  <2> QED
    BY <2>1, <2>2, <2>3, <2>4, <2>5, <2>6
<1>8. ASSUME NEW d \in Directories, Attempts!RecoverFile(d) PROVE Attempts!IInv'
  <2> USE <1>8 DEF Attempts!RecoverFile, Attempts!Begin, Attempts!NoFileAttempt
  <2>1. Attempts!TypeOK'
    <3> USE DEF Attempts!RecoverySelection, Attempts!TypeOK
    <3>1. Attempts!RecordOK'
      BY DEF Attempts!RecordOK
    <3>2. Attempts!FilesOK'
      BY DEF Attempts!FilesOK, Attempts!CountsOK, Attempts!StepsOK
    <3>3. Attempts!StepsOK'
      BY NoReportIsNone DEF Attempts!StepsOK, Attempts!CountsOK, Attempts!Outcomes
    <3>4. Attempts!CountsOK'
      BY DEF Attempts!CountsOK
    <3> QED
      BY <3>1, <3>2, <3>3, <3>4
  <2>2. Attempts!CopyMayLast'
    BY DEF Attempts!RecoverySelection, Attempts!CopyMayLast, Attempts!TypeOK,
       Attempts!StepsOK
  <2>3. Attempts!AttemptsAreStaged'
    <3>1. v18 = {}
      BY NothingIsUnresolved
    <3>2. v12' # 0 /\ v10' = "selected" /\ v17' = Attempts!NoReport /\ v18' = {} /\ v3'.attempt = 0
      BY <3>1 DEF Attempts!TypeOK, Attempts!CountsOK
    <3> QED
      BY <3>2 DEF Attempts!AttemptsAreStaged
  <2>4. Attempts!EffectsAreRecorded'
    BY DEF Attempts!RecoverySelection, Attempts!EffectsAreRecorded, Attempts!TypeOK,
       Attempts!StepsOK, Attempts!AttemptsAreStaged, Attempts!CopyMayLast
  <2>5. Attempts!ReportsAreTrue'
    BY NoReportIsNone DEF Attempts!RecoverySelection, Attempts!ReportsAreTrue,
       Attempts!TypeOK, Attempts!StepsOK, Attempts!AttemptsAreStaged, Attempts!CountsOK
  <2>6. Attempts!PendingIsKept'
    BY DEF Attempts!RecoverySelection, Attempts!PendingIsKept, Attempts!TypeOK,
       Attempts!StepsOK, Attempts!CopyMayLast, Attempts!AttemptsAreStaged
  <2> QED
    BY <2>1, <2>2, <2>3, <2>4, <2>5, <2>6
<1>9. ASSUME NEW d \in SUBSET Directories, Attempts!Diagnose(d) PROVE Attempts!IInv'
  <2> USE <1>9 DEF Attempts!Diagnose, Attempts!Offers, Attempts!Opens, Attempts!TypeOK
  <2>1. Attempts!TypeOK'
    <3>1. Attempts!RecordOK'
      BY DEF Attempts!RecordOK
    <3>2. Attempts!FilesOK'
      BY DEF Attempts!FilesOK, Attempts!CountsOK, Attempts!StepsOK
    <3>3. Attempts!StepsOK'
      BY NoReportIsNone DEF Attempts!StepsOK, Attempts!CountsOK, Attempts!Outcomes
    <3>4. Attempts!CountsOK'
      BY DEF Attempts!CountsOK
    <3> QED
      BY <3>1, <3>2, <3>3, <3>4
  <2>2. Attempts!CopyMayLast'
    BY DEF Attempts!CopyMayLast, Attempts!StepsOK
  <2>3. Attempts!AttemptsAreStaged'
    BY DEF Attempts!AttemptsAreStaged, Attempts!StepsOK, Attempts!CopyMayLast,
       Attempts!CountsOK
  <2>4. Attempts!EffectsAreRecorded'
    BY DEF Attempts!EffectsAreRecorded, Attempts!StepsOK, Attempts!AttemptsAreStaged,
       Attempts!CopyMayLast
  <2>5. Attempts!ReportsAreTrue'
    BY NoReportIsNone DEF Attempts!ReportsAreTrue, Attempts!StepsOK,
       Attempts!AttemptsAreStaged, Attempts!CountsOK
  <2>6. Attempts!PendingIsKept'
    BY DEF Attempts!PendingIsKept, Attempts!StepsOK, Attempts!CopyMayLast,
       Attempts!AttemptsAreStaged
  <2> QED
    BY <2>1, <2>2, <2>3, <2>4, <2>5, <2>6
<1>10. CASE Attempts!GivesUp
  <2> USE DEF Attempts!TypeOK
  <2>1. Attempts!TypeOK'
    <3>1. Attempts!RecordOK'
      BY <1>10 DEF Attempts!GivesUp, Attempts!Rests, Attempts!Shows, Attempts!RecordOK
    <3>2. Attempts!FilesOK'
      BY <1>10 DEF Attempts!GivesUp, Attempts!Rests, Attempts!Shows, Attempts!FilesOK,
         Attempts!CountsOK, Attempts!StepsOK
    <3>3. Attempts!StepsOK'
      BY <1>10, NoReportIsNone DEF Attempts!GivesUp, Attempts!Rests, Attempts!Shows,
         Attempts!StepsOK, Attempts!CountsOK, Attempts!Outcomes
    <3>4. Attempts!CountsOK'
      <4> USE DEF Attempts!CountsOK
      <4>1. /\ v7' \in Attempts!Bases /\ v13' \in Attempts!Bases
            /\ v12' \in {0} \cup Attempts!Attempts
        BY <1>10 DEF Attempts!GivesUp, Attempts!Rests, Attempts!Shows
      <4>2. v15' = v15 \/ v15' = 0 \/ v15' = 1
        BY <1>10 DEF Attempts!GivesUp, Attempts!Rests, Attempts!Shows
      <4>3. v15' \in 0 .. 3
        BY <4>2
      <4>4. v18' \subseteq Attempts!Attempts /\ v20' \in 0 .. MaxLoss
        BY <1>10 DEF Attempts!GivesUp, Attempts!Rests, Attempts!Shows
      <4> QED
        BY <4>1, <4>2, <4>3, <4>4, BoundsAreNumbers
    <3> QED
      BY <1>10, <3>1, <3>2, <3>3, <3>4 DEF Attempts!GivesUp, Attempts!Rests, Attempts!Shows
  <2>2. Attempts!CopyMayLast'
    BY <1>10 DEF Attempts!GivesUp, Attempts!Rests, Attempts!Shows, Attempts!CopyMayLast,
       Attempts!StepsOK
  <2>3. Attempts!AttemptsAreStaged'
    BY <1>10 DEF Attempts!GivesUp, Attempts!Rests, Attempts!Shows,
       Attempts!AttemptsAreStaged, Attempts!StepsOK, Attempts!CopyMayLast, Attempts!CountsOK
  <2>4. Attempts!EffectsAreRecorded'
    BY <1>10 DEF Attempts!GivesUp, Attempts!Rests, Attempts!Shows,
       Attempts!EffectsAreRecorded, Attempts!StepsOK, Attempts!AttemptsAreStaged,
       Attempts!CopyMayLast
  <2>5. Attempts!ReportsAreTrue'
    BY <1>10, NoReportIsNone DEF Attempts!GivesUp, Attempts!Rests, Attempts!Shows,
       Attempts!ReportsAreTrue, Attempts!StepsOK, Attempts!AttemptsAreStaged,
       Attempts!CountsOK
  <2>6. Attempts!PendingIsKept'
    BY <1>10 DEF Attempts!GivesUp, Attempts!Rests, Attempts!Shows, Attempts!PendingIsKept,
       Attempts!StepsOK, Attempts!CopyMayLast, Attempts!AttemptsAreStaged
  <2> QED
    BY <2>1, <2>2, <2>3, <2>4, <2>5, <2>6
<1>11. CASE Attempts!Stages
  <2>1. Attempts!TypeOK'
    <3>1. Attempts!RecordOK'
      <4>1. v3 \in Attempts!Records /\ v3 \in v2 /\ v12 \in {0} \cup Attempts!Attempts
        BY DEF Attempts!TypeOK, Attempts!RecordOK, Attempts!CountsOK, Attempts!CopyMayLast
      <4>2. [v3 EXCEPT !.attempt = v12] \in Attempts!Records
        BY <4>1, RecordsChange
      <4>3. \/ UNCHANGED <<v1, v2, v3, v4>>
            \/ Attempts!Written([v3 EXCEPT !.attempt = v12]) \/ Attempts!WriteFails([v3 EXCEPT !.attempt = v12])
        BY <1>11 DEF Attempts!Stages
      <4>4. CASE UNCHANGED <<v1, v2, v3, v4>>
        BY <1>11, <4>4 DEF Attempts!Stages, Attempts!TypeOK, Attempts!RecordOK
      <4>5. CASE Attempts!Written([v3 EXCEPT !.attempt = v12]) \/ Attempts!WriteFails([v3 EXCEPT !.attempt = v12])
        BY <4>2, <4>5, WritesKeep DEF Attempts!TypeOK
      <4> QED
        BY <4>3, <4>4, <4>5
    <3>2. Attempts!FilesOK'
      BY <1>11 DEF Attempts!Stages, Attempts!Rests, Attempts!Shows, Attempts!Written,
         Attempts!WriteFails, Attempts!FilesOK, Attempts!CountsOK, Attempts!StepsOK,
         Attempts!TypeOK
    <3>3. Attempts!StepsOK'
      <4>1. \E s \in Attempts!Outcomes : Attempts!Shows(s) \/ UNCHANGED v17
        BY <1>11 DEF Attempts!Stages, Attempts!Rests, Attempts!Shows, Attempts!Written,
           Attempts!WriteFails, Attempts!Outcomes, Attempts!TypeOK, Attempts!StepsOK
      <4>2. v17' \in [operation : {0} \cup Attempts!Attempts, status : Attempts!Outcomes]
        BY <4>1, ShownIsReported DEF Attempts!TypeOK, Attempts!StepsOK
      <4> QED
        BY <1>11, <4>2 DEF Attempts!Stages, Attempts!Rests, Attempts!Shows,
           Attempts!Written, Attempts!WriteFails, Attempts!TypeOK, Attempts!StepsOK,
           Attempts!Outcomes
    <3>4. Attempts!CountsOK'
      <4> USE DEF Attempts!CountsOK, Attempts!TypeOK
      <4>1. /\ v7' \in Attempts!Bases /\ v13' \in Attempts!Bases
            /\ v12' \in {0} \cup Attempts!Attempts
        BY <1>11 DEF Attempts!Stages, Attempts!Rests, Attempts!Shows, Attempts!Written,
           Attempts!WriteFails
      <4>2. v15' = v15 \/ v15' = 0 \/ v15' = 1
        BY <1>11 DEF Attempts!Stages, Attempts!Rests, Attempts!Shows, Attempts!Written,
           Attempts!WriteFails
      <4>3. v15' \in 0 .. 3
        BY <4>2
      <4>4. v18' \subseteq Attempts!Attempts /\ v20' \in 0 .. MaxLoss
        BY <1>11 DEF Attempts!Stages, Attempts!Rests, Attempts!Shows, Attempts!Written,
           Attempts!WriteFails
      <4> QED
        BY <4>1, <4>2, <4>3, <4>4, BoundsAreNumbers
    <3> QED
      BY <1>11, <3>1, <3>2, <3>3, <3>4 DEF Attempts!Stages, Attempts!Rests, Attempts!Shows,
         Attempts!Written, Attempts!WriteFails, Attempts!TypeOK
  <2>2. Attempts!CopyMayLast'
    <3>1. v3 \in Attempts!Records /\ v3 \in v2 /\ v12 \in {0} \cup Attempts!Attempts
      BY DEF Attempts!TypeOK, Attempts!RecordOK, Attempts!CountsOK, Attempts!CopyMayLast
    <3>2. [v3 EXCEPT !.attempt = v12] \in Attempts!Records
      BY <3>1, RecordsChange
    <3>3. \/ UNCHANGED <<v1, v2, v3, v4>>
          \/ Attempts!Written([v3 EXCEPT !.attempt = v12]) \/ Attempts!WriteFails([v3 EXCEPT !.attempt = v12])
      BY <1>11 DEF Attempts!Stages
    <3>4. CASE UNCHANGED <<v1, v2, v3, v4>>
      BY <1>11, <3>4 DEF Attempts!Stages, Attempts!TypeOK, Attempts!CopyMayLast
    <3>5. CASE Attempts!Written([v3 EXCEPT !.attempt = v12]) \/ Attempts!WriteFails([v3 EXCEPT !.attempt = v12])
      BY <3>2, <3>5, WritesKeep DEF Attempts!TypeOK
    <3> QED
      BY <3>3, <3>4, <3>5
  <2>3. Attempts!AttemptsAreStaged'
    <3>1. CASE Attempts!Rests
      BY <3>1 DEF Attempts!Rests, Attempts!AttemptsAreStaged
    <3>2. CASE Attempts!Written([v3 EXCEPT !.attempt = v12]) /\ v10' = "staged"
      <4>1. v3 \in Attempts!Records /\ v12 \in {0} \cup Attempts!Attempts
        BY DEF Attempts!TypeOK, Attempts!RecordOK, Attempts!CountsOK
      <4>2. v3'.attempt = v12 /\ v2' = {v3'} /\ ~ v4'
        <5>1. [v3 EXCEPT !.attempt = v12].attempt = v12
          BY <4>1 DEF Attempts!Records
        <5>2. /\ v3' = [v3 EXCEPT !.attempt = v12] /\ ~ v4'
              /\ v2' = {[v3 EXCEPT !.attempt = v12]}
          BY Zenon, <3>2 DEF Attempts!Written
        <5> QED
          BY Zenon, <5>1, <5>2
      <4>3. UNCHANGED <<v12, v18, v17>> /\ v10 = "selected"
        BY <1>11, <3>2 DEF Attempts!Stages, Attempts!Rests
      <4> QED
        BY <3>2, <4>2, <4>3 DEF Attempts!AttemptsAreStaged
    <3> QED
      BY <1>11, <3>1, <3>2 DEF Attempts!Stages
  <2>4. Attempts!EffectsAreRecorded'
    <3>1. v18' = {}
      BY <1>11, NothingIsUnresolved DEF Attempts!Stages, Attempts!AttemptsAreStaged
    <3> QED
      BY <3>1 DEF Attempts!EffectsAreRecorded
  <2>5. Attempts!ReportsAreTrue'
    <3>1. v17'.status \in {"none", "failed"}
      <4>1. CASE Attempts!Shows("failed")
        BY <4>1, ShownIsReported DEF Attempts!Outcomes
      <4>2. CASE UNCHANGED v17
        BY <1>11, <4>2, NoReportIsNone DEF Attempts!Stages, Attempts!AttemptsAreStaged
      <4> QED
        BY <1>11, <4>1, <4>2 DEF Attempts!Stages
    <3> QED
      BY <3>1 DEF Attempts!ReportsAreTrue
  <2>6. Attempts!PendingIsKept'
    <3>1. v3 \in Attempts!Records /\ v3 \in v2 /\ v12 \in {0} \cup Attempts!Attempts
      BY DEF Attempts!TypeOK, Attempts!RecordOK, Attempts!CountsOK, Attempts!CopyMayLast
    <3>2. [v3 EXCEPT !.attempt = v12] \in Attempts!Records
      BY <3>1, RecordsChange
    <3>3. \/ UNCHANGED <<v1, v2, v3, v4>>
          \/ Attempts!Written([v3 EXCEPT !.attempt = v12]) \/ Attempts!WriteFails([v3 EXCEPT !.attempt = v12])
      BY <1>11 DEF Attempts!Stages
    <3>4. CASE UNCHANGED <<v1, v2, v3, v4>>
      BY <1>11, <3>4 DEF Attempts!Stages, Attempts!TypeOK, Attempts!PendingIsKept
    <3>5. CASE Attempts!Written([v3 EXCEPT !.attempt = v12]) \/ Attempts!WriteFails([v3 EXCEPT !.attempt = v12])
      <4>1. v2' \subseteq v2 \cup {[v3 EXCEPT !.attempt = v12]}
        BY <3>2, <3>5, WritesKeep DEF Attempts!TypeOK
      <4>2. v19 => v19'
        BY <1>11 DEF Attempts!Stages
      <4>3. v3.pending \/ v3.handed => [v3 EXCEPT !.attempt = v12].pending \/ [v3 EXCEPT !.attempt = v12].handed
        BY <3>1, RecordsChange
      <4>4. v19 \/ v3.pending \/ v3.handed
        BY <3>1 DEF Attempts!PendingIsKept
      <4>5. v19' \/ [v3 EXCEPT !.attempt = v12].pending \/ [v3 EXCEPT !.attempt = v12].handed
        BY Zenon, <4>2, <4>3, <4>4
      <4> QED
        BY Zenon, <4>1, <4>2, <4>5, PendingLasts
    <3> QED
      BY <3>3, <3>4, <3>5
  <2> QED
    BY <2>1, <2>2, <2>3, <2>4, <2>5, <2>6
<1>12. CASE Attempts!Commits
  <2>1. Attempts!TypeOK'
    <3>1. Attempts!RecordOK'
      <4>1. v3 \in Attempts!Records /\ v3 \in v2 /\ v12 \in {0} \cup Attempts!Attempts
        BY DEF Attempts!TypeOK, Attempts!RecordOK, Attempts!CountsOK, Attempts!CopyMayLast
      <4>2. [v3 EXCEPT !.attempt = 0] \in Attempts!Records
        BY <4>1, RecordsChange
      <4>3. \/ UNCHANGED <<v1, v2, v3, v4>>
            \/ Attempts!Written([v3 EXCEPT !.attempt = 0]) \/ Attempts!WriteFails([v3 EXCEPT !.attempt = 0])
        BY <1>12 DEF Attempts!Commits
      <4>4. CASE UNCHANGED <<v1, v2, v3, v4>>
        BY <1>12, <4>4 DEF Attempts!Commits, Attempts!TypeOK, Attempts!RecordOK
      <4>5. CASE Attempts!Written([v3 EXCEPT !.attempt = 0]) \/ Attempts!WriteFails([v3 EXCEPT !.attempt = 0])
        BY <4>2, <4>5, WritesKeep DEF Attempts!TypeOK
      <4> QED
        BY <4>3, <4>4, <4>5
    <3>2. Attempts!FilesOK'
      BY <1>12 DEF Attempts!Commits, Attempts!Rests, Attempts!Shows, Attempts!Written,
         Attempts!WriteFails, Attempts!FilesOK, Attempts!CountsOK, Attempts!StepsOK,
         Attempts!TypeOK
    <3>3. Attempts!StepsOK'
      <4>1. \E s \in Attempts!Outcomes : Attempts!Shows(s) \/ UNCHANGED v17
        BY <1>12 DEF Attempts!Commits, Attempts!Rests, Attempts!Shows, Attempts!Written,
           Attempts!WriteFails, Attempts!Outcomes, Attempts!TypeOK, Attempts!StepsOK
      <4>2. v17' \in [operation : {0} \cup Attempts!Attempts, status : Attempts!Outcomes]
        BY <4>1, ShownIsReported DEF Attempts!TypeOK, Attempts!StepsOK
      <4> QED
        BY <1>12, <4>2 DEF Attempts!Commits, Attempts!Rests, Attempts!Shows,
           Attempts!Written, Attempts!WriteFails, Attempts!TypeOK, Attempts!StepsOK,
           Attempts!Outcomes
    <3>4. Attempts!CountsOK'
      <4> USE DEF Attempts!CountsOK, Attempts!TypeOK
      <4>1. /\ v7' \in Attempts!Bases /\ v13' \in Attempts!Bases
            /\ v12' \in {0} \cup Attempts!Attempts
        BY <1>12 DEF Attempts!Commits, Attempts!Rests, Attempts!Shows, Attempts!Written,
           Attempts!WriteFails
      <4>2. v15' = v15 \/ v15' = 0 \/ v15' = 1
        BY <1>12 DEF Attempts!Commits, Attempts!Rests, Attempts!Shows, Attempts!Written,
           Attempts!WriteFails
      <4>3. v15' \in 0 .. 3
        BY <4>2
      <4>4. v18' \subseteq Attempts!Attempts /\ v20' \in 0 .. MaxLoss
        BY <1>12 DEF Attempts!Commits, Attempts!Rests, Attempts!Shows, Attempts!Written,
           Attempts!WriteFails
      <4> QED
        BY <4>1, <4>2, <4>3, <4>4, BoundsAreNumbers
    <3> QED
      BY <1>12, <3>1, <3>2, <3>3, <3>4 DEF Attempts!Commits, Attempts!Rests, Attempts!Shows,
         Attempts!Written, Attempts!WriteFails, Attempts!TypeOK
  <2>2. Attempts!CopyMayLast'
    <3>1. v3 \in Attempts!Records /\ v3 \in v2 /\ v12 \in {0} \cup Attempts!Attempts
      BY DEF Attempts!TypeOK, Attempts!RecordOK, Attempts!CountsOK, Attempts!CopyMayLast
    <3>2. [v3 EXCEPT !.attempt = 0] \in Attempts!Records
      BY <3>1, RecordsChange
    <3>3. \/ UNCHANGED <<v1, v2, v3, v4>>
          \/ Attempts!Written([v3 EXCEPT !.attempt = 0]) \/ Attempts!WriteFails([v3 EXCEPT !.attempt = 0])
      BY <1>12 DEF Attempts!Commits
    <3>4. CASE UNCHANGED <<v1, v2, v3, v4>>
      BY <1>12, <3>4 DEF Attempts!Commits, Attempts!TypeOK, Attempts!CopyMayLast
    <3>5. CASE Attempts!Written([v3 EXCEPT !.attempt = 0]) \/ Attempts!WriteFails([v3 EXCEPT !.attempt = 0])
      BY <3>2, <3>5, WritesKeep DEF Attempts!TypeOK
    <3> QED
      BY <3>3, <3>4, <3>5
  <2>3. Attempts!AttemptsAreStaged'
    BY <1>12 DEF Attempts!Commits, Attempts!Rests, Attempts!Shows, Attempts!Written,
       Attempts!WriteFails, Attempts!AttemptsAreStaged, Attempts!TypeOK, Attempts!StepsOK,
       Attempts!CopyMayLast, Attempts!CountsOK
  <2>4. Attempts!EffectsAreRecorded'
    BY <1>12 DEF Attempts!Commits, Attempts!Rests, Attempts!Shows, Attempts!Written,
       Attempts!WriteFails, Attempts!EffectsAreRecorded, Attempts!TypeOK, Attempts!StepsOK,
       Attempts!AttemptsAreStaged, Attempts!CopyMayLast
  <2>5. Attempts!ReportsAreTrue'
    <3>1. /\ v10 \in {"staged"} /\ UNCHANGED <<v12, v18>> /\ v12 \notin v18
      BY <1>12 DEF Attempts!Commits, Attempts!AttemptsAreStaged
    <3>2. v17'.status \in {"none", "not attempted"}
      <4>1. CASE Attempts!Shows("not attempted")
        BY <4>1, ShownIsReported DEF Attempts!Outcomes
      <4>2. CASE UNCHANGED v17
        BY <1>12, <4>2, NoReportIsNone DEF Attempts!Commits, Attempts!AttemptsAreStaged
      <4> QED
        BY <1>12, <4>1, <4>2 DEF Attempts!Commits
    <3> QED
      BY <3>1, <3>2 DEF Attempts!ReportsAreTrue
  <2>6. Attempts!PendingIsKept'
    <3>1. v3 \in Attempts!Records /\ v3 \in v2 /\ v12 \in {0} \cup Attempts!Attempts
      BY DEF Attempts!TypeOK, Attempts!RecordOK, Attempts!CountsOK, Attempts!CopyMayLast
    <3>2. [v3 EXCEPT !.attempt = 0] \in Attempts!Records
      BY <3>1, RecordsChange
    <3>3. \/ UNCHANGED <<v1, v2, v3, v4>>
          \/ Attempts!Written([v3 EXCEPT !.attempt = 0]) \/ Attempts!WriteFails([v3 EXCEPT !.attempt = 0])
      BY <1>12 DEF Attempts!Commits
    <3>4. CASE UNCHANGED <<v1, v2, v3, v4>>
      BY <1>12, <3>4 DEF Attempts!Commits, Attempts!TypeOK, Attempts!PendingIsKept
    <3>5. CASE Attempts!Written([v3 EXCEPT !.attempt = 0]) \/ Attempts!WriteFails([v3 EXCEPT !.attempt = 0])
      <4>1. v2' \subseteq v2 \cup {[v3 EXCEPT !.attempt = 0]}
        BY <3>2, <3>5, WritesKeep DEF Attempts!TypeOK
      <4>2. v19 => v19'
        BY <1>12 DEF Attempts!Commits
      <4>3. v3.pending \/ v3.handed => [v3 EXCEPT !.attempt = 0].pending \/ [v3 EXCEPT !.attempt = 0].handed
        BY <3>1, RecordsChange
      <4>4. v19 \/ v3.pending \/ v3.handed
        BY <3>1 DEF Attempts!PendingIsKept
      <4>5. v19' \/ [v3 EXCEPT !.attempt = 0].pending \/ [v3 EXCEPT !.attempt = 0].handed
        BY Zenon, <4>2, <4>3, <4>4
      <4> QED
        BY Zenon, <4>1, <4>2, <4>5, PendingLasts
    <3> QED
      BY <3>3, <3>4, <3>5
  <2> QED
    BY <2>1, <2>2, <2>3, <2>4, <2>5, <2>6
<1>13. CASE Attempts!Checks
  <2>1. Attempts!TypeOK'
    <3>1. Attempts!RecordOK'
      BY <1>13 DEF Attempts!Checks, Attempts!RecordOK, Attempts!TypeOK
    <3>2. Attempts!FilesOK'
      BY <1>13 DEF Attempts!Checks, Attempts!FilesOK, Attempts!CountsOK, Attempts!StepsOK,
         Attempts!TypeOK
    <3>3. Attempts!StepsOK'
      BY ZenonT(40), <1>13, NoReportIsNone DEF Attempts!Checks, Attempts!StepsOK, Attempts!CountsOK,
         Attempts!TypeOK, Attempts!Outcomes
    <3>4. Attempts!CountsOK'
      <4>1. v18' \subseteq v18 \cup {v12} /\ v12 # 0
        BY <1>13 DEF Attempts!Checks, Attempts!AttemptsAreStaged
      <4>2. v12 \in Attempts!Attempts
        BY <4>1 DEF Attempts!TypeOK, Attempts!CountsOK
      <4> QED
        BY <1>13, <4>1, <4>2 DEF Attempts!Checks, Attempts!TypeOK, Attempts!CountsOK
    <3> QED
      BY <1>13, <3>1, <3>2, <3>3, <3>4 DEF Attempts!Checks, Attempts!TypeOK
  <2>2. Attempts!CopyMayLast'
    BY <1>13 DEF Attempts!Checks, Attempts!CopyMayLast, Attempts!TypeOK, Attempts!StepsOK
  <2>3. Attempts!AttemptsAreStaged'
    BY <1>13 DEF Attempts!Checks, Attempts!AttemptsAreStaged, Attempts!TypeOK,
       Attempts!StepsOK, Attempts!CopyMayLast, Attempts!CountsOK
  <2>4. Attempts!EffectsAreRecorded'
    BY <1>13 DEF Attempts!Checks, Attempts!EffectsAreRecorded, Attempts!TypeOK,
       Attempts!StepsOK, Attempts!AttemptsAreStaged, Attempts!CopyMayLast
  <2>5. Attempts!ReportsAreTrue'
    BY <1>13, NoReportIsNone DEF Attempts!Checks, Attempts!ReportsAreTrue, Attempts!TypeOK,
       Attempts!StepsOK, Attempts!AttemptsAreStaged, Attempts!CountsOK
  <2>6. Attempts!PendingIsKept'
    BY <1>13 DEF Attempts!Checks, Attempts!PendingIsKept, Attempts!TypeOK, Attempts!StepsOK,
       Attempts!CopyMayLast, Attempts!AttemptsAreStaged
  <2> QED
    BY <2>1, <2>2, <2>3, <2>4, <2>5, <2>6
<1>14. CASE Attempts!Publishes
  <2>1. Attempts!TypeOK'
    <3> USE <1>14 DEF Attempts!Publishes, Attempts!TypeOK
    <3>1. Attempts!RecordOK'
      BY DEF Attempts!RecordOK
    <3>2. Attempts!FilesOK'
      BY DEF Attempts!FilesOK, Attempts!CountsOK, Attempts!StepsOK
    <3>3. Attempts!StepsOK'
      BY NoReportIsNone DEF Attempts!StepsOK, Attempts!CountsOK, Attempts!Outcomes
    <3>4. Attempts!CountsOK'
      BY DEF Attempts!CountsOK
    <3> QED
      BY <3>1, <3>2, <3>3, <3>4
  <2>2. Attempts!CopyMayLast'
    BY <1>14 DEF Attempts!Publishes, Attempts!CopyMayLast, Attempts!TypeOK, Attempts!StepsOK
  <2>3. Attempts!AttemptsAreStaged'
    <3>1. v16' = "verified" => v6'[v14] = {v13}
      BY <1>14 DEF Attempts!Publishes, Attempts!TypeOK, Attempts!FilesOK, Attempts!StepsOK
    <3>2. /\ UNCHANGED <<v1, v2, v3, v4, v12, v13, v14, v17>>
          /\ v10 = "writing" /\ v10' = "deciding"
      BY <1>14 DEF Attempts!Publishes
    <3> QED
      BY <3>1, <3>2 DEF Attempts!AttemptsAreStaged
  <2>4. Attempts!EffectsAreRecorded'
    BY <1>14 DEF Attempts!Publishes, Attempts!EffectsAreRecorded, Attempts!TypeOK,
       Attempts!StepsOK, Attempts!AttemptsAreStaged, Attempts!CopyMayLast
  <2>5. Attempts!ReportsAreTrue'
    BY <1>14, NoReportIsNone DEF Attempts!Publishes, Attempts!ReportsAreTrue,
       Attempts!TypeOK, Attempts!StepsOK, Attempts!AttemptsAreStaged, Attempts!CountsOK
  <2>6. Attempts!PendingIsKept'
    BY <1>14 DEF Attempts!Publishes, Attempts!PendingIsKept, Attempts!TypeOK,
       Attempts!StepsOK, Attempts!CopyMayLast, Attempts!AttemptsAreStaged
  <2> QED
    BY <2>1, <2>2, <2>3, <2>4, <2>5, <2>6
<1>15. CASE Attempts!Finishes
  <2>1. Attempts!TypeOK'
    <3>1. Attempts!RecordOK'
      <4>1. v3 \in Attempts!Records /\ v3 \in v2 /\ v12 \in {0} \cup Attempts!Attempts
        BY DEF Attempts!TypeOK, Attempts!RecordOK, Attempts!CountsOK, Attempts!CopyMayLast
      <4>2. [v3 EXCEPT !.attempt = 0] \in Attempts!Records
        BY <4>1, RecordsChange
      <4>3. \/ UNCHANGED <<v1, v2, v3, v4>>
            \/ Attempts!Written([v3 EXCEPT !.attempt = 0]) \/ Attempts!WriteFails([v3 EXCEPT !.attempt = 0])
        BY <1>15 DEF Attempts!Finishes
      <4>4. CASE UNCHANGED <<v1, v2, v3, v4>>
        BY <1>15, <4>4 DEF Attempts!Finishes, Attempts!TypeOK, Attempts!RecordOK
      <4>5. CASE Attempts!Written([v3 EXCEPT !.attempt = 0]) \/ Attempts!WriteFails([v3 EXCEPT !.attempt = 0])
        BY <4>2, <4>5, WritesKeep DEF Attempts!TypeOK
      <4> QED
        BY <4>3, <4>4, <4>5
    <3>2. Attempts!FilesOK'
      BY <1>15 DEF Attempts!Finishes, Attempts!Rests, Attempts!Shows, Attempts!Opens,
         Attempts!Definitive, Attempts!Written, Attempts!WriteFails, Attempts!FilesOK,
         Attempts!CountsOK, Attempts!StepsOK, Attempts!TypeOK
    <3>3. Attempts!StepsOK'
      <4>1. \E s \in Attempts!Outcomes : Attempts!Shows(s) \/ UNCHANGED v17
        BY <1>15 DEF Attempts!Finishes, Attempts!Rests, Attempts!Shows, Attempts!Opens,
           Attempts!Definitive, Attempts!Written, Attempts!WriteFails, Attempts!Outcomes,
           Attempts!TypeOK, Attempts!StepsOK
      <4>2. v17' \in [operation : {0} \cup Attempts!Attempts, status : Attempts!Outcomes]
        BY <4>1, ShownIsReported DEF Attempts!TypeOK, Attempts!StepsOK
      <4> QED
        BY <1>15, <4>2 DEF Attempts!Finishes, Attempts!Rests, Attempts!Shows,
           Attempts!Opens, Attempts!Definitive, Attempts!Written, Attempts!WriteFails,
           Attempts!TypeOK, Attempts!StepsOK, Attempts!Outcomes
    <3>4. Attempts!CountsOK'
      <4> USE DEF Attempts!CountsOK, Attempts!TypeOK
      <4>1. /\ v7' \in Attempts!Bases /\ v13' \in Attempts!Bases
            /\ v12' \in {0} \cup Attempts!Attempts
        BY <1>15 DEF Attempts!Finishes, Attempts!Rests, Attempts!Shows, Attempts!Opens,
           Attempts!Definitive, Attempts!Written, Attempts!WriteFails
      <4>2. v15' = v15 \/ v15' = 0 \/ v15' = 1
        BY <1>15 DEF Attempts!Finishes, Attempts!Rests, Attempts!Shows, Attempts!Opens,
           Attempts!Definitive, Attempts!Written, Attempts!WriteFails
      <4>3. v15' \in 0 .. 3
        BY <4>2
      <4>4. v18' \subseteq Attempts!Attempts /\ v20' \in 0 .. MaxLoss
        BY <1>15 DEF Attempts!Finishes, Attempts!Rests, Attempts!Shows, Attempts!Opens,
           Attempts!Definitive, Attempts!Written, Attempts!WriteFails
      <4> QED
        BY <4>1, <4>2, <4>3, <4>4, BoundsAreNumbers
    <3> QED
      BY <1>15, <3>1, <3>2, <3>3, <3>4 DEF Attempts!Finishes, Attempts!Rests,
         Attempts!Shows, Attempts!Opens, Attempts!Definitive, Attempts!Written,
         Attempts!WriteFails, Attempts!TypeOK
  <2>2. Attempts!CopyMayLast'
    <3>1. v3 \in Attempts!Records /\ v3 \in v2 /\ v12 \in {0} \cup Attempts!Attempts
      BY DEF Attempts!TypeOK, Attempts!RecordOK, Attempts!CountsOK, Attempts!CopyMayLast
    <3>2. [v3 EXCEPT !.attempt = 0] \in Attempts!Records
      BY <3>1, RecordsChange
    <3>3. \/ UNCHANGED <<v1, v2, v3, v4>>
          \/ Attempts!Written([v3 EXCEPT !.attempt = 0]) \/ Attempts!WriteFails([v3 EXCEPT !.attempt = 0])
      BY <1>15 DEF Attempts!Finishes
    <3>4. CASE UNCHANGED <<v1, v2, v3, v4>>
      BY <1>15, <3>4 DEF Attempts!Finishes, Attempts!TypeOK, Attempts!CopyMayLast
    <3>5. CASE Attempts!Written([v3 EXCEPT !.attempt = 0]) \/ Attempts!WriteFails([v3 EXCEPT !.attempt = 0])
      BY <3>2, <3>5, WritesKeep DEF Attempts!TypeOK
    <3> QED
      BY <3>3, <3>4, <3>5
  <2>3. Attempts!AttemptsAreStaged'
    BY <1>15 DEF Attempts!Finishes, Attempts!Rests, Attempts!Shows, Attempts!Opens,
       Attempts!Definitive, Attempts!Written, Attempts!WriteFails,
       Attempts!AttemptsAreStaged, Attempts!TypeOK, Attempts!StepsOK, Attempts!CopyMayLast,
       Attempts!CountsOK
  <2>4. Attempts!EffectsAreRecorded'
    BY <1>15 DEF Attempts!Finishes, Attempts!Rests, Attempts!Shows, Attempts!Opens,
       Attempts!Definitive, Attempts!Written, Attempts!WriteFails,
       Attempts!EffectsAreRecorded, Attempts!TypeOK, Attempts!StepsOK,
       Attempts!AttemptsAreStaged, Attempts!CopyMayLast
  <2>5. Attempts!ReportsAreTrue'
    <3>1. /\ v10 = "deciding" /\ UNCHANGED <<v6, v12, v13, v14>> /\ v16 \in Attempts!Outcomes
      BY <1>15 DEF Attempts!Finishes, Attempts!TypeOK, Attempts!StepsOK
    <3>2. v16 = "verified" => v6[v14] = {v13}
      BY <3>1 DEF Attempts!AttemptsAreStaged
    <3>3. v16 = "not attempted" => v12 \notin v18'
      BY <1>15 DEF Attempts!Finishes
    <3>4. v17'.status = v16 \/ v17'.status = "failed"
      <4>1. CASE Attempts!Shows("failed")
        BY <4>1, ShownIsReported DEF Attempts!Outcomes
      <4>2. CASE Attempts!Shows(v16)
        BY <3>1, <4>2, ShownIsReported
      <4> QED
        BY <1>15, <4>1, <4>2 DEF Attempts!Finishes
    <3> QED
      BY <3>1, <3>2, <3>3, <3>4 DEF Attempts!ReportsAreTrue
  <2>6. Attempts!PendingIsKept'
    <3>1. v3 \in Attempts!Records /\ v3 \in v2 /\ v12 \in {0} \cup Attempts!Attempts
      BY DEF Attempts!TypeOK, Attempts!RecordOK, Attempts!CountsOK, Attempts!CopyMayLast
    <3>2. [v3 EXCEPT !.attempt = 0] \in Attempts!Records
      BY <3>1, RecordsChange
    <3>3. \/ UNCHANGED <<v1, v2, v3, v4>>
          \/ Attempts!Written([v3 EXCEPT !.attempt = 0]) \/ Attempts!WriteFails([v3 EXCEPT !.attempt = 0])
      BY <1>15 DEF Attempts!Finishes
    <3>4. CASE UNCHANGED <<v1, v2, v3, v4>>
      BY <1>15, <3>4 DEF Attempts!Finishes, Attempts!TypeOK, Attempts!PendingIsKept
    <3>5. CASE Attempts!Written([v3 EXCEPT !.attempt = 0]) \/ Attempts!WriteFails([v3 EXCEPT !.attempt = 0])
      <4>1. v2' \subseteq v2 \cup {[v3 EXCEPT !.attempt = 0]}
        BY <3>2, <3>5, WritesKeep DEF Attempts!TypeOK
      <4>2. v19 => v19'
        BY <1>15 DEF Attempts!Finishes
      <4>3. v3.pending \/ v3.handed => [v3 EXCEPT !.attempt = 0].pending \/ [v3 EXCEPT !.attempt = 0].handed
        BY <3>1, RecordsChange
      <4>4. v19 \/ v3.pending \/ v3.handed
        BY <3>1 DEF Attempts!PendingIsKept
      <4>5. v19' \/ [v3 EXCEPT !.attempt = 0].pending \/ [v3 EXCEPT !.attempt = 0].handed
        BY Zenon, <4>2, <4>3, <4>4
      <4> QED
        BY Zenon, <4>1, <4>2, <4>5, PendingLasts
    <3> QED
      BY <3>3, <3>4, <3>5
  <2> QED
    BY <2>1, <2>2, <2>3, <2>4, <2>5, <2>6
<1>16. CASE Attempts!Acknowledge
  <2>1. Attempts!TypeOK'
    <3>1. Attempts!RecordOK'
      <4>1. v3 \in Attempts!Records /\ v3 \in v2 /\ v12 \in {0} \cup Attempts!Attempts
        BY DEF Attempts!TypeOK, Attempts!RecordOK, Attempts!CountsOK, Attempts!CopyMayLast
      <4>2. [v3 EXCEPT !.attempt = 0] \in Attempts!Records
        BY <4>1, RecordsChange
      <4>3. \/ UNCHANGED <<v1, v2, v3, v4>>
            \/ Attempts!Written([v3 EXCEPT !.attempt = 0]) \/ Attempts!WriteFails([v3 EXCEPT !.attempt = 0])
        BY <1>16 DEF Attempts!Acknowledge
      <4>4. CASE UNCHANGED <<v1, v2, v3, v4>>
        BY <1>16, <4>4 DEF Attempts!Acknowledge, Attempts!TypeOK, Attempts!RecordOK
      <4>5. CASE Attempts!Written([v3 EXCEPT !.attempt = 0]) \/ Attempts!WriteFails([v3 EXCEPT !.attempt = 0])
        BY <4>2, <4>5, WritesKeep DEF Attempts!TypeOK
      <4> QED
        BY <4>3, <4>4, <4>5
    <3>2. Attempts!FilesOK'
      BY <1>16 DEF Attempts!Acknowledge, Attempts!Written, Attempts!WriteFails,
         Attempts!FilesOK, Attempts!CountsOK, Attempts!StepsOK, Attempts!TypeOK
    <3>3. Attempts!StepsOK'
      BY <1>16, NoReportIsNone DEF Attempts!Acknowledge, Attempts!Written,
         Attempts!WriteFails, Attempts!StepsOK, Attempts!CountsOK, Attempts!TypeOK,
         Attempts!Outcomes
    <3>4. Attempts!CountsOK'
      BY <1>16 DEF Attempts!Acknowledge, Attempts!Written, Attempts!WriteFails,
         Attempts!CountsOK, Attempts!TypeOK
    <3> QED
      BY <1>16, <3>1, <3>2, <3>3, <3>4 DEF Attempts!Acknowledge, Attempts!Written,
         Attempts!WriteFails, Attempts!TypeOK
  <2>2. Attempts!CopyMayLast'
    <3>1. v3 \in Attempts!Records /\ v3 \in v2 /\ v12 \in {0} \cup Attempts!Attempts
      BY DEF Attempts!TypeOK, Attempts!RecordOK, Attempts!CountsOK, Attempts!CopyMayLast
    <3>2. [v3 EXCEPT !.attempt = 0] \in Attempts!Records
      BY <3>1, RecordsChange
    <3>3. \/ UNCHANGED <<v1, v2, v3, v4>>
          \/ Attempts!Written([v3 EXCEPT !.attempt = 0]) \/ Attempts!WriteFails([v3 EXCEPT !.attempt = 0])
      BY <1>16 DEF Attempts!Acknowledge
    <3>4. CASE UNCHANGED <<v1, v2, v3, v4>>
      BY <1>16, <3>4 DEF Attempts!Acknowledge, Attempts!TypeOK, Attempts!CopyMayLast
    <3>5. CASE Attempts!Written([v3 EXCEPT !.attempt = 0]) \/ Attempts!WriteFails([v3 EXCEPT !.attempt = 0])
      BY <3>2, <3>5, WritesKeep DEF Attempts!TypeOK
    <3> QED
      BY <3>3, <3>4, <3>5
  <2>3. Attempts!AttemptsAreStaged'
    BY <1>16 DEF Attempts!Acknowledge, Attempts!Written, Attempts!WriteFails,
       Attempts!AttemptsAreStaged, Attempts!TypeOK, Attempts!StepsOK, Attempts!CopyMayLast,
       Attempts!CountsOK
  <2>4. Attempts!EffectsAreRecorded'
    BY <1>16 DEF Attempts!Acknowledge, Attempts!Written, Attempts!WriteFails,
       Attempts!EffectsAreRecorded, Attempts!TypeOK, Attempts!StepsOK,
       Attempts!AttemptsAreStaged, Attempts!CopyMayLast
  <2>5. Attempts!ReportsAreTrue'
    BY <1>16, NoReportIsNone DEF Attempts!Acknowledge, Attempts!Written,
       Attempts!WriteFails, Attempts!ReportsAreTrue, Attempts!TypeOK, Attempts!StepsOK,
       Attempts!AttemptsAreStaged, Attempts!CountsOK
  <2>6. Attempts!PendingIsKept'
    <3>1. v3 \in Attempts!Records /\ v3 \in v2 /\ v12 \in {0} \cup Attempts!Attempts
      BY DEF Attempts!TypeOK, Attempts!RecordOK, Attempts!CountsOK, Attempts!CopyMayLast
    <3>2. [v3 EXCEPT !.attempt = 0] \in Attempts!Records
      BY <3>1, RecordsChange
    <3>3. \/ UNCHANGED <<v1, v2, v3, v4>>
          \/ Attempts!Written([v3 EXCEPT !.attempt = 0]) \/ Attempts!WriteFails([v3 EXCEPT !.attempt = 0])
      BY <1>16 DEF Attempts!Acknowledge
    <3>4. CASE UNCHANGED <<v1, v2, v3, v4>>
      BY <1>16, <3>4 DEF Attempts!Acknowledge, Attempts!TypeOK, Attempts!PendingIsKept
    <3>5. CASE Attempts!Written([v3 EXCEPT !.attempt = 0]) \/ Attempts!WriteFails([v3 EXCEPT !.attempt = 0])
      <4>1. v2' \subseteq v2 \cup {[v3 EXCEPT !.attempt = 0]}
        BY <3>2, <3>5, WritesKeep DEF Attempts!TypeOK
      <4>2. v19 => v19'
        BY <1>16 DEF Attempts!Acknowledge
      <4>3. v3.pending \/ v3.handed => [v3 EXCEPT !.attempt = 0].pending \/ [v3 EXCEPT !.attempt = 0].handed
        BY <3>1, RecordsChange
      <4>4. v19 \/ v3.pending \/ v3.handed
        BY <3>1 DEF Attempts!PendingIsKept
      <4>5. v19' \/ [v3 EXCEPT !.attempt = 0].pending \/ [v3 EXCEPT !.attempt = 0].handed
        BY Zenon, <4>2, <4>3, <4>4
      <4> QED
        BY Zenon, <4>1, <4>2, <4>5, PendingLasts
    <3> QED
      BY <3>3, <3>4, <3>5
  <2> QED
    BY <2>1, <2>2, <2>3, <2>4, <2>5, <2>6
<1>17. CASE Attempts!Reconcile
  <2>1. Attempts!TypeOK'
    <3>1. Attempts!RecordOK'
      <4>1. v3 \in Attempts!Records /\ v3 \in v2 /\ v12 \in {0} \cup Attempts!Attempts
        BY DEF Attempts!TypeOK, Attempts!RecordOK, Attempts!CountsOK, Attempts!CopyMayLast
      <4>2. [v3 EXCEPT !.pending = FALSE] \in Attempts!Records
        BY <4>1, RecordsChange
      <4>3. \/ UNCHANGED <<v1, v2, v3, v4>>
            \/ Attempts!Written([v3 EXCEPT !.pending = FALSE]) \/ Attempts!WriteFails([v3 EXCEPT !.pending = FALSE])
        BY <1>17 DEF Attempts!Reconcile
      <4>4. CASE UNCHANGED <<v1, v2, v3, v4>>
        BY <1>17, <4>4 DEF Attempts!Reconcile, Attempts!TypeOK, Attempts!RecordOK
      <4>5. CASE Attempts!Written([v3 EXCEPT !.pending = FALSE]) \/ Attempts!WriteFails([v3 EXCEPT !.pending = FALSE])
        BY <4>2, <4>5, WritesKeep DEF Attempts!TypeOK
      <4> QED
        BY <4>3, <4>4, <4>5
    <3>2. Attempts!FilesOK'
      BY <1>17 DEF Attempts!Reconcile, Attempts!Written, Attempts!WriteFails,
         Attempts!FilesOK, Attempts!CountsOK, Attempts!StepsOK, Attempts!TypeOK
    <3>3. Attempts!StepsOK'
      BY <1>17, NoReportIsNone DEF Attempts!Reconcile, Attempts!Written,
         Attempts!WriteFails, Attempts!StepsOK, Attempts!CountsOK, Attempts!TypeOK,
         Attempts!Outcomes
    <3>4. Attempts!CountsOK'
      BY <1>17 DEF Attempts!Reconcile, Attempts!Written, Attempts!WriteFails,
         Attempts!CountsOK, Attempts!TypeOK
    <3> QED
      BY <1>17, <3>1, <3>2, <3>3, <3>4 DEF Attempts!Reconcile, Attempts!Written,
         Attempts!WriteFails, Attempts!TypeOK
  <2>2. Attempts!CopyMayLast'
    <3>1. v3 \in Attempts!Records /\ v3 \in v2 /\ v12 \in {0} \cup Attempts!Attempts
      BY DEF Attempts!TypeOK, Attempts!RecordOK, Attempts!CountsOK, Attempts!CopyMayLast
    <3>2. [v3 EXCEPT !.pending = FALSE] \in Attempts!Records
      BY <3>1, RecordsChange
    <3>3. \/ UNCHANGED <<v1, v2, v3, v4>>
          \/ Attempts!Written([v3 EXCEPT !.pending = FALSE]) \/ Attempts!WriteFails([v3 EXCEPT !.pending = FALSE])
      BY <1>17 DEF Attempts!Reconcile
    <3>4. CASE UNCHANGED <<v1, v2, v3, v4>>
      BY <1>17, <3>4 DEF Attempts!Reconcile, Attempts!TypeOK, Attempts!CopyMayLast
    <3>5. CASE Attempts!Written([v3 EXCEPT !.pending = FALSE]) \/ Attempts!WriteFails([v3 EXCEPT !.pending = FALSE])
      BY <3>2, <3>5, WritesKeep DEF Attempts!TypeOK
    <3> QED
      BY <3>3, <3>4, <3>5
  <2>3. Attempts!AttemptsAreStaged'
    BY <1>17 DEF Attempts!Reconcile, Attempts!Written, Attempts!WriteFails,
       Attempts!AttemptsAreStaged, Attempts!TypeOK, Attempts!StepsOK, Attempts!CopyMayLast,
       Attempts!CountsOK
  <2>4. Attempts!EffectsAreRecorded'
    <3>1. v3 \in Attempts!Records /\ v3 \in v2
      BY DEF Attempts!TypeOK, Attempts!RecordOK, Attempts!CopyMayLast
    <3>2. [v3 EXCEPT !.pending = FALSE] \in Attempts!Records /\ [v3 EXCEPT !.pending = FALSE].attempt = v3.attempt
      BY <3>1, RecordsChange
    <3>3. v2' \subseteq v2 \cup {[v3 EXCEPT !.pending = FALSE]}
      BY <1>17, <3>2, WritesKeep DEF Attempts!Reconcile, Attempts!TypeOK
    <3>4. \A left \in v2' : left.attempt = v3.attempt \/ left \in v2
      BY <3>2, <3>3
    <3> QED
      BY <1>17, <3>1, <3>4 DEF Attempts!Reconcile, Attempts!EffectsAreRecorded
  <2>5. Attempts!ReportsAreTrue'
    BY <1>17, NoReportIsNone DEF Attempts!Reconcile, Attempts!Written, Attempts!WriteFails,
       Attempts!ReportsAreTrue, Attempts!TypeOK, Attempts!StepsOK,
       Attempts!AttemptsAreStaged, Attempts!CountsOK
  <2>6. Attempts!PendingIsKept'
    BY <1>17 DEF Attempts!Reconcile, Attempts!Written, Attempts!WriteFails,
       Attempts!PendingIsKept, Attempts!TypeOK, Attempts!StepsOK, Attempts!CopyMayLast,
       Attempts!AttemptsAreStaged
  <2> QED
    BY <2>1, <2>2, <2>3, <2>4, <2>5, <2>6
<1>18. CASE Attempts!OpenRecovered
  <2>1. Attempts!TypeOK'
    <3>1. Attempts!RecordOK'
      <4>1. v3 \in Attempts!Records /\ v3 \in v2 /\ v12 \in {0} \cup Attempts!Attempts
        BY DEF Attempts!TypeOK, Attempts!RecordOK, Attempts!CountsOK, Attempts!CopyMayLast
      <4>2. [v3 EXCEPT !.pending = FALSE, !.handed = @ \/ v3.pending] \in Attempts!Records
        BY <4>1, RecordsChange
      <4>3. \/ UNCHANGED <<v1, v2, v3, v4>>
            \/ Attempts!Written([v3 EXCEPT !.pending = FALSE, !.handed = @ \/ v3.pending]) \/ Attempts!WriteFails([v3 EXCEPT !.pending = FALSE, !.handed = @ \/ v3.pending])
        BY <1>18 DEF Attempts!OpenRecovered
      <4>4. CASE UNCHANGED <<v1, v2, v3, v4>>
        BY <1>18, <4>4 DEF Attempts!OpenRecovered, Attempts!TypeOK, Attempts!RecordOK
      <4>5. CASE Attempts!Written([v3 EXCEPT !.pending = FALSE, !.handed = @ \/ v3.pending]) \/ Attempts!WriteFails([v3 EXCEPT !.pending = FALSE, !.handed = @ \/ v3.pending])
        BY <4>2, <4>5, WritesKeep DEF Attempts!TypeOK
      <4> QED
        BY <4>3, <4>4, <4>5
    <3>2. Attempts!FilesOK'
      BY <1>18 DEF Attempts!OpenRecovered, Attempts!Opens, Attempts!Written,
         Attempts!WriteFails, Attempts!FilesOK, Attempts!CountsOK, Attempts!StepsOK,
         Attempts!TypeOK
    <3>3. Attempts!StepsOK'
      BY <1>18, NoReportIsNone DEF Attempts!OpenRecovered, Attempts!Opens, Attempts!Written,
         Attempts!WriteFails, Attempts!StepsOK, Attempts!CountsOK, Attempts!TypeOK,
         Attempts!Outcomes
    <3>4. Attempts!CountsOK'
      BY <1>18 DEF Attempts!OpenRecovered, Attempts!Opens, Attempts!Written,
         Attempts!WriteFails, Attempts!CountsOK, Attempts!TypeOK
    <3> QED
      BY <1>18, <3>1, <3>2, <3>3, <3>4 DEF Attempts!OpenRecovered, Attempts!Opens,
         Attempts!Written, Attempts!WriteFails, Attempts!TypeOK
  <2>2. Attempts!CopyMayLast'
    <3>1. v3 \in Attempts!Records /\ v3 \in v2 /\ v12 \in {0} \cup Attempts!Attempts
      BY DEF Attempts!TypeOK, Attempts!RecordOK, Attempts!CountsOK, Attempts!CopyMayLast
    <3>2. [v3 EXCEPT !.pending = FALSE, !.handed = @ \/ v3.pending] \in Attempts!Records
      BY <3>1, RecordsChange
    <3>3. \/ UNCHANGED <<v1, v2, v3, v4>>
          \/ Attempts!Written([v3 EXCEPT !.pending = FALSE, !.handed = @ \/ v3.pending]) \/ Attempts!WriteFails([v3 EXCEPT !.pending = FALSE, !.handed = @ \/ v3.pending])
      BY <1>18 DEF Attempts!OpenRecovered
    <3>4. CASE UNCHANGED <<v1, v2, v3, v4>>
      BY <1>18, <3>4 DEF Attempts!OpenRecovered, Attempts!TypeOK, Attempts!CopyMayLast
    <3>5. CASE Attempts!Written([v3 EXCEPT !.pending = FALSE, !.handed = @ \/ v3.pending]) \/ Attempts!WriteFails([v3 EXCEPT !.pending = FALSE, !.handed = @ \/ v3.pending])
      BY <3>2, <3>5, WritesKeep DEF Attempts!TypeOK
    <3> QED
      BY <3>3, <3>4, <3>5
  <2>3. Attempts!AttemptsAreStaged'
    BY <1>18 DEF Attempts!OpenRecovered, Attempts!Opens, Attempts!Written,
       Attempts!WriteFails, Attempts!AttemptsAreStaged, Attempts!TypeOK, Attempts!StepsOK,
       Attempts!CopyMayLast, Attempts!CountsOK
  <2>4. Attempts!EffectsAreRecorded'
    <3>1. v3 \in Attempts!Records /\ v3 \in v2
      BY DEF Attempts!TypeOK, Attempts!RecordOK, Attempts!CopyMayLast
    <3>2. [v3 EXCEPT !.pending = FALSE, !.handed = @ \/ v3.pending] \in Attempts!Records /\ [v3 EXCEPT !.pending = FALSE, !.handed = @ \/ v3.pending].attempt = v3.attempt
      BY <3>1, RecordsChange
    <3>3. v2' \subseteq v2 \cup {[v3 EXCEPT !.pending = FALSE, !.handed = @ \/ v3.pending]}
      BY <1>18, <3>2, WritesKeep DEF Attempts!OpenRecovered, Attempts!TypeOK
    <3>4. \A left \in v2' : left.attempt = v3.attempt \/ left \in v2
      BY <3>2, <3>3
    <3> QED
      BY <1>18, <3>1, <3>4 DEF Attempts!OpenRecovered, Attempts!EffectsAreRecorded
  <2>5. Attempts!ReportsAreTrue'
    BY <1>18, NoReportIsNone DEF Attempts!OpenRecovered, Attempts!Opens, Attempts!Written,
       Attempts!WriteFails, Attempts!ReportsAreTrue, Attempts!TypeOK, Attempts!StepsOK,
       Attempts!AttemptsAreStaged, Attempts!CountsOK
  <2>6. Attempts!PendingIsKept'
    <3>1. v3 \in Attempts!Records /\ v3 \in v2 /\ v12 \in {0} \cup Attempts!Attempts
      BY DEF Attempts!TypeOK, Attempts!RecordOK, Attempts!CountsOK, Attempts!CopyMayLast
    <3>2. [v3 EXCEPT !.pending = FALSE, !.handed = @ \/ v3.pending] \in Attempts!Records
      BY <3>1, RecordsChange
    <3>3. \/ UNCHANGED <<v1, v2, v3, v4>>
          \/ Attempts!Written([v3 EXCEPT !.pending = FALSE, !.handed = @ \/ v3.pending]) \/ Attempts!WriteFails([v3 EXCEPT !.pending = FALSE, !.handed = @ \/ v3.pending])
      BY <1>18 DEF Attempts!OpenRecovered
    <3>4. CASE UNCHANGED <<v1, v2, v3, v4>>
      BY <1>18, <3>4 DEF Attempts!OpenRecovered, Attempts!TypeOK, Attempts!PendingIsKept
    <3>5. CASE Attempts!Written([v3 EXCEPT !.pending = FALSE, !.handed = @ \/ v3.pending]) \/ Attempts!WriteFails([v3 EXCEPT !.pending = FALSE, !.handed = @ \/ v3.pending])
      <4>1. v2' \subseteq v2 \cup {[v3 EXCEPT !.pending = FALSE, !.handed = @ \/ v3.pending]}
        BY <3>2, <3>5, WritesKeep DEF Attempts!TypeOK
      <4>2. v19 => v19'
        BY <1>18 DEF Attempts!OpenRecovered
      <4>3. v3.pending \/ v3.handed => [v3 EXCEPT !.pending = FALSE, !.handed = @ \/ v3.pending].pending \/ [v3 EXCEPT !.pending = FALSE, !.handed = @ \/ v3.pending].handed
        BY <3>1, RecordsChange
      <4>4. v19 \/ v3.pending \/ v3.handed
        BY <3>1 DEF Attempts!PendingIsKept
      <4>5. v19' \/ [v3 EXCEPT !.pending = FALSE, !.handed = @ \/ v3.pending].pending \/ [v3 EXCEPT !.pending = FALSE, !.handed = @ \/ v3.pending].handed
        BY Zenon, <4>2, <4>3, <4>4
      <4> QED
        BY Zenon, <4>1, <4>2, <4>5, PendingLasts
    <3> QED
      BY <3>3, <3>4, <3>5
  <2> QED
    BY <2>1, <2>2, <2>3, <2>4, <2>5, <2>6
<1>19. CASE Attempts!Cancel
  <2>1. Attempts!TypeOK'
    <3>1. Attempts!RecordOK'
      BY <1>19 DEF Attempts!Cancel, Attempts!RecordOK, Attempts!TypeOK
    <3>2. Attempts!FilesOK'
      BY <1>19 DEF Attempts!Cancel, Attempts!FilesOK, Attempts!CountsOK, Attempts!StepsOK,
         Attempts!TypeOK
    <3>3. Attempts!StepsOK'
      <4>1. UNCHANGED <<v8, v9, v10, v11, v14, v16, v17>>
        BY <1>19 DEF Attempts!Cancel
      <4> QED
        BY <4>1 DEF Attempts!TypeOK, Attempts!StepsOK
    <3>4. Attempts!CountsOK'
      BY <1>19 DEF Attempts!Cancel, Attempts!CountsOK, Attempts!TypeOK
    <3> QED
      BY <1>19, <3>1, <3>2, <3>3, <3>4 DEF Attempts!Cancel, Attempts!TypeOK
  <2>2. Attempts!CopyMayLast'
    BY <1>19 DEF Attempts!Cancel, Attempts!CopyMayLast, Attempts!TypeOK, Attempts!StepsOK
  <2>3. Attempts!AttemptsAreStaged'
    BY <1>19 DEF Attempts!Cancel, Attempts!AttemptsAreStaged, Attempts!TypeOK,
       Attempts!StepsOK, Attempts!CopyMayLast, Attempts!CountsOK
  <2>4. Attempts!EffectsAreRecorded'
    BY <1>19 DEF Attempts!Cancel, Attempts!EffectsAreRecorded, Attempts!TypeOK,
       Attempts!StepsOK, Attempts!AttemptsAreStaged, Attempts!CopyMayLast
  <2>5. Attempts!ReportsAreTrue'
    BY <1>19, NoReportIsNone DEF Attempts!Cancel, Attempts!ReportsAreTrue, Attempts!TypeOK,
       Attempts!StepsOK, Attempts!AttemptsAreStaged, Attempts!CountsOK
  <2>6. Attempts!PendingIsKept'
    BY <1>19 DEF Attempts!Cancel, Attempts!PendingIsKept, Attempts!TypeOK, Attempts!StepsOK,
       Attempts!CopyMayLast, Attempts!AttemptsAreStaged
  <2> QED
    BY <2>1, <2>2, <2>3, <2>4, <2>5, <2>6
<1>20. CASE Attempts!OtherSaves
  <2>1. Attempts!TypeOK'
    <3>1. Attempts!RecordOK'
      BY <1>20 DEF Attempts!OtherSaves, Attempts!RecordOK, Attempts!TypeOK
    <3>2. Attempts!FilesOK'
      BY <1>20 DEF Attempts!OtherSaves, Attempts!FilesOK, Attempts!CountsOK,
         Attempts!StepsOK, Attempts!TypeOK
    <3>3. Attempts!StepsOK'
      <4>1. UNCHANGED <<v8, v9, v10, v11, v14, v16, v17>>
        BY <1>20 DEF Attempts!OtherSaves
      <4> QED
        BY <4>1 DEF Attempts!TypeOK, Attempts!StepsOK
    <3>4. Attempts!CountsOK'
      BY <1>20 DEF Attempts!OtherSaves, Attempts!CountsOK, Attempts!TypeOK
    <3> QED
      BY <1>20, <3>1, <3>2, <3>3, <3>4 DEF Attempts!OtherSaves, Attempts!TypeOK
  <2>2. Attempts!CopyMayLast'
    BY <1>20 DEF Attempts!OtherSaves, Attempts!CopyMayLast, Attempts!TypeOK,
       Attempts!StepsOK
  <2>3. Attempts!AttemptsAreStaged'
    BY <1>20 DEF Attempts!OtherSaves, Attempts!AttemptsAreStaged, Attempts!TypeOK,
       Attempts!StepsOK, Attempts!CopyMayLast, Attempts!CountsOK
  <2>4. Attempts!EffectsAreRecorded'
    BY <1>20 DEF Attempts!OtherSaves, Attempts!EffectsAreRecorded, Attempts!TypeOK,
       Attempts!StepsOK, Attempts!AttemptsAreStaged, Attempts!CopyMayLast
  <2>5. Attempts!ReportsAreTrue'
    BY <1>20, NoReportIsNone DEF Attempts!OtherSaves, Attempts!ReportsAreTrue,
       Attempts!TypeOK, Attempts!StepsOK, Attempts!AttemptsAreStaged, Attempts!CountsOK
  <2>6. Attempts!PendingIsKept'
    BY <1>20 DEF Attempts!OtherSaves, Attempts!PendingIsKept, Attempts!TypeOK,
       Attempts!StepsOK, Attempts!CopyMayLast, Attempts!AttemptsAreStaged
  <2> QED
    BY <2>1, <2>2, <2>3, <2>4, <2>5, <2>6
<1>21. CASE Attempts!Restart
  <2> USE <1>21 DEF Attempts!Restart, Attempts!Rests, Attempts!Opens, Attempts!TypeOK
  <2>1. Attempts!TypeOK'
    <3>1. Attempts!RecordOK'
      BY DEF Attempts!RecordOK
    <3>2. Attempts!FilesOK'
      BY DEF Attempts!FilesOK, Attempts!CountsOK, Attempts!StepsOK
    <3>3. Attempts!StepsOK'
      BY NoReportIsNone DEF Attempts!StepsOK, Attempts!CountsOK, Attempts!Outcomes
    <3>4. Attempts!CountsOK'
      BY DEF Attempts!CountsOK
    <3> QED
      BY <3>1, <3>2, <3>3, <3>4
  <2>2. Attempts!CopyMayLast'
    BY DEF Attempts!CopyMayLast, Attempts!StepsOK
  <2>3. Attempts!AttemptsAreStaged'
    BY DEF Attempts!AttemptsAreStaged, Attempts!StepsOK, Attempts!CopyMayLast,
       Attempts!CountsOK
  <2>4. Attempts!EffectsAreRecorded'
    BY DEF Attempts!EffectsAreRecorded, Attempts!StepsOK, Attempts!AttemptsAreStaged,
       Attempts!CopyMayLast
  <2>5. Attempts!ReportsAreTrue'
    BY NoReportIsNone DEF Attempts!ReportsAreTrue, Attempts!StepsOK,
       Attempts!AttemptsAreStaged, Attempts!CountsOK
  <2>6. Attempts!PendingIsKept'
    BY DEF Attempts!PendingIsKept, Attempts!StepsOK, Attempts!CopyMayLast,
       Attempts!AttemptsAreStaged
  <2> QED
    BY <2>1, <2>2, <2>3, <2>4, <2>5, <2>6
<1> QED
BY <1>1, <1>2, <1>3, <1>4, <1>5, <1>6, <1>7, <1>8, <1>9, <1>10, <1>11, <1>12, <1>13, <1>14,
   <1>15, <1>16, <1>17, <1>18, <1>19, <1>20, <1>21 DEF Attempts!Next

-----------------------------------------------------------------------------
(* The hand-over of a request to an external author. *)

LEMMA NoWorkIsWork ==
    /\ Handoff!NoWork \in Handoff!Works /\ Handoff!NoReview \in Handoff!Reviews
    /\ Handoff!NoWork.request = 0 /\ Handoff!NoReview.request = 0
    /\ Handoff!NoReview.source = 0 /\ Handoff!NoReview.basis = 0
BY BoundsAreNumbers DEF Handoff!Works, Handoff!Reviews, Handoff!NoWork, Handoff!NoReview

LEMMA WorksAreMade ==
    /\ \A r \in 0 .. MaxRequest, s \in 0 .. MaxSource :
          [request |-> r, source |-> s] \in Handoff!Works
    /\ \A w \in Handoff!Works : w.request \in 0 .. MaxRequest /\ w.source \in 0 .. MaxSource
BY DEF Handoff!Works

LEMMA ReviewsAreMade ==
    /\ \A r \in 0 .. MaxRequest, s \in 0 .. MaxSource, b \in 0 .. MaxBasis :
          [request |-> r, source |-> s, basis |-> b] \in Handoff!Reviews
    /\ \A q \in Handoff!Reviews : q.request \in 0 .. MaxRequest /\ q.source \in 0 .. MaxSource
BY DEF Handoff!Reviews

LEMMA LinksAreTyped ==
    \A link \in Handoff!Links : /\ link.external \in 0 .. MaxRequest
                                /\ link.completed \in 0 .. MaxRequest
                                /\ link.task \in 0 .. MaxTask
                                /\ link.capture \in 0 .. MaxSource
BY DEF Handoff!Links

LEMMA LinkedIsLink ==
    \A t \in 0 .. MaxTask :
        /\ Handoff!Linked(t) \in Handoff!Links /\ Handoff!Linked(t).task = t
        /\ Handoff!Linked(t).external = 0 /\ Handoff!Linked(t).completed = 0
<1> SUFFICES ASSUME NEW t \in 0 .. MaxTask
             PROVE  /\ Handoff!Linked(t) \in Handoff!Links /\ Handoff!Linked(t).task = t
                    /\ Handoff!Linked(t).external = 0 /\ Handoff!Linked(t).completed = 0
  OBVIOUS
<1>1. 0 \in 0 .. MaxRequest /\ 0 \in 0 .. MaxSource
  BY BoundsAreNumbers
<1> QED
  BY Zenon, <1>1 DEF Handoff!Links, Handoff!Linked

LEMMA AskedIsLink ==
    \A t \in 0 .. MaxTask, r \in 0 .. MaxRequest :
        LET new == [Handoff!Linked(t) EXCEPT !.external = r] IN
        new \in Handoff!Links /\ new.external = r /\ new.completed = 0
<1> SUFFICES ASSUME NEW t \in 0 .. MaxTask, NEW r \in 0 .. MaxRequest
             PROVE  LET new == [Handoff!Linked(t) EXCEPT !.external = r] IN
                    new \in Handoff!Links /\ new.external = r /\ new.completed = 0
  OBVIOUS
<1>1. [Handoff!Linked(t) EXCEPT !.external = r] \in Handoff!Links
  BY Zenon, LinkedIsLink DEF Handoff!Links
<1>2. LET new == [Handoff!Linked(t) EXCEPT !.external = r] IN
      new.external = r /\ new.completed = 0
  BY DEF Handoff!Linked
<1> QED
  BY <1>1, <1>2

LEMMA CompletedIsLink ==
    \A t \in 0 .. MaxTask, r \in 0 .. MaxRequest, s \in 0 .. MaxSource :
        LET new == [Handoff!Linked(t) EXCEPT !.completed = r, !.capture = s] IN
        /\ new \in Handoff!Links /\ new.external = 0
        /\ new.completed = r /\ new.capture = s
<1> SUFFICES ASSUME NEW t \in 0 .. MaxTask, NEW r \in 0 .. MaxRequest,
                    NEW s \in 0 .. MaxSource
             PROVE  LET new == [Handoff!Linked(t) EXCEPT !.completed = r, !.capture = s] IN
                    /\ new \in Handoff!Links /\ new.external = 0
                    /\ new.completed = r /\ new.capture = s
  OBVIOUS
<1>1. [Handoff!Linked(t) EXCEPT !.completed = r, !.capture = s] \in Handoff!Links
  BY Zenon, LinkedIsLink DEF Handoff!Links
<1>2. LET new == [Handoff!Linked(t) EXCEPT !.completed = r, !.capture = s] IN
      new.external = 0 /\ new.completed = r /\ new.capture = s
  BY DEF Handoff!Linked
<1> QED
  BY <1>1, <1>2

LEMMA RetainedIsLink ==
    \A link \in Handoff!Links :
        LET new == [link EXCEPT !.ticket = TRUE] IN
        /\ new \in Handoff!Links /\ new.ticket
        /\ new.external = link.external /\ new.completed = link.completed /\ new.capture = link.capture /\ new.launch = link.launch
<1> SUFFICES ASSUME NEW link \in Handoff!Links
             PROVE  LET new == [link EXCEPT !.ticket = TRUE] IN
                    /\ new \in Handoff!Links /\ new.ticket
                    /\ new.external = link.external /\ new.completed = link.completed /\ new.capture = link.capture /\ new.launch = link.launch
  OBVIOUS
<1>1. [link EXCEPT !.ticket = TRUE] \in Handoff!Links
  BY Zenon DEF Handoff!Links
<1>2. LET new == [link EXCEPT !.ticket = TRUE] IN
      new.ticket /\ new.external = link.external /\ new.completed = link.completed /\ new.capture = link.capture /\ new.launch = link.launch
  BY DEF Handoff!Links
<1> QED
  BY <1>1, <1>2

LEMMA IssuedIsLink ==
    \A link \in Handoff!Links :
        LET new == [link EXCEPT !.launch = TRUE] IN
        /\ new \in Handoff!Links /\ new.launch
        /\ new.external = link.external /\ new.completed = link.completed /\ new.capture = link.capture /\ new.ticket = link.ticket
<1> SUFFICES ASSUME NEW link \in Handoff!Links
             PROVE  LET new == [link EXCEPT !.launch = TRUE] IN
                    /\ new \in Handoff!Links /\ new.launch
                    /\ new.external = link.external /\ new.completed = link.completed /\ new.capture = link.capture /\ new.ticket = link.ticket
  OBVIOUS
<1>1. [link EXCEPT !.launch = TRUE] \in Handoff!Links
  BY Zenon DEF Handoff!Links
<1>2. LET new == [link EXCEPT !.launch = TRUE] IN
      new.launch /\ new.external = link.external /\ new.completed = link.completed /\ new.capture = link.capture /\ new.ticket = link.ticket
  BY DEF Handoff!Links
<1> QED
  BY <1>1, <1>2

LEMMA AbandonedIsLink ==
    \A link \in Handoff!Links :
        LET new == [link EXCEPT !.external = 0, !.ticket = FALSE, !.launch = FALSE] IN
        /\ new \in Handoff!Links /\ new.external = 0
        /\ new.completed = link.completed /\ new.capture = link.capture
<1> SUFFICES ASSUME NEW link \in Handoff!Links
             PROVE  LET new == [link EXCEPT !.external = 0, !.ticket = FALSE, !.launch = FALSE] IN
                    /\ new \in Handoff!Links /\ new.external = 0
                    /\ new.completed = link.completed /\ new.capture = link.capture
  OBVIOUS
<1>1. [link EXCEPT !.external = 0, !.ticket = FALSE, !.launch = FALSE] \in Handoff!Links
  <2>1. 0 \in 0 .. MaxRequest
    BY BoundsAreNumbers
  <2> QED
    BY Zenon, <2>1 DEF Handoff!Links
<1>2. LET new == [link EXCEPT !.external = 0, !.ticket = FALSE, !.launch = FALSE] IN
      new.external = 0 /\ new.completed = link.completed /\ new.capture = link.capture
  BY DEF Handoff!Links
<1> QED
  BY <1>1, <1>2

LEMMA AdmittedIsLink ==
    ASSUME v3.task \in 0 .. MaxTask, v18.request \in 0 .. MaxRequest,
           v18.source \in 0 .. MaxSource
    PROVE  LET new == [Handoff!Linked(v3.task) EXCEPT !.completed = v18.request,
                                                      !.capture = v18.source] IN
           /\ new \in Handoff!Links
           /\ new.external = 0 /\ new.completed = v18.request /\ new.capture = v18.source
<1>1. \A r \in 0 .. MaxRequest, s \in 0 .. MaxSource :
        LET new == [Handoff!Linked(v3.task) EXCEPT !.completed = r, !.capture = s] IN
        /\ new \in Handoff!Links /\ new.external = 0
        /\ new.completed = r /\ new.capture = s
  BY CompletedIsLink
<1> QED
  BY ZenonT(30), <1>1

LEMMA RecordWrites ==
    ASSUME Handoff!RecordOK, {v1, v3} \subseteq v2, NEW new \in Handoff!Links
    PROVE  /\ Handoff!Written(new) =>
                v1' = new /\ v2' = {new} /\ v3' = new /\ v4' \in BOOLEAN
           /\ Handoff!WriteFails(new) =>
                /\ v1' \in v2' /\ v3' \in v2' /\ v2' \subseteq v2 \cup {new}
                /\ v3' = v3 /\ v4' \in BOOLEAN
<1>1. ASSUME Handoff!Written(new)
      PROVE  v1' = new /\ v2' = {new} /\ v3' = new /\ v4' \in BOOLEAN
  BY Zenon, <1>1 DEF Handoff!RecordOK, Handoff!Written
<1>2. ASSUME Handoff!WriteFails(new)
      PROVE  /\ v1' \in v2' /\ v3' \in v2' /\ v2' \subseteq v2 \cup {new}
             /\ v3' = v3 /\ v4' \in BOOLEAN
  <2>1. v4' \in BOOLEAN
    BY Zenon, <1>2 DEF Handoff!WriteFails
  <2>2. /\ v1' \in v2' /\ v3' \in v2' /\ v2' \subseteq v2 \cup {new}
        /\ v3' = v3
    BY <1>2 DEF Handoff!WriteFails
  <2> QED
    BY <2>1, <2>2
<1> QED
  BY <1>1, <1>2

LEMMA HandoffBegins == Handoff!Init => Handoff!IInv
<1> SUFFICES ASSUME Handoff!Init PROVE Handoff!IInv
  OBVIOUS
<1> USE BoundsAreNumbers DEF Handoff!Init, Handoff!Linked, Handoff!Links, Handoff!Reviews,
      Handoff!Works, Handoff!NoReview, Handoff!NoWork, Handoff!Requests,
      Handoff!journal, Handoff!jobs, Handoff!registry, Handoff!saves,
      Handoff!work
<1>1. Handoff!TypeOK
  <2>1. Handoff!RecordOK
    <3>1. Handoff!Linked(0) \in Handoff!Links
      BY LinkedIsLink
    <3>2. v1 = Handoff!Linked(0) /\ v3 = v1 /\ v2 = {v1}
      BY Zenon
    <3>3. {v1, v3} \cup v2 \subseteq Handoff!Links
      BY Zenon, <3>1, <3>2
    <3>4. v4 \in BOOLEAN
      BY Zenon
    <3> QED
      BY <3>3, <3>4 DEF Handoff!RecordOK
  <2>2. Handoff!JobsOK
    BY DEF Handoff!JobsOK, Handoff!TypeOK
  <2>3. Handoff!SavesOK
    BY DEF Handoff!SavesOK, Handoff!TypeOK, Handoff!Sources, Handoff!Bases
  <2>4. Handoff!RequestsOK
    BY NoWorkIsWork, ReviewsAreMade, WorksAreMade DEF Handoff!RequestsOK, Handoff!StepsOK,
       Handoff!SavesOK, Handoff!TypeOK, Handoff!Bases
  <2>5. Handoff!StepsOK
    BY NoWorkIsWork, WorksAreMade DEF Handoff!StepsOK, Handoff!SavesOK, Handoff!RequestsOK,
       Handoff!TypeOK, Handoff!Sources
  <2> QED
    BY <2>1, <2>2, <2>3, <2>4, <2>5 DEF Handoff!TypeOK
<1>2. Handoff!CopyMayLast
  BY DEF Handoff!CopyMayLast, Handoff!TypeOK, Handoff!RequestsOK, Handoff!StepsOK,
     Handoff!CompletionIsAuthorized
<1>3. Handoff!RequestsAreAsked
  BY DEF Handoff!RequestsAreAsked, Handoff!TypeOK, Handoff!RequestsOK, Handoff!StepsOK,
     Handoff!CopyMayLast
<1>4. Handoff!SubmissionsAreKept
  BY NoWorkIsWork DEF Handoff!SubmissionsAreKept, Handoff!TypeOK, Handoff!RequestsOK,
     Handoff!StepsOK, Handoff!JobsOK, Handoff!CopyMayLast, Handoff!OperandsAreRight,
     Handoff!Submits
<1>5. Handoff!OperandsAreRight
  BY NoWorkIsWork DEF Handoff!OperandsAreRight, Handoff!TypeOK, Handoff!RequestsOK,
     Handoff!StepsOK, Handoff!Submits, Handoff!CopyMayLast
<1>6. Handoff!AuthorsAreKnown
  BY DEF Handoff!AuthorsAreKnown, Handoff!TypeOK, Handoff!RequestsOK, Handoff!StepsOK,
     Handoff!CopyMayLast, Handoff!OperandsAreRight
<1>7. Handoff!CompletionIsAuthorized
  BY LinksAreTyped DEF Handoff!CompletionIsAuthorized, Handoff!TypeOK, Handoff!RequestsOK,
     Handoff!StepsOK, Handoff!CopyMayLast, Handoff!SubmissionsAreKept, Handoff!RecordOK
<1>8. Handoff!ReviewIsOfRequest
  BY NoWorkIsWork DEF Handoff!ReviewIsOfRequest, Handoff!TypeOK, Handoff!RequestsOK,
     Handoff!StepsOK, Handoff!Submits, Handoff!OperandsAreRight, Handoff!SubmissionsAreKept
<1>9. Handoff!CompletionsStand
  BY DEF Handoff!CompletionsStand, Handoff!Accepted
<1> QED
  BY <1>1, <1>2, <1>3, <1>4, <1>5, <1>6, <1>7, <1>8, <1>9 DEF Handoff!IInv

LEMMA HandoffStutters == Handoff!IInv /\ UNCHANGED Handoff!taskHandoff => Handoff!IInv'
<1> SUFFICES ASSUME Handoff!IInv, UNCHANGED Handoff!taskHandoff PROVE Handoff!IInv'
  OBVIOUS
<1> USE DEF Handoff!taskHandoff, Handoff!Requests, Handoff!journal, Handoff!jobs,
      Handoff!registry, Handoff!saves, Handoff!work
<1>1. Handoff!TypeOK'
  BY ZenonT(60) DEF Handoff!IInv, Handoff!TypeOK, Handoff!RecordOK, Handoff!JobsOK,
     Handoff!SavesOK, Handoff!RequestsOK, Handoff!StepsOK
<1>2. Handoff!CopyMayLast'
  BY DEF Handoff!IInv, Handoff!CopyMayLast
<1>3. Handoff!RequestsAreAsked'
  BY DEF Handoff!IInv, Handoff!RequestsAreAsked
<1>4. Handoff!SubmissionsAreKept'
  BY DEF Handoff!IInv, Handoff!SubmissionsAreKept
<1>5. Handoff!OperandsAreRight'
  BY DEF Handoff!IInv, Handoff!OperandsAreRight, Handoff!Submits
<1>6. Handoff!AuthorsAreKnown'
  BY DEF Handoff!IInv, Handoff!AuthorsAreKnown
<1>7. Handoff!CompletionIsAuthorized'
  BY DEF Handoff!IInv, Handoff!CompletionIsAuthorized
<1>8. Handoff!ReviewIsOfRequest'
  BY DEF Handoff!IInv, Handoff!ReviewIsOfRequest
<1>9. Handoff!CompletionsStand'
  BY DEF Handoff!IInv, Handoff!CompletionsStand, Handoff!Accepted
<1> QED
  BY <1>1, <1>2, <1>3, <1>4, <1>5, <1>6, <1>7, <1>8, <1>9 DEF Handoff!IInv

LEMMA CompletionsStep == Handoff!IInv /\ Handoff!Next => Handoff!CompletionsStand'
<1> SUFFICES ASSUME Handoff!IInv, Handoff!Next PROVE Handoff!CompletionsStand'
  OBVIOUS
<1> USE BoundsAreNumbers DEF Handoff!Requests, Handoff!journal, Handoff!jobs, Handoff!registry,
      Handoff!saves, Handoff!work
<1> DEFINE Pending(r) == \E lasting \in v2 : lasting.external = r
           Looks == {"taking", "analyzing"}
<1>1. v19 # Handoff!NoWork => v19.request \in Handoff!Requests
  BY DEF Handoff!IInv, Handoff!SubmissionsAreKept, Handoff!TypeOK, Handoff!RequestsOK
\* A step that publishes nothing and accepts nothing else.
<1>2. ASSUME UNCHANGED v6, v19' \in {v19, Handoff!NoWork},
             \A r \in Handoff!Requests : /\ Handoff!Accepted(r)' => Handoff!Accepted(r)
                                         /\ Handoff!Accepted(r)' /\ Pending(r)' => Pending(r)
      PROVE  Handoff!CompletionsStand'
  BY <1>1, <1>2 DEF Handoff!IInv, Handoff!CompletionsStand
\* One that leaves the record alone, too.
<1>3. ASSUME UNCHANGED <<v2, v6>>, v19' \in {v19, Handoff!NoWork}, v15'.request \in {v15.request, 0},
             UNCHANGED <<v17, v18>> \/ v17' \notin Looks \/ v18'.request = 0
      PROVE  Handoff!CompletionsStand'
  BY <1>2, <1>3 DEF Handoff!Accepted
\* One that writes the record without a completed request of its own.
<1>4. ASSUME UNCHANGED <<v6, v19>>, NEW new \in Handoff!Links, v2' \subseteq v2 \cup {new},
             new.completed \in {0, v3.completed}, new.external \in {0, v3.external},
             v15'.request \in {v15.request, 0}, UNCHANGED <<v17, v18>> \/ v17' \notin Looks
      PROVE  Handoff!CompletionsStand'
  <2>1. v3 \in v2
    BY DEF Handoff!IInv, Handoff!CopyMayLast
  <2>2. \A r \in Handoff!Requests : /\ Handoff!Accepted(r)' => Handoff!Accepted(r)
                                    /\ Pending(r)' => Pending(r)
    BY <1>4, <2>1 DEF Handoff!Accepted
  <2> QED
    BY <1>2, <1>4, <2>2
<1>5. Handoff!RecordOK /\ {v1, v3} \subseteq v2 /\ v3 \in Handoff!Links /\ v3.task \in 0 .. MaxTask
  BY LinksAreTyped DEF Handoff!IInv, Handoff!TypeOK, Handoff!RecordOK, Handoff!CopyMayLast
<1>6. CASE Handoff!PollsStale \/ Handoff!Request \/ Handoff!Decline \/ Handoff!Checks
           \/ Handoff!Launches \/ Handoff!Reopen \/ Handoff!Edit \/ Handoff!Reregister
           \/ Handoff!Save \/ Handoff!Authorize \/ Handoff!Prepares
  BY <1>3, <1>6, NoWorkIsWork DEF Handoff!PollsStale, Handoff!Request, Handoff!Decline,
     Handoff!Checks, Handoff!Launches, Handoff!Reopen, Handoff!Edit, Handoff!Reregister,
     Handoff!Save, Handoff!Authorize, Handoff!Prepares, Handoff!Rests
<1>7. CASE Handoff!PollsOrdinary
  BY <1>3, <1>7, NoWorkIsWork DEF Handoff!PollsOrdinary, Handoff!BeginsReview, Handoff!Rests
<1>8. CASE Handoff!EndsReview
  <2>1. /\ v17 = "analyzing" /\ v17' = "home" /\ UNCHANGED <<v2, v6, v19>>
        /\ v15'.request \in {v15.request, v18.request}
    BY <1>8 DEF Handoff!EndsReview, Handoff!Rests
  <2> QED
    BY <1>2, <2>1 DEF Handoff!Accepted
<1>9. CASE Handoff!RetriesCompleted
  <2>1. /\ v16 = v3.completed /\ v17' \in {"home", "analyzing"} /\ UNCHANGED <<v2, v6, v19>>
        /\ v15'.request = 0 /\ v18'.request \in {v16, 0}
    BY <1>9, NoWorkIsWork DEF Handoff!RetriesCompleted, Handoff!BeginsReview, Handoff!Rests
  <2> QED
    BY <1>2, <1>5, <2>1 DEF Handoff!Accepted
<1>10. CASE Handoff!Takes
  <2>1. CASE UNCHANGED <<v17, v18>>
    BY <1>3, <1>10, <2>1 DEF Handoff!Takes
  <2>2. CASE v18' = [request |-> v3.external, source |-> v7]
    <3>1. UNCHANGED <<v2, v6, v15, v19>> /\ v6[v3.external] # 0
      BY <1>10 DEF Handoff!Takes
    <3>2. \A r \in Handoff!Requests : Handoff!Accepted(r)' => Handoff!Accepted(r) \/ r = v3.external
      BY <2>2, <3>1 DEF Handoff!Accepted
    <3> QED
      BY <1>1, <3>1, <3>2 DEF Handoff!IInv, Handoff!CompletionsStand
  <2> QED
    BY <1>10, <2>1, <2>2 DEF Handoff!Takes
<1>11. CASE Handoff!Submit
  <2>1. PICK r \in v20 :
            v1.external = r /\ v6[r] = 0 /\ v19' = [request |-> r, source |-> v7]
    BY <1>11 DEF Handoff!Submit, Handoff!Issued
  <2>2. r \in Handoff!Requests /\ UNCHANGED <<v2, v6, v15, v17, v18>> /\ v1 \in v2
    BY <1>5, <1>11 DEF Handoff!Submit, Handoff!IInv, Handoff!TypeOK, Handoff!RequestsOK
  <2>3. ~ Handoff!Accepted(r)
    BY <2>1, <2>2 DEF Handoff!IInv, Handoff!CompletionsStand
  <2>4. \A q : Handoff!Accepted(q)' <=> Handoff!Accepted(q)
    BY <2>2 DEF Handoff!Accepted
  <2> QED
    BY <2>1, <2>2, <2>3, <2>4 DEF Handoff!IInv, Handoff!CompletionsStand
<1>12. CASE Handoff!Publishes
  <2>1. UNCHANGED <<v2, v15, v17, v18>> /\ v19 # Handoff!NoWork /\ v19' = Handoff!NoWork
    BY <1>12 DEF Handoff!Publishes
  <2>2. v6 \in [Handoff!Requests -> 0 .. MaxSource]
    BY DEF Handoff!IInv, Handoff!TypeOK, Handoff!JobsOK
  <2>3. \A r \in Handoff!Requests : v6[r] # 0 => v6'[r] # 0
    BY <1>1, <1>12, <2>1, <2>2 DEF Handoff!Publishes, Handoff!IInv, Handoff!CompletionsStand
  <2>4. \A r : Handoff!Accepted(r)' <=> Handoff!Accepted(r)
    BY <2>1 DEF Handoff!Accepted
  <2> QED
    BY <2>1, <2>3, <2>4 DEF Handoff!IInv, Handoff!CompletionsStand
<1>13. CASE Handoff!Restart
  <2>1. v17' = "home" /\ v15'.request = 0 /\ v15' = Handoff!NoReview
    BY <1>13, NoWorkIsWork DEF Handoff!Restart, Handoff!Rests
  <2>2. CASE UNCHANGED <<v1, v2, v5, v6, v19>>
    BY <1>3, <2>1, <2>2
  <2>3. CASE v1' \in v2 /\ v2' = {v1'} /\ v19' = Handoff!NoWork
    <3>1. v1'.external # 0 => v1'.completed = 0
      BY <2>3 DEF Handoff!IInv, Handoff!CopyMayLast
    <3> QED
      BY <2>1, <2>3, <3>1 DEF Handoff!CompletionsStand, Handoff!Accepted
  <2> QED
    BY <1>13, <2>2, <2>3 DEF Handoff!Restart
<1>14. CASE Handoff!LinkTask
  <2>1. v8 \in 0 .. MaxTask
    BY DEF Handoff!IInv, Handoff!TypeOK, Handoff!SavesOK
  <2>2. LET new == Handoff!Linked(v8) IN
        /\ new \in Handoff!Links /\ new.external = 0 /\ new.completed = 0
        /\ v2' \subseteq v2 \cup {new}
    BY <1>5, <1>14, <2>1, LinkedIsLink, RecordWrites DEF Handoff!LinkTask
  <2>3. UNCHANGED <<v6, v17, v18, v19>> /\ v15'.request \in {v15.request, 0}
    BY <1>14, NoWorkIsWork DEF Handoff!LinkTask
  <2> QED
    BY <1>4, <2>2, <2>3
<1>15. CASE Handoff!Abandon
  <2>1. LET new == [v3 EXCEPT !.external = 0, !.ticket = FALSE, !.launch = FALSE] IN
        /\ new \in Handoff!Links /\ new.external = 0 /\ new.completed = v3.completed
        /\ v2' \subseteq v2 \cup {new}
    BY <1>5, <1>15, AbandonedIsLink, RecordWrites DEF Handoff!Abandon
  <2>2. UNCHANGED <<v6, v17, v18, v19>> /\ v15'.request \in {v15.request, 0}
    BY <1>15, NoWorkIsWork DEF Handoff!Abandon
  <2> QED
    BY <1>4, <2>1, <2>2
<1>16. CASE Handoff!Retains
  <2>1. LET new == [v3 EXCEPT !.ticket = TRUE] IN
        /\ new \in Handoff!Links /\ new.external = v3.external /\ new.completed = v3.completed
        /\ v2' \subseteq v2 \cup {new}
    BY <1>5, <1>16, RetainedIsLink, RecordWrites DEF Handoff!Retains
  <2>2. UNCHANGED <<v6, v15, v19>> /\ v17' \notin Looks
    BY <1>16 DEF Handoff!Retains, Handoff!Rests
  <2> QED
    BY <1>4, <2>1, <2>2
<1>17. CASE Handoff!Issues
  <2>1. LET new == [v3 EXCEPT !.launch = TRUE] IN
        /\ new \in Handoff!Links /\ new.external = v3.external /\ new.completed = v3.completed
        /\ v2' \subseteq v2 \cup {new}
    BY <1>5, <1>17, IssuedIsLink, RecordWrites DEF Handoff!Issues
  <2>2. UNCHANGED <<v6, v15, v19>> /\ v17' \notin Looks
    BY <1>17 DEF Handoff!Issues, Handoff!Rests
  <2> QED
    BY <1>4, <2>1, <2>2
<1>18. CASE Handoff!Registers
  <2>1. /\ v17' \notin Looks /\ UNCHANGED <<v6, v19>> /\ v15'.request \in {v15.request, 0}
    BY <1>18, NoWorkIsWork DEF Handoff!Registers, Handoff!Rests
  <2>2. v18.request \in Handoff!Requests /\ v18.request \notin v20
    BY <1>18 DEF Handoff!Registers, Handoff!IInv, Handoff!OperandsAreRight,
       Handoff!RequestsAreAsked, Handoff!TypeOK, Handoff!RequestsOK
  <2>3. LET new == [Handoff!Linked(v3.task) EXCEPT !.external = v18.request] IN
        /\ new \in Handoff!Links /\ new.external = v18.request /\ new.completed = 0
        /\ v2' \subseteq v2 \cup {new}
    <3>1. LET new == [Handoff!Linked(v3.task) EXCEPT !.external = v18.request] IN
          /\ new \in Handoff!Links /\ new.external = v18.request /\ new.completed = 0
      BY <1>5, <2>2, AskedIsLink
    <3> QED
      BY <1>5, <1>18, <3>1, RecordWrites DEF Handoff!Registers
  <2>4. ~ Handoff!Accepted(v18.request)
    <3>1. v17 = "authorizing"
      BY <1>18 DEF Handoff!Registers
    <3>2. \A lasting \in v2 : lasting.completed # 0 => lasting.completed \in v20
      BY DEF Handoff!IInv, Handoff!CompletionIsAuthorized
    <3>3. v15.request # 0 => v15.request \in v20
      BY ReviewsAreMade DEF Handoff!IInv, Handoff!SubmissionsAreKept, Handoff!TypeOK,
         Handoff!RequestsOK
    <3> QED
      BY <2>2, <3>1, <3>2, <3>3 DEF Handoff!Accepted
  <2>5. PICK new \in Handoff!Links : /\ new.external = v18.request /\ new.completed = 0
                                     /\ v2' \subseteq v2 \cup {new}
    BY <2>3
  <2>6. \A r \in Handoff!Requests : /\ Handoff!Accepted(r)' => Handoff!Accepted(r)
                                    /\ Pending(r)' => Pending(r) \/ r = v18.request
    BY <2>1, <2>5 DEF Handoff!Accepted
  <2> QED
    BY <1>2, <2>1, <2>4, <2>6
<1>19. CASE Handoff!Admits
  <2>1. /\ v17 = "taking" /\ UNCHANGED <<v6, v19>> /\ v15'.request = 0
        /\ v17' \in Looks => v18'.request = v18.request
    BY <1>19, NoWorkIsWork DEF Handoff!Admits, Handoff!BeginsReview, Handoff!Rests
  <2>2. LET new == [Handoff!Linked(v3.task) EXCEPT !.completed = v18.request,
                                                   !.capture = v18.source] IN
        /\ new \in Handoff!Links /\ new.external = 0 /\ new.completed = v18.request
        /\ v2' \subseteq v2 \cup {new}
    <3>1. v18.request \in 0 .. MaxRequest /\ v18.source \in 0 .. MaxSource
      BY WorksAreMade DEF Handoff!IInv, Handoff!TypeOK, Handoff!StepsOK
    <3>2. LET new == [Handoff!Linked(v3.task) EXCEPT !.completed = v18.request,
                                                     !.capture = v18.source] IN
          /\ new \in Handoff!Links /\ new.external = 0 /\ new.completed = v18.request
      BY <1>5, <3>1, AdmittedIsLink
    <3> QED
      BY <1>5, <1>19, <3>2, RecordWrites DEF Handoff!Admits
  <2>3. PICK new \in Handoff!Links : /\ new.external = 0 /\ new.completed = v18.request
                                     /\ v2' \subseteq v2 \cup {new}
    BY <2>2
  <2>4. \A r \in Handoff!Requests : /\ Handoff!Accepted(r)' => Handoff!Accepted(r)
                                    /\ Pending(r)' => Pending(r)
    BY <2>1, <2>3 DEF Handoff!Accepted
  <2> QED
    BY <1>2, <2>1, <2>4
<1> QED
  BY <1>6, <1>7, <1>8, <1>9, <1>10, <1>11, <1>12, <1>13, <1>14, <1>15, <1>16, <1>17, <1>18,
     <1>19 DEF Handoff!Next

LEMMA HandoffStep == Handoff!IInv /\ Handoff!Next => Handoff!IInv'
<1> SUFFICES ASSUME Handoff!IInv, Handoff!Next PROVE Handoff!IInv'
  OBVIOUS
<1>0. Handoff!CompletionsStand'
  BY CompletionsStep
<1> USE <1>0, BoundsAreNumbers DEF Handoff!Requests, Handoff!journal, Handoff!jobs, Handoff!registry,
      Handoff!saves, Handoff!work, Handoff!IInv
<1>1. CASE Handoff!LinkTask
  <2>1. /\ v17 = "home" /\ v3.external = 0 /\ v8 \in 0 .. MaxTask
        /\ {v1, v3} \subseteq v2 /\ Handoff!RecordOK
    BY <1>1 DEF Handoff!LinkTask, Handoff!Home, Handoff!TypeOK, Handoff!SavesOK,
       Handoff!CopyMayLast
  <2>2. UNCHANGED <<v5, v6, v7, v8, v9, v10, v11, v13, v17, v18, v19, v20,
                       v21, v22, v23>>
    BY <1>1 DEF Handoff!LinkTask, Handoff!Home
  <2>3. \A r \in v20 : v21[r] # "open"
    BY <1>1, LinksAreTyped DEF Handoff!LinkTask, Handoff!Home, Handoff!AuthorsAreKnown,
       Handoff!CopyMayLast, Handoff!TypeOK, Handoff!RequestsOK, Handoff!RecordOK
  <2>4. ASSUME NEW new \in Handoff!Links,
             new.external = 0, new.completed = 0,
             v1' = new, v2' = {new}, v3' = new, v4' \in BOOLEAN,
             v12' = "none", v14' = 0, v15' = Handoff!NoReview, v16' = 0
      PROVE  Handoff!IInv'
    <3> USE <2>1, <2>2, <2>3, <2>4 DEF Handoff!TypeOK
    <3>1. Handoff!TypeOK'
      <4>1. Handoff!RecordOK'
        BY LinkedIsLink DEF Handoff!RecordOK
      <4>2. Handoff!JobsOK'
        BY DEF Handoff!JobsOK
      <4>3. Handoff!SavesOK'
        BY DEF Handoff!SavesOK, Handoff!Sources, Handoff!Bases
      <4>4. Handoff!RequestsOK'
        BY NoWorkIsWork, ReviewsAreMade, WorksAreMade DEF Handoff!RequestsOK,
           Handoff!StepsOK, Handoff!SavesOK, Handoff!Bases
      <4>5. Handoff!StepsOK'
        BY NoWorkIsWork, WorksAreMade DEF Handoff!StepsOK, Handoff!SavesOK,
           Handoff!RequestsOK, Handoff!Sources
      <4> QED
        BY <4>1, <4>2, <4>3, <4>4, <4>5
    <3>2. Handoff!CopyMayLast'
      BY DEF Handoff!CopyMayLast, Handoff!RequestsOK, Handoff!StepsOK,
         Handoff!CompletionIsAuthorized
    <3>3. Handoff!RequestsAreAsked'
      BY DEF Handoff!RequestsAreAsked, Handoff!RequestsOK, Handoff!StepsOK,
         Handoff!CopyMayLast
    <3>4. Handoff!SubmissionsAreKept'
      BY NoWorkIsWork DEF Handoff!SubmissionsAreKept, Handoff!RequestsOK, Handoff!StepsOK,
         Handoff!JobsOK, Handoff!CopyMayLast, Handoff!OperandsAreRight, Handoff!Submits
    <3>5. Handoff!OperandsAreRight'
      BY NoWorkIsWork DEF Handoff!OperandsAreRight, Handoff!RequestsOK, Handoff!StepsOK,
         Handoff!Submits, Handoff!CopyMayLast
    <3>6. Handoff!AuthorsAreKnown'
      BY DEF Handoff!AuthorsAreKnown, Handoff!RequestsOK, Handoff!StepsOK,
         Handoff!CopyMayLast, Handoff!OperandsAreRight
    <3>7. Handoff!CompletionIsAuthorized'
      BY LinksAreTyped DEF Handoff!CompletionIsAuthorized, Handoff!RequestsOK,
         Handoff!StepsOK, Handoff!CopyMayLast, Handoff!SubmissionsAreKept, Handoff!RecordOK
    <3>8. Handoff!ReviewIsOfRequest'
      BY NoWorkIsWork DEF Handoff!ReviewIsOfRequest, Handoff!RequestsOK, Handoff!StepsOK,
         Handoff!Submits, Handoff!OperandsAreRight, Handoff!SubmissionsAreKept
    <3> QED
      BY <3>1, <3>2, <3>3, <3>4, <3>5, <3>6, <3>7, <3>8
  <2>5. ASSUME NEW new \in Handoff!Links,
             new.external = 0, new.completed = 0,
             v1' \in v2', v3' \in v2', v2' \subseteq v2 \cup {new}, v3' = v3,
             v4' \in BOOLEAN, UNCHANGED <<v12, v14, v15, v16>>
      PROVE  Handoff!IInv'
    <3> USE <2>1, <2>2, <2>3, <2>5 DEF Handoff!TypeOK
    <3>1. Handoff!TypeOK'
      <4>1. Handoff!RecordOK'
        BY LinkedIsLink DEF Handoff!RecordOK
      <4>2. Handoff!JobsOK'
        BY DEF Handoff!JobsOK
      <4>3. Handoff!SavesOK'
        BY DEF Handoff!SavesOK, Handoff!Sources, Handoff!Bases
      <4>4. Handoff!RequestsOK'
        BY NoWorkIsWork, ReviewsAreMade, WorksAreMade DEF Handoff!RequestsOK,
           Handoff!StepsOK, Handoff!SavesOK, Handoff!Bases
      <4>5. Handoff!StepsOK'
        BY NoWorkIsWork, WorksAreMade DEF Handoff!StepsOK, Handoff!SavesOK,
           Handoff!RequestsOK, Handoff!Sources
      <4> QED
        BY <4>1, <4>2, <4>3, <4>4, <4>5
    <3>2. Handoff!CopyMayLast'
      BY DEF Handoff!CopyMayLast, Handoff!RequestsOK, Handoff!StepsOK,
         Handoff!CompletionIsAuthorized
    <3>3. Handoff!RequestsAreAsked'
      BY DEF Handoff!RequestsAreAsked, Handoff!RequestsOK, Handoff!StepsOK,
         Handoff!CopyMayLast
    <3>4. Handoff!SubmissionsAreKept'
      BY NoWorkIsWork DEF Handoff!SubmissionsAreKept, Handoff!RequestsOK, Handoff!StepsOK,
         Handoff!JobsOK, Handoff!CopyMayLast, Handoff!OperandsAreRight, Handoff!Submits
    <3>5. Handoff!OperandsAreRight'
      BY NoWorkIsWork DEF Handoff!OperandsAreRight, Handoff!RequestsOK, Handoff!StepsOK,
         Handoff!Submits, Handoff!CopyMayLast
    <3>6. Handoff!AuthorsAreKnown'
      BY DEF Handoff!AuthorsAreKnown, Handoff!RequestsOK, Handoff!StepsOK,
         Handoff!CopyMayLast, Handoff!OperandsAreRight
    <3>7. Handoff!CompletionIsAuthorized'
      BY LinksAreTyped DEF Handoff!CompletionIsAuthorized, Handoff!RequestsOK,
         Handoff!StepsOK, Handoff!CopyMayLast, Handoff!SubmissionsAreKept, Handoff!RecordOK
    <3>8. Handoff!ReviewIsOfRequest'
      BY NoWorkIsWork DEF Handoff!ReviewIsOfRequest, Handoff!RequestsOK, Handoff!StepsOK,
         Handoff!Submits, Handoff!OperandsAreRight, Handoff!SubmissionsAreKept
    <3> QED
      BY <3>1, <3>2, <3>3, <3>4, <3>5, <3>6, <3>7, <3>8
  <2> QED
    BY <1>1, LinkedIsLink, RecordWrites, <2>1, <2>4, <2>5 DEF Handoff!LinkTask
<1>2. CASE Handoff!EndsReview
  <2>1. Handoff!TypeOK'
    <3> USE <1>2 DEF Handoff!EndsReview, Handoff!Rests, Handoff!TypeOK
    <3>1. Handoff!RecordOK'
      BY LinkedIsLink DEF Handoff!RecordOK
    <3>2. Handoff!JobsOK'
      BY DEF Handoff!JobsOK
    <3>3. Handoff!SavesOK'
      BY DEF Handoff!SavesOK, Handoff!Sources, Handoff!Bases
    <3>4. Handoff!RequestsOK'
      BY NoWorkIsWork, ReviewsAreMade, WorksAreMade DEF Handoff!RequestsOK, Handoff!StepsOK,
         Handoff!SavesOK, Handoff!Bases
    <3>5. Handoff!StepsOK'
      BY NoWorkIsWork, WorksAreMade DEF Handoff!StepsOK, Handoff!SavesOK,
         Handoff!RequestsOK, Handoff!Sources
    <3> QED
      BY <3>1, <3>2, <3>3, <3>4, <3>5
  <2>2. Handoff!CopyMayLast'
    BY <1>2 DEF Handoff!EndsReview, Handoff!Rests, Handoff!CopyMayLast, Handoff!TypeOK,
       Handoff!RequestsOK, Handoff!StepsOK, Handoff!CompletionIsAuthorized
  <2>3. Handoff!RequestsAreAsked'
    BY <1>2 DEF Handoff!EndsReview, Handoff!Rests, Handoff!RequestsAreAsked, Handoff!TypeOK,
       Handoff!RequestsOK, Handoff!StepsOK, Handoff!CopyMayLast
  <2>4. Handoff!SubmissionsAreKept'
    <3>1. \/ UNCHANGED v15
          \/ /\ v15' = [request |-> v18.request, source |-> v18.source, basis |-> v11]
             /\ v18.request # 0 =>
                  Handoff!Submits(v18.request, v18.source) /\ v13[v18.request].basis = v11
      BY <1>2 DEF Handoff!EndsReview, Handoff!OperandsAreRight
    <3>2. UNCHANGED <<v2, v5, v6, v13, v19, v20, v22>>
      BY <1>2 DEF Handoff!EndsReview
    <3>3. v15'.request # 0 => v22[v15'.request] # 0
      BY <3>1 DEF Handoff!SubmissionsAreKept, Handoff!Submits
    <3> QED
      BY <3>2, <3>3 DEF Handoff!SubmissionsAreKept
  <2>5. Handoff!OperandsAreRight'
    BY <1>2, NoWorkIsWork DEF Handoff!EndsReview, Handoff!Rests, Handoff!OperandsAreRight,
       Handoff!TypeOK, Handoff!RequestsOK, Handoff!StepsOK, Handoff!Submits,
       Handoff!CopyMayLast
  <2>6. Handoff!AuthorsAreKnown'
    BY <1>2 DEF Handoff!EndsReview, Handoff!Rests, Handoff!AuthorsAreKnown, Handoff!TypeOK,
       Handoff!RequestsOK, Handoff!StepsOK, Handoff!CopyMayLast, Handoff!OperandsAreRight
  <2>7. Handoff!CompletionIsAuthorized'
    BY <1>2, LinksAreTyped DEF Handoff!EndsReview, Handoff!Rests,
       Handoff!CompletionIsAuthorized, Handoff!TypeOK, Handoff!RequestsOK, Handoff!StepsOK,
       Handoff!CopyMayLast, Handoff!SubmissionsAreKept, Handoff!RecordOK
  <2>8. Handoff!ReviewIsOfRequest'
    <3>1. \/ UNCHANGED v15
          \/ /\ v15' = [request |-> v18.request, source |-> v18.source, basis |-> v11]
             /\ v18.request # 0 =>
                  Handoff!Submits(v18.request, v18.source) /\ v13[v18.request].basis = v11
      BY <1>2 DEF Handoff!EndsReview, Handoff!OperandsAreRight
    <3>2. UNCHANGED <<v2, v5, v6, v13, v19, v20, v22>>
      BY <1>2 DEF Handoff!EndsReview
    <3>3. CASE UNCHANGED v15
      BY <3>2, <3>3 DEF Handoff!ReviewIsOfRequest
    <3>4. CASE v15' = [request |-> v18.request, source |-> v18.source, basis |-> v11]
      BY <3>1, <3>2, <3>4 DEF Handoff!ReviewIsOfRequest, Handoff!Submits
    <3> QED
      BY <3>1, <3>3, <3>4
  <2> QED
    BY <2>1, <2>2, <2>3, <2>4, <2>5, <2>6, <2>7, <2>8
<1>3. CASE Handoff!PollsStale
  <2> USE <1>3 DEF Handoff!PollsStale, Handoff!TypeOK
  <2>1. Handoff!TypeOK'
    <3>1. Handoff!RecordOK'
      BY LinkedIsLink DEF Handoff!RecordOK
    <3>2. Handoff!JobsOK'
      BY DEF Handoff!JobsOK
    <3>3. Handoff!SavesOK'
      BY DEF Handoff!SavesOK, Handoff!Sources, Handoff!Bases
    <3>4. Handoff!RequestsOK'
      BY NoWorkIsWork, ReviewsAreMade, WorksAreMade DEF Handoff!RequestsOK, Handoff!StepsOK,
         Handoff!SavesOK, Handoff!Bases
    <3>5. Handoff!StepsOK'
      BY NoWorkIsWork, WorksAreMade DEF Handoff!StepsOK, Handoff!SavesOK,
         Handoff!RequestsOK, Handoff!Sources
    <3> QED
      BY <3>1, <3>2, <3>3, <3>4, <3>5
  <2>2. Handoff!CopyMayLast'
    BY DEF Handoff!CopyMayLast, Handoff!RequestsOK, Handoff!StepsOK,
       Handoff!CompletionIsAuthorized
  <2>3. Handoff!RequestsAreAsked'
    BY DEF Handoff!RequestsAreAsked, Handoff!RequestsOK, Handoff!StepsOK,
       Handoff!CopyMayLast
  <2>4. Handoff!SubmissionsAreKept'
    BY NoWorkIsWork DEF Handoff!SubmissionsAreKept, Handoff!RequestsOK, Handoff!StepsOK,
       Handoff!JobsOK, Handoff!CopyMayLast, Handoff!OperandsAreRight, Handoff!Submits
  <2>5. Handoff!OperandsAreRight'
    BY NoWorkIsWork DEF Handoff!OperandsAreRight, Handoff!RequestsOK, Handoff!StepsOK,
       Handoff!Submits, Handoff!CopyMayLast
  <2>6. Handoff!AuthorsAreKnown'
    BY DEF Handoff!AuthorsAreKnown, Handoff!RequestsOK, Handoff!StepsOK,
       Handoff!CopyMayLast, Handoff!OperandsAreRight
  <2>7. Handoff!CompletionIsAuthorized'
    BY LinksAreTyped DEF Handoff!CompletionIsAuthorized, Handoff!RequestsOK,
       Handoff!StepsOK, Handoff!CopyMayLast, Handoff!SubmissionsAreKept, Handoff!RecordOK
  <2>8. Handoff!ReviewIsOfRequest'
    BY NoWorkIsWork DEF Handoff!ReviewIsOfRequest, Handoff!RequestsOK, Handoff!StepsOK,
       Handoff!Submits, Handoff!OperandsAreRight, Handoff!SubmissionsAreKept
  <2> QED
    BY <2>1, <2>2, <2>3, <2>4, <2>5, <2>6, <2>7, <2>8
<1>4. CASE Handoff!PollsOrdinary
  <2> USE <1>4 DEF Handoff!PollsOrdinary, Handoff!BeginsReview, Handoff!Rests, Handoff!Home,
        Handoff!TypeOK
  <2>1. Handoff!TypeOK'
    <3>1. Handoff!RecordOK'
      BY LinkedIsLink DEF Handoff!RecordOK
    <3>2. Handoff!JobsOK'
      BY DEF Handoff!JobsOK
    <3>3. Handoff!SavesOK'
      BY DEF Handoff!SavesOK, Handoff!Sources, Handoff!Bases
    <3>4. Handoff!RequestsOK'
      BY NoWorkIsWork, ReviewsAreMade, WorksAreMade DEF Handoff!RequestsOK, Handoff!StepsOK,
         Handoff!SavesOK, Handoff!Bases
    <3>5. Handoff!StepsOK'
      BY NoWorkIsWork, WorksAreMade DEF Handoff!StepsOK, Handoff!SavesOK,
         Handoff!RequestsOK, Handoff!Sources
    <3> QED
      BY <3>1, <3>2, <3>3, <3>4, <3>5
  <2>2. Handoff!CopyMayLast'
    BY DEF Handoff!CopyMayLast, Handoff!RequestsOK, Handoff!StepsOK,
       Handoff!CompletionIsAuthorized
  <2>3. Handoff!RequestsAreAsked'
    BY DEF Handoff!RequestsAreAsked, Handoff!RequestsOK, Handoff!StepsOK,
       Handoff!CopyMayLast
  <2>4. Handoff!SubmissionsAreKept'
    BY NoWorkIsWork DEF Handoff!SubmissionsAreKept, Handoff!RequestsOK, Handoff!StepsOK,
       Handoff!JobsOK, Handoff!CopyMayLast, Handoff!OperandsAreRight, Handoff!Submits
  <2>5. Handoff!OperandsAreRight'
    BY NoWorkIsWork DEF Handoff!OperandsAreRight, Handoff!RequestsOK, Handoff!StepsOK,
       Handoff!Submits, Handoff!CopyMayLast
  <2>6. Handoff!AuthorsAreKnown'
    BY DEF Handoff!AuthorsAreKnown, Handoff!RequestsOK, Handoff!StepsOK,
       Handoff!CopyMayLast, Handoff!OperandsAreRight
  <2>7. Handoff!CompletionIsAuthorized'
    BY LinksAreTyped DEF Handoff!CompletionIsAuthorized, Handoff!RequestsOK,
       Handoff!StepsOK, Handoff!CopyMayLast, Handoff!SubmissionsAreKept, Handoff!RecordOK
  <2>8. Handoff!ReviewIsOfRequest'
    BY NoWorkIsWork DEF Handoff!ReviewIsOfRequest, Handoff!RequestsOK, Handoff!StepsOK,
       Handoff!Submits, Handoff!OperandsAreRight, Handoff!SubmissionsAreKept
  <2> QED
    BY <2>1, <2>2, <2>3, <2>4, <2>5, <2>6, <2>7, <2>8
<1>5. CASE Handoff!RetriesCompleted
  <2>1. Handoff!TypeOK'
    <3>1. Handoff!RecordOK'
      BY <1>5, LinkedIsLink DEF Handoff!RetriesCompleted, Handoff!BeginsReview,
         Handoff!OnBasis, Handoff!Exact, Handoff!Rests, Handoff!Home, Handoff!RecordOK,
         Handoff!TypeOK
    <3>2. Handoff!JobsOK'
      BY <1>5 DEF Handoff!RetriesCompleted, Handoff!BeginsReview, Handoff!OnBasis,
         Handoff!Exact, Handoff!Rests, Handoff!Home, Handoff!JobsOK, Handoff!TypeOK
    <3>3. Handoff!SavesOK'
      BY <1>5 DEF Handoff!RetriesCompleted, Handoff!BeginsReview, Handoff!OnBasis,
         Handoff!Exact, Handoff!Rests, Handoff!Home, Handoff!SavesOK, Handoff!TypeOK,
         Handoff!Sources, Handoff!Bases
    <3>4. Handoff!RequestsOK'
      BY <1>5, NoWorkIsWork, ReviewsAreMade, WorksAreMade DEF Handoff!RetriesCompleted,
         Handoff!BeginsReview, Handoff!OnBasis, Handoff!Exact, Handoff!Rests, Handoff!Home,
         Handoff!RequestsOK, Handoff!StepsOK, Handoff!SavesOK, Handoff!TypeOK, Handoff!Bases
    <3>5. Handoff!StepsOK'
      <4>1. /\ v3 \in Handoff!Links /\ v3.external \in 0 .. MaxRequest
            /\ v3.capture \in 0 .. MaxSource /\ v16 \in 0 .. MaxRequest /\ v7 \in 0 .. MaxSource
        BY LinksAreTyped DEF Handoff!TypeOK, Handoff!RecordOK, Handoff!RequestsOK,
           Handoff!SavesOK, Handoff!Sources
      <4>2. v18' \in {v18, Handoff!NoWork, [request |-> v16, source |-> v3.capture]}
        BY <1>5 DEF Handoff!RetriesCompleted, Handoff!BeginsReview, Handoff!Rests
      <4>3. v16 \in 0 .. MaxRequest /\ v3.capture \in 0 .. MaxSource
        BY <1>5, <4>1, ReviewsAreMade DEF Handoff!RetriesCompleted, Handoff!TypeOK,
           Handoff!RequestsOK
      <4>4. v18' \in Handoff!Works
        BY <4>2, <4>3, WorksAreMade, NoWorkIsWork DEF Handoff!TypeOK, Handoff!StepsOK
      <4> QED
        BY <1>5, <4>4 DEF Handoff!RetriesCompleted, Handoff!BeginsReview, Handoff!Rests,
           Handoff!TypeOK, Handoff!StepsOK
    <3> QED
      BY <1>5, <3>1, <3>2, <3>3, <3>4, <3>5 DEF Handoff!RetriesCompleted,
         Handoff!BeginsReview, Handoff!OnBasis, Handoff!Exact, Handoff!Rests, Handoff!Home,
         Handoff!TypeOK
  <2>2. Handoff!CopyMayLast'
    BY <1>5 DEF Handoff!RetriesCompleted, Handoff!BeginsReview, Handoff!OnBasis,
       Handoff!Exact, Handoff!Rests, Handoff!Home, Handoff!CopyMayLast, Handoff!TypeOK,
       Handoff!RequestsOK, Handoff!StepsOK, Handoff!CompletionIsAuthorized
  <2>3. Handoff!RequestsAreAsked'
    BY <1>5 DEF Handoff!RetriesCompleted, Handoff!BeginsReview, Handoff!OnBasis,
       Handoff!Exact, Handoff!Rests, Handoff!Home, Handoff!RequestsAreAsked, Handoff!TypeOK,
       Handoff!RequestsOK, Handoff!StepsOK, Handoff!CopyMayLast
  <2>4. Handoff!SubmissionsAreKept'
    BY <1>5, NoWorkIsWork DEF Handoff!RetriesCompleted, Handoff!BeginsReview,
       Handoff!OnBasis, Handoff!Exact, Handoff!Rests, Handoff!Home,
       Handoff!SubmissionsAreKept, Handoff!TypeOK, Handoff!RequestsOK, Handoff!StepsOK,
       Handoff!JobsOK, Handoff!CopyMayLast, Handoff!OperandsAreRight, Handoff!Submits
  <2>5. Handoff!OperandsAreRight'
    <3>1. v3 \in v2 /\ v3.completed = v16 /\ v16 # 0 /\ UNCHANGED <<v3, v11, v13, v20, v22>>
      BY <1>5 DEF Handoff!RetriesCompleted, Handoff!CopyMayLast
    <3>2. Handoff!Submits(v16, v3.capture)
      BY <3>1 DEF Handoff!Submits, Handoff!CompletionIsAuthorized,
         Handoff!SubmissionsAreKept
    <3>3. CASE v17' = "home"
      BY <3>3 DEF Handoff!OperandsAreRight
    <3>4. CASE /\ v17' = "analyzing" /\ v18' = [request |-> v16, source |-> v3.capture]
               /\ v13[v16].basis = v11
      BY <3>1, <3>2, <3>4 DEF Handoff!OperandsAreRight, Handoff!Submits
    <3> QED
      BY <1>5, <3>1, <3>3, <3>4 DEF Handoff!RetriesCompleted, Handoff!BeginsReview,
         Handoff!OnBasis, Handoff!Rests
  <2>6. Handoff!AuthorsAreKnown'
    BY <1>5 DEF Handoff!RetriesCompleted, Handoff!BeginsReview, Handoff!OnBasis,
       Handoff!Exact, Handoff!Rests, Handoff!Home, Handoff!AuthorsAreKnown, Handoff!TypeOK,
       Handoff!RequestsOK, Handoff!StepsOK, Handoff!CopyMayLast, Handoff!OperandsAreRight
  <2>7. Handoff!CompletionIsAuthorized'
    BY <1>5, LinksAreTyped DEF Handoff!RetriesCompleted, Handoff!BeginsReview,
       Handoff!OnBasis, Handoff!Exact, Handoff!Rests, Handoff!Home,
       Handoff!CompletionIsAuthorized, Handoff!TypeOK, Handoff!RequestsOK, Handoff!StepsOK,
       Handoff!CopyMayLast, Handoff!SubmissionsAreKept, Handoff!RecordOK
  <2>8. Handoff!ReviewIsOfRequest'
    BY <1>5, NoWorkIsWork DEF Handoff!RetriesCompleted, Handoff!BeginsReview,
       Handoff!OnBasis, Handoff!Exact, Handoff!Rests, Handoff!Home,
       Handoff!ReviewIsOfRequest, Handoff!TypeOK, Handoff!RequestsOK, Handoff!StepsOK,
       Handoff!Submits, Handoff!OperandsAreRight, Handoff!SubmissionsAreKept
  <2> QED
    BY <2>1, <2>2, <2>3, <2>4, <2>5, <2>6, <2>7, <2>8
<1>6. CASE Handoff!Request
  <2>1. Handoff!TypeOK'
    <3>1. Handoff!RecordOK'
      BY <1>6, LinkedIsLink DEF Handoff!Request, Handoff!Home, Handoff!RecordOK,
         Handoff!TypeOK
    <3>2. Handoff!JobsOK'
      BY <1>6 DEF Handoff!Request, Handoff!Home, Handoff!JobsOK, Handoff!TypeOK
    <3>3. Handoff!SavesOK'
      BY <1>6 DEF Handoff!Request, Handoff!Home, Handoff!SavesOK, Handoff!TypeOK,
         Handoff!Sources, Handoff!Bases
    <3>4. Handoff!RequestsOK'
      <4>1. PICK r \in Handoff!Requests :
                /\ v13[r] = Handoff!NoReview /\ v14' = r
                /\ v13' = [v13 EXCEPT ![r] = [request |-> r, source |-> v7, basis |-> v11]]
        BY <1>6 DEF Handoff!Request
      <4>2. [request |-> r, source |-> v7, basis |-> v11] \in Handoff!Reviews
        <5>1. r \in 0 .. MaxRequest /\ v7 \in 0 .. MaxSource /\ v11 \in 0 .. MaxBasis
          BY DEF Handoff!TypeOK, Handoff!SavesOK, Handoff!Sources, Handoff!Bases
        <5> QED
          BY <5>1, ReviewsAreMade
      <4>3. v13' \in [Handoff!Requests -> Handoff!Reviews] /\ v14' \in 0 .. MaxRequest
        BY <4>1, <4>2 DEF Handoff!TypeOK, Handoff!RequestsOK
      <4> QED
        BY <1>6, <4>3 DEF Handoff!Request, Handoff!TypeOK, Handoff!RequestsOK
    <3>5. Handoff!StepsOK'
      BY <1>6, NoWorkIsWork, WorksAreMade DEF Handoff!Request, Handoff!Home,
         Handoff!StepsOK, Handoff!SavesOK, Handoff!RequestsOK, Handoff!TypeOK,
         Handoff!Sources
    <3> QED
      BY <1>6, <3>1, <3>2, <3>3, <3>4, <3>5 DEF Handoff!Request, Handoff!Home,
         Handoff!TypeOK
  <2>2. Handoff!CopyMayLast'
    BY <1>6 DEF Handoff!Request, Handoff!Home, Handoff!CopyMayLast, Handoff!TypeOK,
       Handoff!RequestsOK, Handoff!StepsOK, Handoff!CompletionIsAuthorized
  <2>3. Handoff!RequestsAreAsked'
    <3>1. PICK r \in Handoff!Requests :
              /\ v13[r] = Handoff!NoReview /\ v14' = r
              /\ v13' = [v13 EXCEPT ![r] = [request |-> r, source |-> v7, basis |-> v11]]
      BY <1>6 DEF Handoff!Request
    <3>2. [request |-> r, source |-> v7, basis |-> v11] # Handoff!NoReview
      BY DEF Handoff!NoReview
    <3>3. UNCHANGED <<v2, v3, v20, v21>> /\ v3.external = 0
      BY <1>6 DEF Handoff!Request
    <3>4. /\ \A q \in Handoff!Requests : v13'[q] = Handoff!NoReview => v13[q] = Handoff!NoReview
          /\ v13'[r] # Handoff!NoReview
      BY <3>1, <3>2 DEF Handoff!TypeOK, Handoff!RequestsOK
    <3> QED
      BY <3>1, <3>3, <3>4 DEF Handoff!RequestsAreAsked
  <2>4. Handoff!SubmissionsAreKept'
    BY <1>6, NoWorkIsWork DEF Handoff!Request, Handoff!Home, Handoff!SubmissionsAreKept,
       Handoff!TypeOK, Handoff!RequestsOK, Handoff!StepsOK, Handoff!JobsOK,
       Handoff!CopyMayLast, Handoff!OperandsAreRight, Handoff!Submits
  <2>5. Handoff!OperandsAreRight'
    BY <1>6, NoWorkIsWork DEF Handoff!Request, Handoff!Home, Handoff!OperandsAreRight,
       Handoff!TypeOK, Handoff!RequestsOK, Handoff!StepsOK, Handoff!Submits,
       Handoff!CopyMayLast
  <2>6. Handoff!AuthorsAreKnown'
    BY <1>6 DEF Handoff!Request, Handoff!Home, Handoff!AuthorsAreKnown, Handoff!TypeOK,
       Handoff!RequestsOK, Handoff!StepsOK, Handoff!CopyMayLast, Handoff!OperandsAreRight
  <2>7. Handoff!CompletionIsAuthorized'
    BY <1>6, LinksAreTyped DEF Handoff!Request, Handoff!Home,
       Handoff!CompletionIsAuthorized, Handoff!TypeOK, Handoff!RequestsOK, Handoff!StepsOK,
       Handoff!CopyMayLast, Handoff!SubmissionsAreKept, Handoff!RecordOK
  <2>8. Handoff!ReviewIsOfRequest'
    <3>1. PICK r \in Handoff!Requests :
              /\ v13[r] = Handoff!NoReview /\ v14' = r
              /\ v13' = [v13 EXCEPT ![r] = [request |-> r, source |-> v7, basis |-> v11]]
      BY <1>6 DEF Handoff!Request
    <3>2. UNCHANGED <<v15, v22>> /\ v15.request \in 0 .. MaxRequest
      BY <1>6, ReviewsAreMade DEF Handoff!Request, Handoff!TypeOK, Handoff!RequestsOK
    <3>3. v15.request # 0 => v15.request # r
      BY <3>1, <3>2 DEF Handoff!SubmissionsAreKept, Handoff!RequestsAreAsked
    <3>4. v15.request # 0 => v13'[v15.request] = v13[v15.request]
      BY <3>1, <3>2, <3>3 DEF Handoff!TypeOK, Handoff!RequestsOK
    <3> QED
      BY <3>2, <3>4 DEF Handoff!ReviewIsOfRequest
  <2> QED
    BY <2>1, <2>2, <2>3, <2>4, <2>5, <2>6, <2>7, <2>8
<1>7. CASE Handoff!Decline
  <2> USE <1>7 DEF Handoff!Decline, Handoff!Home, Handoff!TypeOK
  <2>1. Handoff!TypeOK'
    <3>1. Handoff!RecordOK'
      BY LinkedIsLink DEF Handoff!RecordOK
    <3>2. Handoff!JobsOK'
      BY DEF Handoff!JobsOK
    <3>3. Handoff!SavesOK'
      BY DEF Handoff!SavesOK, Handoff!Sources, Handoff!Bases
    <3>4. Handoff!RequestsOK'
      BY NoWorkIsWork, ReviewsAreMade, WorksAreMade DEF Handoff!RequestsOK, Handoff!StepsOK,
         Handoff!SavesOK, Handoff!Bases
    <3>5. Handoff!StepsOK'
      BY NoWorkIsWork, WorksAreMade DEF Handoff!StepsOK, Handoff!SavesOK,
         Handoff!RequestsOK, Handoff!Sources
    <3> QED
      BY <3>1, <3>2, <3>3, <3>4, <3>5
  <2>2. Handoff!CopyMayLast'
    BY DEF Handoff!CopyMayLast, Handoff!RequestsOK, Handoff!StepsOK,
       Handoff!CompletionIsAuthorized
  <2>3. Handoff!RequestsAreAsked'
    BY DEF Handoff!RequestsAreAsked, Handoff!RequestsOK, Handoff!StepsOK,
       Handoff!CopyMayLast
  <2>4. Handoff!SubmissionsAreKept'
    BY NoWorkIsWork DEF Handoff!SubmissionsAreKept, Handoff!RequestsOK, Handoff!StepsOK,
       Handoff!JobsOK, Handoff!CopyMayLast, Handoff!OperandsAreRight, Handoff!Submits
  <2>5. Handoff!OperandsAreRight'
    BY NoWorkIsWork DEF Handoff!OperandsAreRight, Handoff!RequestsOK, Handoff!StepsOK,
       Handoff!Submits, Handoff!CopyMayLast
  <2>6. Handoff!AuthorsAreKnown'
    BY DEF Handoff!AuthorsAreKnown, Handoff!RequestsOK, Handoff!StepsOK,
       Handoff!CopyMayLast, Handoff!OperandsAreRight
  <2>7. Handoff!CompletionIsAuthorized'
    BY LinksAreTyped DEF Handoff!CompletionIsAuthorized, Handoff!RequestsOK,
       Handoff!StepsOK, Handoff!CopyMayLast, Handoff!SubmissionsAreKept, Handoff!RecordOK
  <2>8. Handoff!ReviewIsOfRequest'
    BY NoWorkIsWork DEF Handoff!ReviewIsOfRequest, Handoff!RequestsOK, Handoff!StepsOK,
       Handoff!Submits, Handoff!OperandsAreRight, Handoff!SubmissionsAreKept
  <2> QED
    BY <2>1, <2>2, <2>3, <2>4, <2>5, <2>6, <2>7, <2>8
<1>8. CASE Handoff!Authorize
  <2>1. Handoff!TypeOK'
    <3>1. Handoff!RecordOK'
      BY <1>8, LinkedIsLink DEF Handoff!Authorize, Handoff!Home, Handoff!RecordOK,
         Handoff!TypeOK
    <3>2. Handoff!JobsOK'
      BY <1>8 DEF Handoff!Authorize, Handoff!Home, Handoff!JobsOK, Handoff!TypeOK
    <3>3. Handoff!SavesOK'
      BY <1>8 DEF Handoff!Authorize, Handoff!Home, Handoff!SavesOK, Handoff!TypeOK,
         Handoff!Sources, Handoff!Bases
    <3>4. Handoff!RequestsOK'
      BY <1>8, NoWorkIsWork, ReviewsAreMade, WorksAreMade DEF Handoff!Authorize,
         Handoff!Home, Handoff!RequestsOK, Handoff!StepsOK, Handoff!SavesOK, Handoff!TypeOK,
         Handoff!Bases
    <3>5. Handoff!StepsOK'
      <4>1. /\ v3 \in Handoff!Links /\ v3.external \in 0 .. MaxRequest
            /\ v3.capture \in 0 .. MaxSource /\ v16 \in 0 .. MaxRequest /\ v7 \in 0 .. MaxSource
        BY LinksAreTyped DEF Handoff!TypeOK, Handoff!RecordOK, Handoff!RequestsOK,
           Handoff!SavesOK, Handoff!Sources
      <4>2. v18' \in {v18, Handoff!NoWork, [request |-> v14, source |-> v13[v14].source]}
        BY <1>8 DEF Handoff!Authorize
      <4>3. v14 \in 0 .. MaxRequest /\ v13[v14].source \in 0 .. MaxSource
        BY <1>8, <4>1, ReviewsAreMade DEF Handoff!Authorize, Handoff!TypeOK,
           Handoff!RequestsOK
      <4>4. v18' \in Handoff!Works
        BY <4>2, <4>3, WorksAreMade, NoWorkIsWork DEF Handoff!TypeOK, Handoff!StepsOK
      <4> QED
        BY <1>8, <4>4 DEF Handoff!Authorize, Handoff!TypeOK, Handoff!StepsOK
    <3> QED
      BY <1>8, <3>1, <3>2, <3>3, <3>4, <3>5 DEF Handoff!Authorize, Handoff!Home,
         Handoff!TypeOK
  <2>2. Handoff!CopyMayLast'
    BY <1>8 DEF Handoff!Authorize, Handoff!Home, Handoff!CopyMayLast, Handoff!TypeOK,
       Handoff!RequestsOK, Handoff!StepsOK, Handoff!CompletionIsAuthorized
  <2>3. Handoff!RequestsAreAsked'
    BY <1>8 DEF Handoff!Authorize, Handoff!Home, Handoff!RequestsAreAsked, Handoff!TypeOK,
       Handoff!RequestsOK, Handoff!StepsOK, Handoff!CopyMayLast
  <2>4. Handoff!SubmissionsAreKept'
    BY <1>8, NoWorkIsWork DEF Handoff!Authorize, Handoff!Home, Handoff!SubmissionsAreKept,
       Handoff!TypeOK, Handoff!RequestsOK, Handoff!StepsOK, Handoff!JobsOK,
       Handoff!CopyMayLast, Handoff!OperandsAreRight, Handoff!Submits
  <2>5. Handoff!OperandsAreRight'
    BY <1>8, NoWorkIsWork DEF Handoff!Authorize, Handoff!Home, Handoff!OperandsAreRight,
       Handoff!TypeOK, Handoff!RequestsOK, Handoff!StepsOK, Handoff!Submits,
       Handoff!CopyMayLast
  <2>6. Handoff!AuthorsAreKnown'
    BY <1>8 DEF Handoff!Authorize, Handoff!Home, Handoff!AuthorsAreKnown, Handoff!TypeOK,
       Handoff!RequestsOK, Handoff!StepsOK, Handoff!CopyMayLast, Handoff!OperandsAreRight
  <2>7. Handoff!CompletionIsAuthorized'
    BY <1>8, LinksAreTyped DEF Handoff!Authorize, Handoff!Home,
       Handoff!CompletionIsAuthorized, Handoff!TypeOK, Handoff!RequestsOK, Handoff!StepsOK,
       Handoff!CopyMayLast, Handoff!SubmissionsAreKept, Handoff!RecordOK
  <2>8. Handoff!ReviewIsOfRequest'
    BY <1>8, NoWorkIsWork DEF Handoff!Authorize, Handoff!Home, Handoff!ReviewIsOfRequest,
       Handoff!TypeOK, Handoff!RequestsOK, Handoff!StepsOK, Handoff!Submits,
       Handoff!OperandsAreRight, Handoff!SubmissionsAreKept
  <2> QED
    BY <2>1, <2>2, <2>3, <2>4, <2>5, <2>6, <2>7, <2>8
<1>9. CASE Handoff!Registers
  <2>1. /\ v17 = "authorizing" /\ v18.request = v14 /\ v14 \in 1 .. MaxRequest
        /\ v13[v14] # Handoff!NoReview /\ v14 \notin v20 /\ v21[v14] = "open"
        /\ v3.external = 0
    BY <1>9 DEF Handoff!Registers, Handoff!Rests, Handoff!OperandsAreRight,
       Handoff!RequestsAreAsked, Handoff!TypeOK, Handoff!RequestsOK
  <2>2. /\ v3 \in Handoff!Links /\ {v1, v3} \subseteq v2 /\ Handoff!RecordOK
        /\ v3.task \in 0 .. MaxTask
    BY <1>9, LinksAreTyped DEF Handoff!Registers, Handoff!Rests, Handoff!TypeOK,
       Handoff!RecordOK, Handoff!CopyMayLast
  <2>3. UNCHANGED <<v5, v6, v7, v8, v9, v10, v11, v13, v19, v20, v21, v22, v23>>
    BY <1>9 DEF Handoff!Registers, Handoff!Rests
  <2>4. \A r \in v20 : v21[r] # "open"
    BY <2>1, <2>2, LinksAreTyped DEF Handoff!IInv, Handoff!AuthorsAreKnown,
       Handoff!CopyMayLast, Handoff!TypeOK, Handoff!RequestsOK, Handoff!RecordOK
  <2>5. LET new == [Handoff!Linked(v3.task) EXCEPT !.external = v18.request] IN
          /\ new \in Handoff!Links
          /\ new.external = v14 /\ new.completed = 0
    BY <2>1, <2>2, AskedIsLink
  <2>6. LET new == [Handoff!Linked(v3.task) EXCEPT !.external = v18.request] IN
        /\ Handoff!Written(new) =>
             v1' = new /\ v2' = {new} /\ v3' = new /\ v4' \in BOOLEAN
        /\ Handoff!WriteFails(new) =>
             /\ v1' \in v2' /\ v3' \in v2' /\ v2' \subseteq v2 \cup {new}
             /\ v3' = v3 /\ v4' \in BOOLEAN
    BY <2>2, <2>5, RecordWrites
  <2>7. ASSUME NEW new \in Handoff!Links,
             new.external = v14, new.completed = 0,
             v1' = new, v2' = {new}, v3' = new, v4' \in BOOLEAN,
             v17' = "preparing", v18' = v18, v14' = 0, v12' = v12 \/ v12' = "none",
             UNCHANGED <<v15, v16>> \/ (v15' = Handoff!NoReview /\ v16' = 0)
      PROVE  Handoff!IInv'
    <3> USE <2>1, <2>2, <2>3, <2>4, <2>7 DEF Handoff!TypeOK
    <3>1. Handoff!TypeOK'
      <4>1. Handoff!RecordOK'
        BY LinkedIsLink DEF Handoff!RecordOK
      <4>2. Handoff!JobsOK'
        BY DEF Handoff!JobsOK
      <4>3. Handoff!SavesOK'
        BY DEF Handoff!SavesOK, Handoff!Sources, Handoff!Bases
      <4>4. Handoff!RequestsOK'
        BY NoWorkIsWork, ReviewsAreMade, WorksAreMade DEF Handoff!RequestsOK,
           Handoff!StepsOK, Handoff!SavesOK, Handoff!Bases
      <4>5. Handoff!StepsOK'
        BY NoWorkIsWork, WorksAreMade DEF Handoff!StepsOK, Handoff!SavesOK,
           Handoff!RequestsOK, Handoff!Sources
      <4> QED
        BY <4>1, <4>2, <4>3, <4>4, <4>5
    <3>2. Handoff!CopyMayLast'
      BY DEF Handoff!CopyMayLast, Handoff!RequestsOK, Handoff!StepsOK,
         Handoff!CompletionIsAuthorized
    <3>3. Handoff!RequestsAreAsked'
      BY DEF Handoff!RequestsAreAsked, Handoff!RequestsOK, Handoff!StepsOK,
         Handoff!CopyMayLast
    <3>4. Handoff!SubmissionsAreKept'
      BY NoWorkIsWork DEF Handoff!SubmissionsAreKept, Handoff!RequestsOK, Handoff!StepsOK,
         Handoff!JobsOK, Handoff!CopyMayLast, Handoff!OperandsAreRight, Handoff!Submits
    <3>5. Handoff!OperandsAreRight'
      BY NoWorkIsWork DEF Handoff!OperandsAreRight, Handoff!RequestsOK, Handoff!StepsOK,
         Handoff!Submits, Handoff!CopyMayLast
    <3>6. Handoff!AuthorsAreKnown'
      BY DEF Handoff!AuthorsAreKnown, Handoff!RequestsOK, Handoff!StepsOK,
         Handoff!CopyMayLast, Handoff!OperandsAreRight
    <3>7. Handoff!CompletionIsAuthorized'
      BY LinksAreTyped DEF Handoff!CompletionIsAuthorized, Handoff!RequestsOK,
         Handoff!StepsOK, Handoff!CopyMayLast, Handoff!SubmissionsAreKept, Handoff!RecordOK
    <3>8. Handoff!ReviewIsOfRequest'
      BY NoWorkIsWork DEF Handoff!ReviewIsOfRequest, Handoff!RequestsOK, Handoff!StepsOK,
         Handoff!Submits, Handoff!OperandsAreRight, Handoff!SubmissionsAreKept
    <3> QED
      BY <3>1, <3>2, <3>3, <3>4, <3>5, <3>6, <3>7, <3>8
  <2>8. ASSUME NEW new \in Handoff!Links,
             new.external = v14, new.completed = 0,
             v1' \in v2', v3' \in v2', v2' \subseteq v2 \cup {new}, v3' = v3,
             v4' \in BOOLEAN, v17' = "home", v18' = Handoff!NoWork,
             UNCHANGED <<v12, v14, v15, v16>>
      PROVE  Handoff!IInv'
    <3> USE <2>1, <2>2, <2>3, <2>4, <2>8 DEF Handoff!TypeOK
    <3>1. Handoff!TypeOK'
      <4>1. Handoff!RecordOK'
        BY LinkedIsLink DEF Handoff!RecordOK
      <4>2. Handoff!JobsOK'
        BY DEF Handoff!JobsOK
      <4>3. Handoff!SavesOK'
        BY DEF Handoff!SavesOK, Handoff!Sources, Handoff!Bases
      <4>4. Handoff!RequestsOK'
        BY NoWorkIsWork, ReviewsAreMade, WorksAreMade DEF Handoff!RequestsOK,
           Handoff!StepsOK, Handoff!SavesOK, Handoff!Bases
      <4>5. Handoff!StepsOK'
        BY NoWorkIsWork, WorksAreMade DEF Handoff!StepsOK, Handoff!SavesOK,
           Handoff!RequestsOK, Handoff!Sources
      <4> QED
        BY <4>1, <4>2, <4>3, <4>4, <4>5
    <3>2. Handoff!CopyMayLast'
      BY DEF Handoff!CopyMayLast, Handoff!RequestsOK, Handoff!StepsOK,
         Handoff!CompletionIsAuthorized
    <3>3. Handoff!RequestsAreAsked'
      BY DEF Handoff!RequestsAreAsked, Handoff!RequestsOK, Handoff!StepsOK,
         Handoff!CopyMayLast
    <3>4. Handoff!SubmissionsAreKept'
      BY NoWorkIsWork DEF Handoff!SubmissionsAreKept, Handoff!RequestsOK, Handoff!StepsOK,
         Handoff!JobsOK, Handoff!CopyMayLast, Handoff!OperandsAreRight, Handoff!Submits
    <3>5. Handoff!OperandsAreRight'
      BY NoWorkIsWork DEF Handoff!OperandsAreRight, Handoff!RequestsOK, Handoff!StepsOK,
         Handoff!Submits, Handoff!CopyMayLast
    <3>6. Handoff!AuthorsAreKnown'
      BY DEF Handoff!AuthorsAreKnown, Handoff!RequestsOK, Handoff!StepsOK,
         Handoff!CopyMayLast, Handoff!OperandsAreRight
    <3>7. Handoff!CompletionIsAuthorized'
      BY LinksAreTyped DEF Handoff!CompletionIsAuthorized, Handoff!RequestsOK,
         Handoff!StepsOK, Handoff!CopyMayLast, Handoff!SubmissionsAreKept, Handoff!RecordOK
    <3>8. Handoff!ReviewIsOfRequest'
      BY NoWorkIsWork DEF Handoff!ReviewIsOfRequest, Handoff!RequestsOK, Handoff!StepsOK,
         Handoff!Submits, Handoff!OperandsAreRight, Handoff!SubmissionsAreKept
    <3> QED
      BY <3>1, <3>2, <3>3, <3>4, <3>5, <3>6, <3>7, <3>8
  <2>9. CASE UNCHANGED <<v1, v2, v3, v4, v12, v14, v15, v16>> /\ v17' = "home" /\ v18' = Handoff!NoWork
    <3> USE <2>1, <2>2, <2>3, <2>4, <2>9 DEF Handoff!TypeOK
    <3>1. Handoff!TypeOK'
      <4>1. Handoff!RecordOK'
        BY LinkedIsLink DEF Handoff!RecordOK
      <4>2. Handoff!JobsOK'
        BY DEF Handoff!JobsOK
      <4>3. Handoff!SavesOK'
        BY DEF Handoff!SavesOK, Handoff!Sources, Handoff!Bases
      <4>4. Handoff!RequestsOK'
        BY NoWorkIsWork, ReviewsAreMade, WorksAreMade DEF Handoff!RequestsOK,
           Handoff!StepsOK, Handoff!SavesOK, Handoff!Bases
      <4>5. Handoff!StepsOK'
        BY NoWorkIsWork, WorksAreMade DEF Handoff!StepsOK, Handoff!SavesOK,
           Handoff!RequestsOK, Handoff!Sources
      <4> QED
        BY <4>1, <4>2, <4>3, <4>4, <4>5
    <3>2. Handoff!CopyMayLast'
      BY DEF Handoff!CopyMayLast, Handoff!RequestsOK, Handoff!StepsOK,
         Handoff!CompletionIsAuthorized
    <3>3. Handoff!RequestsAreAsked'
      BY DEF Handoff!RequestsAreAsked, Handoff!RequestsOK, Handoff!StepsOK,
         Handoff!CopyMayLast
    <3>4. Handoff!SubmissionsAreKept'
      BY NoWorkIsWork DEF Handoff!SubmissionsAreKept, Handoff!RequestsOK, Handoff!StepsOK,
         Handoff!JobsOK, Handoff!CopyMayLast, Handoff!OperandsAreRight, Handoff!Submits
    <3>5. Handoff!OperandsAreRight'
      BY NoWorkIsWork DEF Handoff!OperandsAreRight, Handoff!RequestsOK, Handoff!StepsOK,
         Handoff!Submits, Handoff!CopyMayLast
    <3>6. Handoff!AuthorsAreKnown'
      BY DEF Handoff!AuthorsAreKnown, Handoff!RequestsOK, Handoff!StepsOK,
         Handoff!CopyMayLast, Handoff!OperandsAreRight
    <3>7. Handoff!CompletionIsAuthorized'
      BY LinksAreTyped DEF Handoff!CompletionIsAuthorized, Handoff!RequestsOK,
         Handoff!StepsOK, Handoff!CopyMayLast, Handoff!SubmissionsAreKept, Handoff!RecordOK
    <3>8. Handoff!ReviewIsOfRequest'
      BY NoWorkIsWork DEF Handoff!ReviewIsOfRequest, Handoff!RequestsOK, Handoff!StepsOK,
         Handoff!Submits, Handoff!OperandsAreRight, Handoff!SubmissionsAreKept
    <3> QED
      BY <3>1, <3>2, <3>3, <3>4, <3>5, <3>6, <3>7, <3>8
  <2> QED
    BY <1>9, <2>1, <2>5, <2>6, <2>7, <2>8, <2>9 DEF Handoff!Registers, Handoff!Rests
<1>10. CASE Handoff!Prepares
  <2> USE <1>10 DEF Handoff!Prepares, Handoff!Rests, Handoff!TypeOK
  <2>1. Handoff!TypeOK'
    <3>1. Handoff!RecordOK'
      BY LinkedIsLink DEF Handoff!RecordOK
    <3>2. Handoff!JobsOK'
      BY DEF Handoff!JobsOK
    <3>3. Handoff!SavesOK'
      BY DEF Handoff!SavesOK, Handoff!Sources, Handoff!Bases
    <3>4. Handoff!RequestsOK'
      BY NoWorkIsWork, ReviewsAreMade, WorksAreMade DEF Handoff!RequestsOK, Handoff!StepsOK,
         Handoff!SavesOK, Handoff!Bases
    <3>5. Handoff!StepsOK'
      BY NoWorkIsWork, WorksAreMade DEF Handoff!StepsOK, Handoff!SavesOK,
         Handoff!RequestsOK, Handoff!Sources
    <3> QED
      BY <3>1, <3>2, <3>3, <3>4, <3>5
  <2>2. Handoff!CopyMayLast'
    BY DEF Handoff!CopyMayLast, Handoff!RequestsOK, Handoff!StepsOK,
       Handoff!CompletionIsAuthorized
  <2>3. Handoff!RequestsAreAsked'
    BY DEF Handoff!RequestsAreAsked, Handoff!RequestsOK, Handoff!StepsOK,
       Handoff!CopyMayLast
  <2>4. Handoff!SubmissionsAreKept'
    BY SMTT(30), NoWorkIsWork DEF Handoff!SubmissionsAreKept, Handoff!RequestsOK, Handoff!StepsOK,
       Handoff!JobsOK, Handoff!CopyMayLast, Handoff!OperandsAreRight, Handoff!Submits
  <2>5. Handoff!OperandsAreRight'
    BY NoWorkIsWork DEF Handoff!OperandsAreRight, Handoff!RequestsOK, Handoff!StepsOK,
       Handoff!Submits, Handoff!CopyMayLast
  <2>6. Handoff!AuthorsAreKnown'
    BY DEF Handoff!AuthorsAreKnown, Handoff!RequestsOK, Handoff!StepsOK,
       Handoff!CopyMayLast, Handoff!OperandsAreRight
  <2>7. Handoff!CompletionIsAuthorized'
    BY LinksAreTyped DEF Handoff!CompletionIsAuthorized, Handoff!RequestsOK,
       Handoff!StepsOK, Handoff!CopyMayLast, Handoff!SubmissionsAreKept, Handoff!RecordOK
  <2>8. Handoff!ReviewIsOfRequest'
    BY NoWorkIsWork DEF Handoff!ReviewIsOfRequest, Handoff!RequestsOK, Handoff!StepsOK,
       Handoff!Submits, Handoff!OperandsAreRight, Handoff!SubmissionsAreKept
  <2> QED
    BY <2>1, <2>2, <2>3, <2>4, <2>5, <2>6, <2>7, <2>8
<1>11. CASE Handoff!Retains
  <2>1. /\ v17 = "prepared" /\ v18.request = v3.external /\ v3.external # 0
    BY <1>11 DEF Handoff!Retains, Handoff!Rests, Handoff!OperandsAreRight
  <2>2. v3 \in Handoff!Links /\ {v1, v3} \subseteq v2 /\ Handoff!RecordOK
    BY <1>11 DEF Handoff!Retains, Handoff!Rests, Handoff!TypeOK, Handoff!RecordOK,
       Handoff!CopyMayLast
  <2>3. UNCHANGED <<v5, v6, v7, v8, v9, v10, v11, v12, v13, v14, v15, v16,
                       v19, v20, v21, v22, v23>>
    BY <1>11 DEF Handoff!Retains, Handoff!Rests
  <2>4. ASSUME NEW new \in Handoff!Links,
             new.external = v3.external, new.completed = v3.completed,
             new.capture = v3.capture, v3.launch => new.launch, new.ticket,
             v1' = new, v2' = {new}, v3' = new, v4' \in BOOLEAN,
             v17' = "checking", v18' = v18
      PROVE  Handoff!IInv'
    <3> USE <2>1, <2>2, <2>3, <2>4 DEF Handoff!TypeOK
    <3>1. Handoff!TypeOK'
      <4>1. Handoff!RecordOK'
        BY LinkedIsLink DEF Handoff!RecordOK
      <4>2. Handoff!JobsOK'
        BY DEF Handoff!JobsOK
      <4>3. Handoff!SavesOK'
        BY DEF Handoff!SavesOK, Handoff!Sources, Handoff!Bases
      <4>4. Handoff!RequestsOK'
        BY NoWorkIsWork, ReviewsAreMade, WorksAreMade DEF Handoff!RequestsOK,
           Handoff!StepsOK, Handoff!SavesOK, Handoff!Bases
      <4>5. Handoff!StepsOK'
        BY NoWorkIsWork, WorksAreMade DEF Handoff!StepsOK, Handoff!SavesOK,
           Handoff!RequestsOK, Handoff!Sources
      <4> QED
        BY <4>1, <4>2, <4>3, <4>4, <4>5
    <3>2. Handoff!CopyMayLast'
      BY DEF Handoff!CopyMayLast, Handoff!RequestsOK, Handoff!StepsOK,
         Handoff!CompletionIsAuthorized
    <3>3. Handoff!RequestsAreAsked'
      BY DEF Handoff!RequestsAreAsked, Handoff!RequestsOK, Handoff!StepsOK,
         Handoff!CopyMayLast
    <3>4. Handoff!SubmissionsAreKept'
      BY NoWorkIsWork DEF Handoff!SubmissionsAreKept, Handoff!RequestsOK, Handoff!StepsOK,
         Handoff!JobsOK, Handoff!CopyMayLast, Handoff!OperandsAreRight, Handoff!Submits
    <3>5. Handoff!OperandsAreRight'
      BY NoWorkIsWork DEF Handoff!OperandsAreRight, Handoff!RequestsOK, Handoff!StepsOK,
         Handoff!Submits, Handoff!CopyMayLast
    <3>6. Handoff!AuthorsAreKnown'
      BY DEF Handoff!AuthorsAreKnown, Handoff!RequestsOK, Handoff!StepsOK,
         Handoff!CopyMayLast, Handoff!OperandsAreRight
    <3>7. Handoff!CompletionIsAuthorized'
      BY LinksAreTyped DEF Handoff!CompletionIsAuthorized, Handoff!RequestsOK,
         Handoff!StepsOK, Handoff!CopyMayLast, Handoff!SubmissionsAreKept, Handoff!RecordOK
    <3>8. Handoff!ReviewIsOfRequest'
      BY NoWorkIsWork DEF Handoff!ReviewIsOfRequest, Handoff!RequestsOK, Handoff!StepsOK,
         Handoff!Submits, Handoff!OperandsAreRight, Handoff!SubmissionsAreKept
    <3> QED
      BY <3>1, <3>2, <3>3, <3>4, <3>5, <3>6, <3>7, <3>8
  <2>5. ASSUME NEW new \in Handoff!Links,
             new.external = v3.external, new.completed = v3.completed,
             new.capture = v3.capture, v3.launch => new.launch, new.ticket,
             v1' \in v2', v3' \in v2', v2' \subseteq v2 \cup {new}, v3' = v3,
             v4' \in BOOLEAN, v17' = "home", v18' = Handoff!NoWork
      PROVE  Handoff!IInv'
    <3> USE <2>1, <2>2, <2>3, <2>5 DEF Handoff!TypeOK
    <3>1. Handoff!TypeOK'
      <4>1. Handoff!RecordOK'
        BY LinkedIsLink DEF Handoff!RecordOK
      <4>2. Handoff!JobsOK'
        BY DEF Handoff!JobsOK
      <4>3. Handoff!SavesOK'
        BY DEF Handoff!SavesOK, Handoff!Sources, Handoff!Bases
      <4>4. Handoff!RequestsOK'
        BY NoWorkIsWork, ReviewsAreMade, WorksAreMade DEF Handoff!RequestsOK,
           Handoff!StepsOK, Handoff!SavesOK, Handoff!Bases
      <4>5. Handoff!StepsOK'
        BY NoWorkIsWork, WorksAreMade DEF Handoff!StepsOK, Handoff!SavesOK,
           Handoff!RequestsOK, Handoff!Sources
      <4> QED
        BY <4>1, <4>2, <4>3, <4>4, <4>5
    <3>2. Handoff!CopyMayLast'
      BY DEF Handoff!CopyMayLast, Handoff!RequestsOK, Handoff!StepsOK,
         Handoff!CompletionIsAuthorized
    <3>3. Handoff!RequestsAreAsked'
      BY DEF Handoff!RequestsAreAsked, Handoff!RequestsOK, Handoff!StepsOK,
         Handoff!CopyMayLast
    <3>4. Handoff!SubmissionsAreKept'
      BY NoWorkIsWork DEF Handoff!SubmissionsAreKept, Handoff!RequestsOK, Handoff!StepsOK,
         Handoff!JobsOK, Handoff!CopyMayLast, Handoff!OperandsAreRight, Handoff!Submits
    <3>5. Handoff!OperandsAreRight'
      BY NoWorkIsWork DEF Handoff!OperandsAreRight, Handoff!RequestsOK, Handoff!StepsOK,
         Handoff!Submits, Handoff!CopyMayLast
    <3>6. Handoff!AuthorsAreKnown'
      BY DEF Handoff!AuthorsAreKnown, Handoff!RequestsOK, Handoff!StepsOK,
         Handoff!CopyMayLast, Handoff!OperandsAreRight
    <3>7. Handoff!CompletionIsAuthorized'
      BY LinksAreTyped DEF Handoff!CompletionIsAuthorized, Handoff!RequestsOK,
         Handoff!StepsOK, Handoff!CopyMayLast, Handoff!SubmissionsAreKept, Handoff!RecordOK
    <3>8. Handoff!ReviewIsOfRequest'
      BY NoWorkIsWork DEF Handoff!ReviewIsOfRequest, Handoff!RequestsOK, Handoff!StepsOK,
         Handoff!Submits, Handoff!OperandsAreRight, Handoff!SubmissionsAreKept
    <3> QED
      BY <3>1, <3>2, <3>3, <3>4, <3>5, <3>6, <3>7, <3>8
  <2> QED
    BY <1>11, RetainedIsLink, RecordWrites, <2>2, <2>4, <2>5 DEF Handoff!Retains,
       Handoff!Rests
<1>12. CASE Handoff!Checks
  <2> USE <1>12 DEF Handoff!Checks, Handoff!Rests, Handoff!TypeOK
  <2>1. Handoff!TypeOK'
    <3>1. Handoff!RecordOK'
      BY LinkedIsLink DEF Handoff!RecordOK
    <3>2. Handoff!JobsOK'
      BY DEF Handoff!JobsOK
    <3>3. Handoff!SavesOK'
      BY DEF Handoff!SavesOK, Handoff!Sources, Handoff!Bases
    <3>4. Handoff!RequestsOK'
      BY NoWorkIsWork, ReviewsAreMade, WorksAreMade DEF Handoff!RequestsOK, Handoff!StepsOK,
         Handoff!SavesOK, Handoff!Bases
    <3>5. Handoff!StepsOK'
      BY NoWorkIsWork, WorksAreMade DEF Handoff!StepsOK, Handoff!SavesOK,
         Handoff!RequestsOK, Handoff!Sources
    <3> QED
      BY <3>1, <3>2, <3>3, <3>4, <3>5
  <2>2. Handoff!CopyMayLast'
    BY DEF Handoff!CopyMayLast, Handoff!RequestsOK, Handoff!StepsOK,
       Handoff!CompletionIsAuthorized
  <2>3. Handoff!RequestsAreAsked'
    BY DEF Handoff!RequestsAreAsked, Handoff!RequestsOK, Handoff!StepsOK,
       Handoff!CopyMayLast
  <2>4. Handoff!SubmissionsAreKept'
    BY NoWorkIsWork DEF Handoff!SubmissionsAreKept, Handoff!RequestsOK, Handoff!StepsOK,
       Handoff!JobsOK, Handoff!CopyMayLast, Handoff!OperandsAreRight, Handoff!Submits
  <2>5. Handoff!OperandsAreRight'
    BY NoWorkIsWork DEF Handoff!OperandsAreRight, Handoff!RequestsOK, Handoff!StepsOK,
       Handoff!Submits, Handoff!CopyMayLast
  <2>6. Handoff!AuthorsAreKnown'
    BY DEF Handoff!AuthorsAreKnown, Handoff!RequestsOK, Handoff!StepsOK,
       Handoff!CopyMayLast, Handoff!OperandsAreRight
  <2>7. Handoff!CompletionIsAuthorized'
    BY LinksAreTyped DEF Handoff!CompletionIsAuthorized, Handoff!RequestsOK,
       Handoff!StepsOK, Handoff!CopyMayLast, Handoff!SubmissionsAreKept, Handoff!RecordOK
  <2>8. Handoff!ReviewIsOfRequest'
    BY NoWorkIsWork DEF Handoff!ReviewIsOfRequest, Handoff!RequestsOK, Handoff!StepsOK,
       Handoff!Submits, Handoff!OperandsAreRight, Handoff!SubmissionsAreKept
  <2> QED
    BY <2>1, <2>2, <2>3, <2>4, <2>5, <2>6, <2>7, <2>8
<1>13. CASE Handoff!Issues
  <2>1. /\ v17 = "issuing" /\ v18.request = v3.external /\ v3.external # 0 /\ v3.ticket
    BY <1>13 DEF Handoff!Issues, Handoff!Rests, Handoff!OperandsAreRight
  <2>2. v3 \in Handoff!Links /\ {v1, v3} \subseteq v2 /\ Handoff!RecordOK
    BY <1>13 DEF Handoff!Issues, Handoff!Rests, Handoff!TypeOK, Handoff!RecordOK,
       Handoff!CopyMayLast
  <2>3. UNCHANGED <<v5, v6, v7, v8, v9, v10, v11, v12, v13, v14, v15, v16,
                       v19, v20, v21, v22, v23>>
    BY <1>13 DEF Handoff!Issues, Handoff!Rests
  <2>4. ASSUME NEW new \in Handoff!Links,
             new.external = v3.external, new.completed = v3.completed,
             new.capture = v3.capture, v3.ticket => new.ticket, new.launch,
             v1' = new, v2' = {new}, v3' = new, v4' \in BOOLEAN,
             v17' = "launching", v18' = v18
      PROVE  Handoff!IInv'
    <3> USE <2>1, <2>2, <2>3, <2>4 DEF Handoff!TypeOK
    <3>1. Handoff!TypeOK'
      <4>1. Handoff!RecordOK'
        BY LinkedIsLink DEF Handoff!RecordOK
      <4>2. Handoff!JobsOK'
        BY DEF Handoff!JobsOK
      <4>3. Handoff!SavesOK'
        BY DEF Handoff!SavesOK, Handoff!Sources, Handoff!Bases
      <4>4. Handoff!RequestsOK'
        BY NoWorkIsWork, ReviewsAreMade, WorksAreMade DEF Handoff!RequestsOK,
           Handoff!StepsOK, Handoff!SavesOK, Handoff!Bases
      <4>5. Handoff!StepsOK'
        BY NoWorkIsWork, WorksAreMade DEF Handoff!StepsOK, Handoff!SavesOK,
           Handoff!RequestsOK, Handoff!Sources
      <4> QED
        BY <4>1, <4>2, <4>3, <4>4, <4>5
    <3>2. Handoff!CopyMayLast'
      BY DEF Handoff!CopyMayLast, Handoff!RequestsOK, Handoff!StepsOK,
         Handoff!CompletionIsAuthorized
    <3>3. Handoff!RequestsAreAsked'
      BY DEF Handoff!RequestsAreAsked, Handoff!RequestsOK, Handoff!StepsOK,
         Handoff!CopyMayLast
    <3>4. Handoff!SubmissionsAreKept'
      BY NoWorkIsWork DEF Handoff!SubmissionsAreKept, Handoff!RequestsOK, Handoff!StepsOK,
         Handoff!JobsOK, Handoff!CopyMayLast, Handoff!OperandsAreRight, Handoff!Submits
    <3>5. Handoff!OperandsAreRight'
      BY NoWorkIsWork DEF Handoff!OperandsAreRight, Handoff!RequestsOK, Handoff!StepsOK,
         Handoff!Submits, Handoff!CopyMayLast
    <3>6. Handoff!AuthorsAreKnown'
      BY DEF Handoff!AuthorsAreKnown, Handoff!RequestsOK, Handoff!StepsOK,
         Handoff!CopyMayLast, Handoff!OperandsAreRight
    <3>7. Handoff!CompletionIsAuthorized'
      BY LinksAreTyped DEF Handoff!CompletionIsAuthorized, Handoff!RequestsOK,
         Handoff!StepsOK, Handoff!CopyMayLast, Handoff!SubmissionsAreKept, Handoff!RecordOK
    <3>8. Handoff!ReviewIsOfRequest'
      BY NoWorkIsWork DEF Handoff!ReviewIsOfRequest, Handoff!RequestsOK, Handoff!StepsOK,
         Handoff!Submits, Handoff!OperandsAreRight, Handoff!SubmissionsAreKept
    <3> QED
      BY <3>1, <3>2, <3>3, <3>4, <3>5, <3>6, <3>7, <3>8
  <2>5. ASSUME NEW new \in Handoff!Links,
             new.external = v3.external, new.completed = v3.completed,
             new.capture = v3.capture, v3.ticket => new.ticket, new.launch,
             v1' \in v2', v3' \in v2', v2' \subseteq v2 \cup {new}, v3' = v3,
             v4' \in BOOLEAN, v17' = "home", v18' = Handoff!NoWork
      PROVE  Handoff!IInv'
    <3> USE <2>1, <2>2, <2>3, <2>5 DEF Handoff!TypeOK
    <3>1. Handoff!TypeOK'
      <4>1. Handoff!RecordOK'
        BY LinkedIsLink DEF Handoff!RecordOK
      <4>2. Handoff!JobsOK'
        BY DEF Handoff!JobsOK
      <4>3. Handoff!SavesOK'
        BY DEF Handoff!SavesOK, Handoff!Sources, Handoff!Bases
      <4>4. Handoff!RequestsOK'
        BY NoWorkIsWork, ReviewsAreMade, WorksAreMade DEF Handoff!RequestsOK,
           Handoff!StepsOK, Handoff!SavesOK, Handoff!Bases
      <4>5. Handoff!StepsOK'
        BY NoWorkIsWork, WorksAreMade DEF Handoff!StepsOK, Handoff!SavesOK,
           Handoff!RequestsOK, Handoff!Sources
      <4> QED
        BY <4>1, <4>2, <4>3, <4>4, <4>5
    <3>2. Handoff!CopyMayLast'
      BY DEF Handoff!CopyMayLast, Handoff!RequestsOK, Handoff!StepsOK,
         Handoff!CompletionIsAuthorized
    <3>3. Handoff!RequestsAreAsked'
      BY DEF Handoff!RequestsAreAsked, Handoff!RequestsOK, Handoff!StepsOK,
         Handoff!CopyMayLast
    <3>4. Handoff!SubmissionsAreKept'
      BY NoWorkIsWork DEF Handoff!SubmissionsAreKept, Handoff!RequestsOK, Handoff!StepsOK,
         Handoff!JobsOK, Handoff!CopyMayLast, Handoff!OperandsAreRight, Handoff!Submits
    <3>5. Handoff!OperandsAreRight'
      BY NoWorkIsWork DEF Handoff!OperandsAreRight, Handoff!RequestsOK, Handoff!StepsOK,
         Handoff!Submits, Handoff!CopyMayLast
    <3>6. Handoff!AuthorsAreKnown'
      BY DEF Handoff!AuthorsAreKnown, Handoff!RequestsOK, Handoff!StepsOK,
         Handoff!CopyMayLast, Handoff!OperandsAreRight
    <3>7. Handoff!CompletionIsAuthorized'
      BY LinksAreTyped DEF Handoff!CompletionIsAuthorized, Handoff!RequestsOK,
         Handoff!StepsOK, Handoff!CopyMayLast, Handoff!SubmissionsAreKept, Handoff!RecordOK
    <3>8. Handoff!ReviewIsOfRequest'
      BY NoWorkIsWork DEF Handoff!ReviewIsOfRequest, Handoff!RequestsOK, Handoff!StepsOK,
         Handoff!Submits, Handoff!OperandsAreRight, Handoff!SubmissionsAreKept
    <3> QED
      BY <3>1, <3>2, <3>3, <3>4, <3>5, <3>6, <3>7, <3>8
  <2> QED
    BY <1>13, IssuedIsLink, RecordWrites, <2>2, <2>4, <2>5 DEF Handoff!Issues, Handoff!Rests
<1>14. CASE Handoff!Launches
  <2>1. Handoff!TypeOK'
    <3>1. Handoff!RecordOK'
      BY <1>14, LinkedIsLink DEF Handoff!Launches, Handoff!Rests, Handoff!RecordOK,
         Handoff!TypeOK
    <3>2. Handoff!JobsOK'
      BY <1>14 DEF Handoff!Launches, Handoff!Rests, Handoff!JobsOK, Handoff!TypeOK
    <3>3. Handoff!SavesOK'
      BY <1>14 DEF Handoff!Launches, Handoff!Rests, Handoff!SavesOK, Handoff!TypeOK,
         Handoff!Sources, Handoff!Bases
    <3>4. Handoff!RequestsOK'
      <4>1. /\ v18.request = v3.external /\ v3.external \in Handoff!Requests /\ v3 \in v2 /\ v14 = 0
            /\ v20' \subseteq v20 \cup {v3.external} /\ UNCHANGED <<v2, v3, v13, v14, v21>>
            /\ v15' \in {v15, Handoff!NoReview} /\ v16' \in {v16, 0}
        BY <1>14, LinksAreTyped DEF Handoff!Launches, Handoff!OperandsAreRight,
           Handoff!RequestsAreAsked, Handoff!CopyMayLast, Handoff!TypeOK, Handoff!RecordOK
      <4> QED
        BY <4>1, NoWorkIsWork DEF Handoff!TypeOK, Handoff!RequestsOK
    <3>5. Handoff!StepsOK'
      BY <1>14, NoWorkIsWork, WorksAreMade DEF Handoff!Launches, Handoff!Rests,
         Handoff!StepsOK, Handoff!SavesOK, Handoff!RequestsOK, Handoff!TypeOK,
         Handoff!Sources
    <3> QED
      BY <1>14, <3>1, <3>2, <3>3, <3>4, <3>5 DEF Handoff!Launches, Handoff!Rests,
         Handoff!TypeOK
  <2>2. Handoff!CopyMayLast'
    BY <1>14 DEF Handoff!Launches, Handoff!Rests, Handoff!CopyMayLast, Handoff!TypeOK,
       Handoff!RequestsOK, Handoff!StepsOK, Handoff!CompletionIsAuthorized
  <2>3. Handoff!RequestsAreAsked'
    <3>1. /\ v18.request = v3.external /\ v3.external \in Handoff!Requests /\ v3 \in v2 /\ v14 = 0
          /\ v20' \subseteq v20 \cup {v3.external} /\ UNCHANGED <<v2, v3, v13, v14, v21>>
          /\ v15' \in {v15, Handoff!NoReview} /\ v16' \in {v16, 0}
      BY <1>14, LinksAreTyped DEF Handoff!Launches, Handoff!OperandsAreRight,
         Handoff!RequestsAreAsked, Handoff!CopyMayLast, Handoff!TypeOK, Handoff!RecordOK
    <3>2. v13[v3.external] # Handoff!NoReview
      BY <3>1 DEF Handoff!RequestsAreAsked
    <3> QED
      BY <3>1, <3>2 DEF Handoff!RequestsAreAsked
  <2>4. Handoff!SubmissionsAreKept'
    BY <1>14, NoWorkIsWork DEF Handoff!Launches, Handoff!Rests, Handoff!SubmissionsAreKept,
       Handoff!TypeOK, Handoff!RequestsOK, Handoff!StepsOK, Handoff!JobsOK,
       Handoff!CopyMayLast, Handoff!OperandsAreRight, Handoff!Submits
  <2>5. Handoff!OperandsAreRight'
    BY <1>14, NoWorkIsWork DEF Handoff!Launches, Handoff!Rests, Handoff!OperandsAreRight,
       Handoff!TypeOK, Handoff!RequestsOK, Handoff!StepsOK, Handoff!Submits,
       Handoff!CopyMayLast
  <2>6. Handoff!AuthorsAreKnown'
    BY <1>14 DEF Handoff!Launches, Handoff!Rests, Handoff!AuthorsAreKnown, Handoff!TypeOK,
       Handoff!RequestsOK, Handoff!StepsOK, Handoff!CopyMayLast, Handoff!OperandsAreRight
  <2>7. Handoff!CompletionIsAuthorized'
    BY <1>14, LinksAreTyped DEF Handoff!Launches, Handoff!Rests,
       Handoff!CompletionIsAuthorized, Handoff!TypeOK, Handoff!RequestsOK, Handoff!StepsOK,
       Handoff!CopyMayLast, Handoff!SubmissionsAreKept, Handoff!RecordOK
  <2>8. Handoff!ReviewIsOfRequest'
    BY <1>14, NoWorkIsWork DEF Handoff!Launches, Handoff!Rests, Handoff!ReviewIsOfRequest,
       Handoff!TypeOK, Handoff!RequestsOK, Handoff!StepsOK, Handoff!Submits,
       Handoff!OperandsAreRight, Handoff!SubmissionsAreKept
  <2> QED
    BY <2>1, <2>2, <2>3, <2>4, <2>5, <2>6, <2>7, <2>8
<1>15. CASE Handoff!Submit
  <2> USE <1>15 DEF Handoff!Submit, Handoff!Issued, Handoff!TypeOK
  <2>1. Handoff!TypeOK'
    <3>1. Handoff!RecordOK'
      BY LinkedIsLink DEF Handoff!RecordOK
    <3>2. Handoff!JobsOK'
      BY DEF Handoff!JobsOK
    <3>3. Handoff!SavesOK'
      BY DEF Handoff!SavesOK, Handoff!Sources, Handoff!Bases
    <3>4. Handoff!RequestsOK'
      BY NoWorkIsWork, ReviewsAreMade, WorksAreMade DEF Handoff!RequestsOK, Handoff!StepsOK,
         Handoff!SavesOK, Handoff!Bases
    <3>5. Handoff!StepsOK'
      BY NoWorkIsWork, WorksAreMade DEF Handoff!StepsOK, Handoff!SavesOK,
         Handoff!RequestsOK, Handoff!Sources
    <3> QED
      BY <3>1, <3>2, <3>3, <3>4, <3>5
  <2>2. Handoff!CopyMayLast'
    BY DEF Handoff!CopyMayLast, Handoff!RequestsOK, Handoff!StepsOK,
       Handoff!CompletionIsAuthorized
  <2>3. Handoff!RequestsAreAsked'
    BY DEF Handoff!RequestsAreAsked, Handoff!RequestsOK, Handoff!StepsOK,
       Handoff!CopyMayLast
  <2>4. Handoff!SubmissionsAreKept'
    BY NoWorkIsWork DEF Handoff!SubmissionsAreKept, Handoff!RequestsOK, Handoff!StepsOK,
       Handoff!JobsOK, Handoff!CopyMayLast, Handoff!OperandsAreRight, Handoff!Submits
  <2>5. Handoff!OperandsAreRight'
    BY NoWorkIsWork DEF Handoff!OperandsAreRight, Handoff!RequestsOK, Handoff!StepsOK,
       Handoff!Submits, Handoff!CopyMayLast
  <2>6. Handoff!AuthorsAreKnown'
    BY DEF Handoff!AuthorsAreKnown, Handoff!RequestsOK, Handoff!StepsOK,
       Handoff!CopyMayLast, Handoff!OperandsAreRight
  <2>7. Handoff!CompletionIsAuthorized'
    BY LinksAreTyped DEF Handoff!CompletionIsAuthorized, Handoff!RequestsOK,
       Handoff!StepsOK, Handoff!CopyMayLast, Handoff!SubmissionsAreKept, Handoff!RecordOK
  <2>8. Handoff!ReviewIsOfRequest'
    BY NoWorkIsWork DEF Handoff!ReviewIsOfRequest, Handoff!RequestsOK, Handoff!StepsOK,
       Handoff!Submits, Handoff!OperandsAreRight, Handoff!SubmissionsAreKept
  <2> QED
    BY <2>1, <2>2, <2>3, <2>4, <2>5, <2>6, <2>7, <2>8
<1>16. CASE Handoff!Publishes
  <2>1. /\ UNCHANGED <<v1, v2, v3, v4, v5, v7, v8, v9, v10, v11, v12, v13, v14, v15, v16,
                       v17, v18, v20, v21, v23>>
        /\ v19 # Handoff!NoWork /\ v19' = Handoff!NoWork
    BY <1>16 DEF Handoff!Publishes
  <2>2. /\ v19.request \in v20 /\ v19.request \in Handoff!Requests
        /\ v19.source \in 0 .. MaxSource
    BY <2>1, WorksAreMade DEF Handoff!SubmissionsAreKept, Handoff!TypeOK,
       Handoff!RequestsOK, Handoff!StepsOK
  <2>3. \/ UNCHANGED <<v6, v22>>
        \/ /\ v6' = [v6 EXCEPT ![v19.request] = v19.source]
           /\ v22' = [v22 EXCEPT ![v19.request] = v19.source]
    BY <1>16 DEF Handoff!Publishes
  <2>4. /\ Handoff!JobsOK'
        /\ \A q \in Handoff!Requests : /\ v6'[q] \in {0, v22'[q]}
                                       /\ q # v19.request => v22'[q] = v22[q]
    <3>1. \A q \in Handoff!Requests : v6[q] \in {0, v22[q]}
      BY DEF Handoff!SubmissionsAreKept
    <3>2. Handoff!JobsOK
      BY DEF Handoff!TypeOK
    <3>3. CASE UNCHANGED <<v6, v22>>
      BY <2>1, <3>1, <3>2, <3>3 DEF Handoff!JobsOK
    <3>4. CASE /\ v6' = [v6 EXCEPT ![v19.request] = v19.source]
               /\ v22' = [v22 EXCEPT ![v19.request] = v19.source]
      BY <2>1, <2>2, <3>1, <3>2, <3>4 DEF Handoff!JobsOK
    <3> QED
      BY <2>3, <3>3, <3>4
  <2>5. \A q \in Handoff!Requests : Handoff!Accepted(q) => v22'[q] = v22[q]
    BY <2>1, <2>4 DEF Handoff!CompletionsStand
  <2>6. \A lasting \in v2 : lasting.completed # 0 =>
            lasting.completed \in Handoff!Requests /\ Handoff!Accepted(lasting.completed)
    BY LinksAreTyped DEF Handoff!Accepted, Handoff!TypeOK, Handoff!RecordOK
  <2>7. v15.request # 0 => v15.request \in Handoff!Requests /\ Handoff!Accepted(v15.request)
    BY ReviewsAreMade DEF Handoff!Accepted, Handoff!TypeOK, Handoff!RequestsOK
  <2>8. v17 \in {"taking", "analyzing"} /\ v18.request # 0 =>
            v18.request \in Handoff!Requests /\ Handoff!Accepted(v18.request)
    BY WorksAreMade DEF Handoff!Accepted, Handoff!TypeOK, Handoff!StepsOK
  <2>9. Handoff!TypeOK'
    <3>1. Handoff!RecordOK' /\ Handoff!SavesOK' /\ Handoff!RequestsOK'
      BY <2>1 DEF Handoff!TypeOK, Handoff!RecordOK, Handoff!SavesOK, Handoff!RequestsOK
    <3>2. Handoff!StepsOK'
      BY <2>1, NoWorkIsWork DEF Handoff!TypeOK, Handoff!StepsOK
    <3> QED
      BY <2>4, <3>1, <3>2 DEF Handoff!TypeOK
  <2>10. Handoff!CopyMayLast' /\ Handoff!RequestsAreAsked' /\ Handoff!AuthorsAreKnown'
    BY <2>1 DEF Handoff!CopyMayLast, Handoff!RequestsAreAsked, Handoff!AuthorsAreKnown
  <2>11. Handoff!SubmissionsAreKept'
    <3>1. \A q \in Handoff!Requests : v22'[q] # 0 => q \in v20
      BY <2>2, <2>4 DEF Handoff!SubmissionsAreKept
    <3>2. \A lasting \in v2 : lasting.completed # 0 => v22'[lasting.completed] # 0
      BY <2>5, <2>6 DEF Handoff!SubmissionsAreKept
    <3>3. v15.request # 0 => v22'[v15.request] # 0
      BY <2>5, <2>7 DEF Handoff!SubmissionsAreKept
    <3> QED
      BY <2>1, <2>4, <3>1, <3>2, <3>3 DEF Handoff!SubmissionsAreKept
  <2>12. Handoff!OperandsAreRight'
    <3>1. v17 \in {"taking", "analyzing"} /\ v18.request # 0 =>
            (Handoff!Submits(v18.request, v18.source) =>
                 Handoff!Submits(v18.request, v18.source)')
      BY <2>1, <2>5, <2>8 DEF Handoff!Submits
    <3>2. v17 = "taking" => v18.request # 0
      BY DEF Handoff!OperandsAreRight
    <3> QED
      BY <2>1, <3>1, <3>2 DEF Handoff!OperandsAreRight
  <2>13. Handoff!CompletionIsAuthorized'
    BY <2>1, <2>5, <2>6 DEF Handoff!CompletionIsAuthorized
  <2>14. Handoff!ReviewIsOfRequest'
    BY <2>1, <2>5, <2>7 DEF Handoff!ReviewIsOfRequest
  <2> QED
    BY <2>9, <2>10, <2>11, <2>12, <2>13, <2>14
<1>17. CASE Handoff!Takes
  <2>1. Handoff!TypeOK'
    <3>1. Handoff!RecordOK'
      BY <1>17, LinkedIsLink DEF Handoff!Takes, Handoff!Exact, Handoff!Home,
         Handoff!RecordOK, Handoff!TypeOK
    <3>2. Handoff!JobsOK'
      BY <1>17 DEF Handoff!Takes, Handoff!Exact, Handoff!Home, Handoff!JobsOK,
         Handoff!TypeOK
    <3>3. Handoff!SavesOK'
      BY <1>17 DEF Handoff!Takes, Handoff!Exact, Handoff!Home, Handoff!SavesOK,
         Handoff!TypeOK, Handoff!Sources, Handoff!Bases
    <3>4. Handoff!RequestsOK'
      BY <1>17, NoWorkIsWork, ReviewsAreMade, WorksAreMade DEF Handoff!Takes, Handoff!Exact,
         Handoff!Home, Handoff!RequestsOK, Handoff!StepsOK, Handoff!SavesOK, Handoff!TypeOK,
         Handoff!Bases
    <3>5. Handoff!StepsOK'
      <4>1. /\ v3 \in Handoff!Links /\ v3.external \in 0 .. MaxRequest
            /\ v3.capture \in 0 .. MaxSource /\ v16 \in 0 .. MaxRequest /\ v7 \in 0 .. MaxSource
        BY LinksAreTyped DEF Handoff!TypeOK, Handoff!RecordOK, Handoff!RequestsOK,
           Handoff!SavesOK, Handoff!Sources
      <4>2. v18' \in {v18, Handoff!NoWork, [request |-> v3.external, source |-> v7]}
        BY <1>17 DEF Handoff!Takes
      <4>3. v3.external \in 0 .. MaxRequest /\ v7 \in 0 .. MaxSource
        BY <1>17, <4>1, ReviewsAreMade DEF Handoff!Takes, Handoff!TypeOK, Handoff!RequestsOK
      <4>4. v18' \in Handoff!Works
        BY <4>2, <4>3, WorksAreMade, NoWorkIsWork DEF Handoff!TypeOK, Handoff!StepsOK
      <4> QED
        BY <1>17, <4>4 DEF Handoff!Takes, Handoff!TypeOK, Handoff!StepsOK
    <3> QED
      BY <1>17, <3>1, <3>2, <3>3, <3>4, <3>5 DEF Handoff!Takes, Handoff!Exact, Handoff!Home,
         Handoff!TypeOK
  <2>2. Handoff!CopyMayLast'
    BY <1>17 DEF Handoff!Takes, Handoff!Exact, Handoff!Home, Handoff!CopyMayLast,
       Handoff!TypeOK, Handoff!RequestsOK, Handoff!StepsOK, Handoff!CompletionIsAuthorized
  <2>3. Handoff!RequestsAreAsked'
    BY <1>17 DEF Handoff!Takes, Handoff!Exact, Handoff!Home, Handoff!RequestsAreAsked,
       Handoff!TypeOK, Handoff!RequestsOK, Handoff!StepsOK, Handoff!CopyMayLast
  <2>4. Handoff!SubmissionsAreKept'
    BY <1>17, NoWorkIsWork DEF Handoff!Takes, Handoff!Exact, Handoff!Home,
       Handoff!SubmissionsAreKept, Handoff!TypeOK, Handoff!RequestsOK, Handoff!StepsOK,
       Handoff!JobsOK, Handoff!CopyMayLast, Handoff!OperandsAreRight, Handoff!Submits
  <2>5. Handoff!OperandsAreRight'
    <3>1. /\ UNCHANGED <<v3, v20, v22>> /\ v3.external \in Handoff!Requests /\ v17 = "home"
      BY <1>17, LinksAreTyped DEF Handoff!Takes, Handoff!Home, Handoff!TypeOK,
         Handoff!RecordOK
    <3>2. CASE v17' = "home"
      BY <3>2 DEF Handoff!OperandsAreRight
    <3>3. CASE /\ v17' = "taking" /\ v18' = [request |-> v3.external, source |-> v7]
               /\ v6[v3.external] = v7
      <4>1. v7 # 0
        BY DEF Handoff!TypeOK, Handoff!SavesOK, Handoff!Sources
      <4>2. Handoff!Submits(v3.external, v7)
        BY <3>1, <3>3, <4>1 DEF Handoff!Submits, Handoff!SubmissionsAreKept
      <4> QED
        BY <3>1, <3>3, <4>2 DEF Handoff!OperandsAreRight, Handoff!Submits
    <3> QED
      BY <1>17, <3>1, <3>2, <3>3 DEF Handoff!Takes, Handoff!Exact, Handoff!Fresh,
         Handoff!Captured
  <2>6. Handoff!AuthorsAreKnown'
    BY <1>17 DEF Handoff!Takes, Handoff!Exact, Handoff!Home, Handoff!AuthorsAreKnown,
       Handoff!TypeOK, Handoff!RequestsOK, Handoff!StepsOK, Handoff!CopyMayLast,
       Handoff!OperandsAreRight
  <2>7. Handoff!CompletionIsAuthorized'
    BY <1>17, LinksAreTyped DEF Handoff!Takes, Handoff!Exact, Handoff!Home,
       Handoff!CompletionIsAuthorized, Handoff!TypeOK, Handoff!RequestsOK, Handoff!StepsOK,
       Handoff!CopyMayLast, Handoff!SubmissionsAreKept, Handoff!RecordOK
  <2>8. Handoff!ReviewIsOfRequest'
    BY <1>17, NoWorkIsWork DEF Handoff!Takes, Handoff!Exact, Handoff!Home,
       Handoff!ReviewIsOfRequest, Handoff!TypeOK, Handoff!RequestsOK, Handoff!StepsOK,
       Handoff!Submits, Handoff!OperandsAreRight, Handoff!SubmissionsAreKept
  <2> QED
    BY <2>1, <2>2, <2>3, <2>4, <2>5, <2>6, <2>7, <2>8
<1>18. CASE Handoff!Admits
  <2>1. /\ v17 = "taking" /\ v18.request = v3.external /\ v3.external \in 1 .. MaxRequest
        /\ v18.request \in v20 /\ v22[v18.request] = v18.source /\ v18.source # 0
        /\ v14 = 0 /\ v3.completed = 0 /\ v21[v18.request] # "revoked"
    BY <1>18, LinksAreTyped DEF Handoff!Admits, Handoff!BeginsReview, Handoff!Rests,
       Handoff!OperandsAreRight, Handoff!Submits, Handoff!RequestsAreAsked,
       Handoff!CompletionIsAuthorized, Handoff!CopyMayLast, Handoff!TypeOK, Handoff!RecordOK
  <2>2. /\ v3 \in Handoff!Links /\ {v1, v3} \subseteq v2 /\ Handoff!RecordOK
        /\ v3.task \in 0 .. MaxTask /\ v18.request \in 0 .. MaxRequest
        /\ v18.source \in 0 .. MaxSource
    BY <1>18, LinksAreTyped, WorksAreMade DEF Handoff!Admits, Handoff!BeginsReview,
       Handoff!Rests, Handoff!TypeOK, Handoff!RecordOK, Handoff!StepsOK, Handoff!CopyMayLast
  <2>3. UNCHANGED <<v5, v6, v7, v8, v9, v10, v11, v13, v14, v19, v20, v22, v23>>
    BY <1>18 DEF Handoff!Admits, Handoff!BeginsReview, Handoff!Rests
  <2>4. v15' = Handoff!NoReview
    BY <1>18 DEF Handoff!Admits, Handoff!BeginsReview, Handoff!Rests
  <2>5. LET new == [Handoff!Linked(v3.task) EXCEPT !.completed = v18.request, !.capture = v18.source] IN
          /\ new \in Handoff!Links
          /\ new.external = 0 /\ new.completed = v18.request
          /\ new.capture = v18.source
    BY <2>2, AdmittedIsLink
  <2>6. LET new == [Handoff!Linked(v3.task) EXCEPT !.completed = v18.request, !.capture = v18.source] IN
        /\ Handoff!Written(new) =>
             v1' = new /\ v2' = {new} /\ v3' = new /\ v4' \in BOOLEAN
        /\ Handoff!WriteFails(new) =>
             /\ v1' \in v2' /\ v3' \in v2' /\ v2' \subseteq v2 \cup {new}
             /\ v3' = v3 /\ v4' \in BOOLEAN
    BY <2>2, <2>5, RecordWrites
  <2>7. ASSUME NEW new \in Handoff!Links,
             new.external = 0, new.completed = v18.request, new.capture = v18.source,
             v1' = new, v2' = {new}, v3' = new, v4' \in BOOLEAN,
             v16' = v18.request, v21' = [v21 EXCEPT ![v18.request] = "admitted"], v12' = v12,
             \/ v17' = "home" /\ v18' = Handoff!NoWork
             \/ /\ v17' = "analyzing" /\ v13[v18.request].basis = v11
                /\ v18' = [request |-> v18.request, source |-> v18.source]
      PROVE  Handoff!IInv'
    <3>1. Handoff!TypeOK'
      <4> USE <2>1, <2>2, <2>3, <2>4, <2>7 DEF Handoff!TypeOK
      <4>1. Handoff!RecordOK'
        BY LinkedIsLink DEF Handoff!RecordOK
      <4>2. Handoff!JobsOK'
        BY DEF Handoff!JobsOK
      <4>3. Handoff!SavesOK'
        BY DEF Handoff!SavesOK, Handoff!Sources, Handoff!Bases
      <4>4. Handoff!RequestsOK'
        BY NoWorkIsWork, ReviewsAreMade, WorksAreMade DEF Handoff!RequestsOK,
           Handoff!StepsOK, Handoff!SavesOK, Handoff!Bases
      <4>5. Handoff!StepsOK'
        BY NoWorkIsWork, WorksAreMade DEF Handoff!StepsOK, Handoff!SavesOK,
           Handoff!RequestsOK, Handoff!Sources
      <4> QED
        BY <4>1, <4>2, <4>3, <4>4, <4>5
    <3>2. Handoff!CopyMayLast'
      BY <2>1, <2>2, <2>3, <2>4, <2>7 DEF Handoff!CopyMayLast, Handoff!TypeOK,
         Handoff!RequestsOK, Handoff!StepsOK, Handoff!CompletionIsAuthorized
    <3>3. Handoff!RequestsAreAsked'
      BY <2>1, <2>2, <2>3, <2>4, <2>7 DEF Handoff!RequestsAreAsked, Handoff!TypeOK,
         Handoff!RequestsOK, Handoff!StepsOK, Handoff!CopyMayLast
    <3>4. Handoff!SubmissionsAreKept'
      <4>1. /\ UNCHANGED <<v5, v6, v20, v22>> /\ v15' = Handoff!NoReview /\ v2' = {new}
            /\ UNCHANGED v19 /\ new.completed = v18.request /\ v22[v18.request] # 0
        BY <2>1, <2>3, <2>4, <2>7
      <4> QED
        BY <4>1, NoWorkIsWork DEF Handoff!SubmissionsAreKept
    <3>5. Handoff!OperandsAreRight'
      BY <2>1, <2>2, <2>3, <2>4, <2>7, NoWorkIsWork DEF Handoff!OperandsAreRight,
         Handoff!TypeOK, Handoff!RequestsOK, Handoff!StepsOK, Handoff!Submits,
         Handoff!CopyMayLast
    <3>6. Handoff!AuthorsAreKnown'
      BY <2>1, <2>2, <2>3, <2>4, <2>7 DEF Handoff!AuthorsAreKnown, Handoff!TypeOK,
         Handoff!RequestsOK, Handoff!StepsOK, Handoff!CopyMayLast, Handoff!OperandsAreRight
    <3>7. Handoff!CompletionIsAuthorized'
      <4>1. /\ v2' = {new} /\ new.external = 0 /\ UNCHANGED <<v20, v22>>
            /\ new.completed = v18.request /\ new.capture = v18.source
            /\ v18.request \in v20 /\ v22[v18.request] = v18.source
        BY <2>1, <2>3, <2>7
      <4>2. v21'[v18.request] = "admitted"
        BY <2>1, <2>7 DEF Handoff!TypeOK, Handoff!RequestsOK
      <4> QED
        BY <4>1, <4>2 DEF Handoff!CompletionIsAuthorized
    <3>8. Handoff!ReviewIsOfRequest'
      BY <2>1, <2>2, <2>3, <2>4, <2>7, NoWorkIsWork DEF Handoff!ReviewIsOfRequest,
         Handoff!TypeOK, Handoff!RequestsOK, Handoff!StepsOK, Handoff!Submits,
         Handoff!OperandsAreRight, Handoff!SubmissionsAreKept
    <3> QED
      BY <3>1, <3>2, <3>3, <3>4, <3>5, <3>6, <3>7, <3>8
  <2>8. ASSUME NEW new \in Handoff!Links,
             new.external = 0, new.completed = v18.request, new.capture = v18.source,
             v1' \in v2', v3' \in v2', v2' \subseteq v2 \cup {new}, v3' = v3,
             v4' \in BOOLEAN, v17' = "home", v18' = Handoff!NoWork,
             UNCHANGED <<v16, v21>>, v12' = "interrupted"
      PROVE  Handoff!IInv'
    <3> USE <2>1, <2>2, <2>3, <2>4, <2>8 DEF Handoff!TypeOK
    <3>1. Handoff!TypeOK'
      <4>1. Handoff!RecordOK'
        BY LinkedIsLink DEF Handoff!RecordOK
      <4>2. Handoff!JobsOK'
        BY DEF Handoff!JobsOK
      <4>3. Handoff!SavesOK'
        BY DEF Handoff!SavesOK, Handoff!Sources, Handoff!Bases
      <4>4. Handoff!RequestsOK'
        BY NoWorkIsWork, ReviewsAreMade, WorksAreMade DEF Handoff!RequestsOK,
           Handoff!StepsOK, Handoff!SavesOK, Handoff!Bases
      <4>5. Handoff!StepsOK'
        BY NoWorkIsWork, WorksAreMade DEF Handoff!StepsOK, Handoff!SavesOK,
           Handoff!RequestsOK, Handoff!Sources
      <4> QED
        BY <4>1, <4>2, <4>3, <4>4, <4>5
    <3>2. Handoff!CopyMayLast'
      BY DEF Handoff!CopyMayLast, Handoff!RequestsOK, Handoff!StepsOK,
         Handoff!CompletionIsAuthorized
    <3>3. Handoff!RequestsAreAsked'
      BY DEF Handoff!RequestsAreAsked, Handoff!RequestsOK, Handoff!StepsOK,
         Handoff!CopyMayLast
    <3>4. Handoff!SubmissionsAreKept'
      BY NoWorkIsWork DEF Handoff!SubmissionsAreKept, Handoff!RequestsOK, Handoff!StepsOK,
         Handoff!JobsOK, Handoff!CopyMayLast, Handoff!OperandsAreRight, Handoff!Submits
    <3>5. Handoff!OperandsAreRight'
      BY NoWorkIsWork DEF Handoff!OperandsAreRight, Handoff!RequestsOK, Handoff!StepsOK,
         Handoff!Submits, Handoff!CopyMayLast
    <3>6. Handoff!AuthorsAreKnown'
      BY DEF Handoff!AuthorsAreKnown, Handoff!RequestsOK, Handoff!StepsOK,
         Handoff!CopyMayLast, Handoff!OperandsAreRight
    <3>7. Handoff!CompletionIsAuthorized'
      BY LinksAreTyped DEF Handoff!CompletionIsAuthorized, Handoff!RequestsOK,
         Handoff!StepsOK, Handoff!CopyMayLast, Handoff!SubmissionsAreKept, Handoff!RecordOK
    <3>8. Handoff!ReviewIsOfRequest'
      BY NoWorkIsWork DEF Handoff!ReviewIsOfRequest, Handoff!RequestsOK, Handoff!StepsOK,
         Handoff!Submits, Handoff!OperandsAreRight, Handoff!SubmissionsAreKept
    <3> QED
      BY <3>1, <3>2, <3>3, <3>4, <3>5, <3>6, <3>7, <3>8
  <2>9. CASE UNCHANGED <<v1, v2, v3, v4, v16, v21>> /\ v17' = "home" /\ v18' = Handoff!NoWork /\ v12' = "interrupted"
    <3> USE <2>1, <2>2, <2>3, <2>4, <2>9 DEF Handoff!TypeOK
    <3>1. Handoff!TypeOK'
      <4>1. Handoff!RecordOK'
        BY LinkedIsLink DEF Handoff!RecordOK
      <4>2. Handoff!JobsOK'
        BY DEF Handoff!JobsOK
      <4>3. Handoff!SavesOK'
        BY DEF Handoff!SavesOK, Handoff!Sources, Handoff!Bases
      <4>4. Handoff!RequestsOK'
        BY NoWorkIsWork, ReviewsAreMade, WorksAreMade DEF Handoff!RequestsOK,
           Handoff!StepsOK, Handoff!SavesOK, Handoff!Bases
      <4>5. Handoff!StepsOK'
        BY NoWorkIsWork, WorksAreMade DEF Handoff!StepsOK, Handoff!SavesOK,
           Handoff!RequestsOK, Handoff!Sources
      <4> QED
        BY <4>1, <4>2, <4>3, <4>4, <4>5
    <3>2. Handoff!CopyMayLast'
      BY DEF Handoff!CopyMayLast, Handoff!RequestsOK, Handoff!StepsOK,
         Handoff!CompletionIsAuthorized
    <3>3. Handoff!RequestsAreAsked'
      BY DEF Handoff!RequestsAreAsked, Handoff!RequestsOK, Handoff!StepsOK,
         Handoff!CopyMayLast
    <3>4. Handoff!SubmissionsAreKept'
      BY NoWorkIsWork DEF Handoff!SubmissionsAreKept, Handoff!RequestsOK, Handoff!StepsOK,
         Handoff!JobsOK, Handoff!CopyMayLast, Handoff!OperandsAreRight, Handoff!Submits
    <3>5. Handoff!OperandsAreRight'
      BY NoWorkIsWork DEF Handoff!OperandsAreRight, Handoff!RequestsOK, Handoff!StepsOK,
         Handoff!Submits, Handoff!CopyMayLast
    <3>6. Handoff!AuthorsAreKnown'
      BY DEF Handoff!AuthorsAreKnown, Handoff!RequestsOK, Handoff!StepsOK,
         Handoff!CopyMayLast, Handoff!OperandsAreRight
    <3>7. Handoff!CompletionIsAuthorized'
      BY LinksAreTyped DEF Handoff!CompletionIsAuthorized, Handoff!RequestsOK,
         Handoff!StepsOK, Handoff!CopyMayLast, Handoff!SubmissionsAreKept, Handoff!RecordOK
    <3>8. Handoff!ReviewIsOfRequest'
      BY NoWorkIsWork DEF Handoff!ReviewIsOfRequest, Handoff!RequestsOK, Handoff!StepsOK,
         Handoff!Submits, Handoff!OperandsAreRight, Handoff!SubmissionsAreKept
    <3> QED
      BY <3>1, <3>2, <3>3, <3>4, <3>5, <3>6, <3>7, <3>8
  <2> QED
    <3> DEFINE N == [Handoff!Linked(v3.task) EXCEPT !.completed = v18.request,
                                                    !.capture = v18.source]
    <3>1. CASE /\ Handoff!Written(N) /\ v16' = v18.request /\ UNCHANGED v12
               /\ v21' = [v21 EXCEPT ![v18.request] = "admitted"]
               /\ Handoff!BeginsReview(v18.request, v18.source)
      <4>1. \/ v17' = "home" /\ v18' = Handoff!NoWork
            \/ /\ v17' = "analyzing" /\ v13[v18.request].basis = v11
               /\ v18' = [request |-> v18.request, source |-> v18.source]
        BY <2>1, <3>1 DEF Handoff!BeginsReview, Handoff!OnBasis, Handoff!Rests
      <4>2. /\ N \in Handoff!Links /\ N.external = 0
            /\ N.completed = v18.request /\ N.capture = v18.source
        BY <2>5
      <4>3. v1' = N /\ v2' = {N} /\ v3' = N /\ v4' \in BOOLEAN
        BY <2>6, <3>1
      <4> HIDE DEF N
      <4> QED
        BY <2>7, <3>1, <4>1, <4>2, <4>3
    <3>2. CASE /\ Handoff!WriteFails(N) /\ v12' = "interrupted" /\ Handoff!Rests
               /\ UNCHANGED <<v16, v21>>
      <4>1. /\ N \in Handoff!Links /\ N.external = 0
            /\ N.completed = v18.request /\ N.capture = v18.source
        BY <2>5
      <4>2. /\ v1' \in v2' /\ v3' \in v2' /\ v2' \subseteq v2 \cup {N}
            /\ v3' = v3 /\ v4' \in BOOLEAN
        BY <2>6, <3>2
      <4> HIDE DEF N
      <4> QED
        BY <2>8, <3>2, <4>1, <4>2 DEF Handoff!Rests
    <3>3. CASE /\ UNCHANGED Handoff!journal /\ v12' = "interrupted" /\ Handoff!Rests
               /\ UNCHANGED <<v16, v21>>
      BY <2>9, <3>3 DEF Handoff!Rests
    <3> QED
      BY <1>18, <3>1, <3>2, <3>3 DEF Handoff!Admits
<1>19. CASE Handoff!Reopen
  <2> USE <1>19 DEF Handoff!Reopen, Handoff!Intake, Handoff!Home, Handoff!TypeOK
  <2>1. Handoff!TypeOK'
    <3>1. Handoff!RecordOK'
      BY LinkedIsLink DEF Handoff!RecordOK
    <3>2. Handoff!JobsOK'
      BY DEF Handoff!JobsOK
    <3>3. Handoff!SavesOK'
      BY DEF Handoff!SavesOK, Handoff!Sources, Handoff!Bases
    <3>4. Handoff!RequestsOK'
      BY NoWorkIsWork, ReviewsAreMade, WorksAreMade DEF Handoff!RequestsOK, Handoff!StepsOK,
         Handoff!SavesOK, Handoff!Bases
    <3>5. Handoff!StepsOK'
      BY NoWorkIsWork, WorksAreMade DEF Handoff!StepsOK, Handoff!SavesOK,
         Handoff!RequestsOK, Handoff!Sources
    <3> QED
      BY <3>1, <3>2, <3>3, <3>4, <3>5
  <2>2. Handoff!CopyMayLast'
    BY DEF Handoff!CopyMayLast, Handoff!RequestsOK, Handoff!StepsOK,
       Handoff!CompletionIsAuthorized
  <2>3. Handoff!RequestsAreAsked'
    BY DEF Handoff!RequestsAreAsked, Handoff!RequestsOK, Handoff!StepsOK,
       Handoff!CopyMayLast
  <2>4. Handoff!SubmissionsAreKept'
    BY NoWorkIsWork DEF Handoff!SubmissionsAreKept, Handoff!RequestsOK, Handoff!StepsOK,
       Handoff!JobsOK, Handoff!CopyMayLast, Handoff!OperandsAreRight, Handoff!Submits
  <2>5. Handoff!OperandsAreRight'
    BY NoWorkIsWork DEF Handoff!OperandsAreRight, Handoff!RequestsOK, Handoff!StepsOK,
       Handoff!Submits, Handoff!CopyMayLast
  <2>6. Handoff!AuthorsAreKnown'
    BY DEF Handoff!AuthorsAreKnown, Handoff!RequestsOK, Handoff!StepsOK,
       Handoff!CopyMayLast, Handoff!OperandsAreRight
  <2>7. Handoff!CompletionIsAuthorized'
    BY LinksAreTyped DEF Handoff!CompletionIsAuthorized, Handoff!RequestsOK,
       Handoff!StepsOK, Handoff!CopyMayLast, Handoff!SubmissionsAreKept, Handoff!RecordOK
  <2>8. Handoff!ReviewIsOfRequest'
    BY NoWorkIsWork DEF Handoff!ReviewIsOfRequest, Handoff!RequestsOK, Handoff!StepsOK,
       Handoff!Submits, Handoff!OperandsAreRight, Handoff!SubmissionsAreKept
  <2> QED
    BY <2>1, <2>2, <2>3, <2>4, <2>5, <2>6, <2>7, <2>8
<1>20. CASE Handoff!Abandon
  <2>1. /\ v17 = "home" /\ v3.external \in 1 .. MaxRequest /\ v14 = 0 /\ v3.completed = 0
        /\ v13[v3.external] # Handoff!NoReview
    BY <1>20, LinksAreTyped DEF Handoff!Abandon, Handoff!Home, Handoff!RequestsAreAsked,
       Handoff!CopyMayLast, Handoff!TypeOK, Handoff!RecordOK
  <2>2. v3 \in Handoff!Links /\ {v1, v3} \subseteq v2 /\ Handoff!RecordOK
    BY <1>20 DEF Handoff!Abandon, Handoff!Home, Handoff!TypeOK, Handoff!RecordOK,
       Handoff!CopyMayLast
  <2>3. UNCHANGED <<v5, v6, v7, v8, v9, v10, v11, v13, v16, v17, v18, v19,
                       v20, v22, v23>>
    BY <1>20 DEF Handoff!Abandon, Handoff!Home
  <2>4. ASSUME NEW new \in Handoff!Links,
             new.external = 0, new.completed = 0,
             v1' = new, v2' = {new}, v3' = new, v4' \in BOOLEAN,
             v21' = [v21 EXCEPT ![v3.external] = "revoked"], v12' = "cancelled",
             v14' = 0, v15' = Handoff!NoReview
      PROVE  Handoff!IInv'
    <3> USE <2>1, <2>2, <2>3, <2>4 DEF Handoff!TypeOK
    <3>1. Handoff!TypeOK'
      <4>1. Handoff!RecordOK'
        BY LinkedIsLink DEF Handoff!RecordOK
      <4>2. Handoff!JobsOK'
        BY DEF Handoff!JobsOK
      <4>3. Handoff!SavesOK'
        BY DEF Handoff!SavesOK, Handoff!Sources, Handoff!Bases
      <4>4. Handoff!RequestsOK'
        BY NoWorkIsWork, ReviewsAreMade, WorksAreMade DEF Handoff!RequestsOK,
           Handoff!StepsOK, Handoff!SavesOK, Handoff!Bases
      <4>5. Handoff!StepsOK'
        BY NoWorkIsWork, WorksAreMade DEF Handoff!StepsOK, Handoff!SavesOK,
           Handoff!RequestsOK, Handoff!Sources
      <4> QED
        BY <4>1, <4>2, <4>3, <4>4, <4>5
    <3>2. Handoff!CopyMayLast'
      BY DEF Handoff!CopyMayLast, Handoff!RequestsOK, Handoff!StepsOK,
         Handoff!CompletionIsAuthorized
    <3>3. Handoff!RequestsAreAsked'
      BY DEF Handoff!RequestsAreAsked, Handoff!RequestsOK, Handoff!StepsOK,
         Handoff!CopyMayLast
    <3>4. Handoff!SubmissionsAreKept'
      BY NoWorkIsWork DEF Handoff!SubmissionsAreKept, Handoff!RequestsOK, Handoff!StepsOK,
         Handoff!JobsOK, Handoff!CopyMayLast, Handoff!OperandsAreRight, Handoff!Submits
    <3>5. Handoff!OperandsAreRight'
      BY NoWorkIsWork DEF Handoff!OperandsAreRight, Handoff!RequestsOK, Handoff!StepsOK,
         Handoff!Submits, Handoff!CopyMayLast
    <3>6. Handoff!AuthorsAreKnown'
      BY DEF Handoff!AuthorsAreKnown, Handoff!RequestsOK, Handoff!StepsOK,
         Handoff!CopyMayLast, Handoff!OperandsAreRight
    <3>7. Handoff!CompletionIsAuthorized'
      BY LinksAreTyped DEF Handoff!CompletionIsAuthorized, Handoff!RequestsOK,
         Handoff!StepsOK, Handoff!CopyMayLast, Handoff!SubmissionsAreKept, Handoff!RecordOK
    <3>8. Handoff!ReviewIsOfRequest'
      BY NoWorkIsWork DEF Handoff!ReviewIsOfRequest, Handoff!RequestsOK, Handoff!StepsOK,
         Handoff!Submits, Handoff!OperandsAreRight, Handoff!SubmissionsAreKept
    <3> QED
      BY <3>1, <3>2, <3>3, <3>4, <3>5, <3>6, <3>7, <3>8
  <2>5. ASSUME NEW new \in Handoff!Links,
             new.external = 0, new.completed = 0,
             v1' \in v2', v3' \in v2', v2' \subseteq v2 \cup {new}, v3' = v3,
             v4' \in BOOLEAN,
             v21' = [v21 EXCEPT ![v3.external] = "withdrawn"], UNCHANGED <<v12, v14, v15>>
      PROVE  Handoff!IInv'
    <3> USE <2>1, <2>2, <2>3, <2>5 DEF Handoff!TypeOK
    <3>1. Handoff!TypeOK'
      <4>1. Handoff!RecordOK'
        BY LinkedIsLink DEF Handoff!RecordOK
      <4>2. Handoff!JobsOK'
        BY DEF Handoff!JobsOK
      <4>3. Handoff!SavesOK'
        BY DEF Handoff!SavesOK, Handoff!Sources, Handoff!Bases
      <4>4. Handoff!RequestsOK'
        BY NoWorkIsWork, ReviewsAreMade, WorksAreMade DEF Handoff!RequestsOK,
           Handoff!StepsOK, Handoff!SavesOK, Handoff!Bases
      <4>5. Handoff!StepsOK'
        BY NoWorkIsWork, WorksAreMade DEF Handoff!StepsOK, Handoff!SavesOK,
           Handoff!RequestsOK, Handoff!Sources
      <4> QED
        BY <4>1, <4>2, <4>3, <4>4, <4>5
    <3>2. Handoff!CopyMayLast'
      BY DEF Handoff!CopyMayLast, Handoff!RequestsOK, Handoff!StepsOK,
         Handoff!CompletionIsAuthorized
    <3>3. Handoff!RequestsAreAsked'
      BY DEF Handoff!RequestsAreAsked, Handoff!RequestsOK, Handoff!StepsOK,
         Handoff!CopyMayLast
    <3>4. Handoff!SubmissionsAreKept'
      BY NoWorkIsWork DEF Handoff!SubmissionsAreKept, Handoff!RequestsOK, Handoff!StepsOK,
         Handoff!JobsOK, Handoff!CopyMayLast, Handoff!OperandsAreRight, Handoff!Submits
    <3>5. Handoff!OperandsAreRight'
      BY NoWorkIsWork DEF Handoff!OperandsAreRight, Handoff!RequestsOK, Handoff!StepsOK,
         Handoff!Submits, Handoff!CopyMayLast
    <3>6. Handoff!AuthorsAreKnown'
      BY DEF Handoff!AuthorsAreKnown, Handoff!RequestsOK, Handoff!StepsOK,
         Handoff!CopyMayLast, Handoff!OperandsAreRight
    <3>7. Handoff!CompletionIsAuthorized'
      BY LinksAreTyped DEF Handoff!CompletionIsAuthorized, Handoff!RequestsOK,
         Handoff!StepsOK, Handoff!CopyMayLast, Handoff!SubmissionsAreKept, Handoff!RecordOK
    <3>8. Handoff!ReviewIsOfRequest'
      BY NoWorkIsWork DEF Handoff!ReviewIsOfRequest, Handoff!RequestsOK, Handoff!StepsOK,
         Handoff!Submits, Handoff!OperandsAreRight, Handoff!SubmissionsAreKept
    <3> QED
      BY <3>1, <3>2, <3>3, <3>4, <3>5, <3>6, <3>7, <3>8
  <2> QED
    BY <1>20, AbandonedIsLink, RecordWrites, <2>1, <2>2, <2>4, <2>5 DEF Handoff!Abandon
<1>21. CASE Handoff!Restart
  <2>1. /\ v17' = "home" /\ v18' = Handoff!NoWork
        /\ v15' = Handoff!NoReview /\ v14' = 0 /\ v11' = v10 /\ v3' = v1'
        /\ v16' = v1'.completed /\ v23' \in 0 .. MaxLoss
    BY <1>21 DEF Handoff!Restart, Handoff!Rests, Handoff!Restored, Handoff!Intake,
       Handoff!TypeOK, Handoff!SavesOK
  <2>2. v4' \in BOOLEAN
    BY <1>21, Zenon DEF Handoff!Restart, Handoff!Rests, Handoff!Restored, Handoff!Intake,
       Handoff!IInv, Handoff!TypeOK
  <2>3. /\ v1' \in v2' /\ v2' \subseteq v2 /\ v1' \in Handoff!Links /\ v2 \subseteq Handoff!Links
    BY <1>21 DEF Handoff!Restart, Handoff!Rests, Handoff!Restored, Handoff!Intake,
       Handoff!TypeOK, Handoff!RecordOK, Handoff!CopyMayLast
  <2>4. v1'.completed \in 0 .. MaxRequest
    BY <2>3, LinksAreTyped
  <2>5. v21' = [r \in 1 .. MaxRequest |-> IF r = v1'.completed THEN "admitted" ELSE v21[r]]
    BY <1>21 DEF Handoff!Restart, Handoff!Rests, Handoff!Restored, Handoff!Intake
  <2>6. v12' \in {"none", "awaiting", "interrupted"}
    BY <1>21 DEF Handoff!Restart, Handoff!Rests, Handoff!Restored, Handoff!Intake
  <2>7. UNCHANGED <<v7, v8, v9, v10, v13, v20, v22>>
    BY <1>21 DEF Handoff!Restart, Handoff!Rests, Handoff!Restored, Handoff!Intake
  <2>8. /\ v5' \in [Handoff!Requests -> {"none", "partial", "request"}]
        /\ v6' \in [Handoff!Requests -> 0 .. MaxSource]
        /\ v19' \in {v19, Handoff!NoWork}
        /\ \A r \in Handoff!Requests : v6'[r] \in {v6[r], 0}
    <3>1. CASE UNCHANGED <<v5, v6, v19>>
      BY <3>1 DEF Handoff!TypeOK, Handoff!JobsOK
    <3>2. CASE v19' = Handoff!NoWork /\ \E left \in Handoff!Lasting :
                   /\ v5' = [r \in Handoff!Requests |-> left[r][1]]
                   /\ v6' = [r \in Handoff!Requests |-> left[r][2]]
      BY <3>2 DEF Handoff!Lasting
    <3> QED
      BY <1>21, <3>1, <3>2 DEF Handoff!Restart
  <2> USE <2>1, <2>2, <2>3, <2>4, <2>5, <2>6, <2>7, <2>8 DEF Handoff!TypeOK
  <2>9. Handoff!TypeOK'
    <3>1. Handoff!RecordOK'
      BY LinkedIsLink DEF Handoff!RecordOK
    <3>2. Handoff!JobsOK'
      BY DEF Handoff!JobsOK
    <3>3. Handoff!SavesOK'
      BY DEF Handoff!SavesOK, Handoff!Sources, Handoff!Bases
    <3>4. Handoff!RequestsOK'
      BY NoWorkIsWork, ReviewsAreMade, WorksAreMade DEF Handoff!RequestsOK,
         Handoff!StepsOK, Handoff!SavesOK, Handoff!Bases
    <3>5. Handoff!StepsOK'
      BY NoWorkIsWork, WorksAreMade DEF Handoff!StepsOK, Handoff!SavesOK,
         Handoff!RequestsOK, Handoff!Sources
    <3> QED
      BY <3>1, <3>2, <3>3, <3>4, <3>5
  <2>10. Handoff!CopyMayLast'
    BY DEF Handoff!CopyMayLast, Handoff!RequestsOK, Handoff!StepsOK,
       Handoff!CompletionIsAuthorized
  <2>11. Handoff!RequestsAreAsked'
    BY DEF Handoff!RequestsAreAsked, Handoff!RequestsOK, Handoff!StepsOK,
       Handoff!CopyMayLast
  <2>12. Handoff!SubmissionsAreKept'
    BY NoWorkIsWork DEF Handoff!SubmissionsAreKept, Handoff!RequestsOK, Handoff!StepsOK,
       Handoff!JobsOK, Handoff!CopyMayLast, Handoff!OperandsAreRight, Handoff!Submits
  <2>13. Handoff!OperandsAreRight'
    BY NoWorkIsWork DEF Handoff!OperandsAreRight, Handoff!RequestsOK, Handoff!StepsOK,
       Handoff!Submits, Handoff!CopyMayLast
  <2>14. Handoff!AuthorsAreKnown'
    BY DEF Handoff!AuthorsAreKnown, Handoff!RequestsOK, Handoff!StepsOK,
       Handoff!CopyMayLast, Handoff!OperandsAreRight
  <2>15. Handoff!CompletionIsAuthorized'
    BY LinksAreTyped DEF Handoff!CompletionIsAuthorized, Handoff!RequestsOK,
       Handoff!StepsOK, Handoff!CopyMayLast, Handoff!SubmissionsAreKept, Handoff!RecordOK
  <2>16. Handoff!ReviewIsOfRequest'
    BY NoWorkIsWork DEF Handoff!ReviewIsOfRequest, Handoff!RequestsOK, Handoff!StepsOK,
       Handoff!Submits, Handoff!OperandsAreRight, Handoff!SubmissionsAreKept
  <2> QED
    BY <2>9, <2>10, <2>11, <2>12, <2>13, <2>14, <2>15, <2>16
<1>22. CASE Handoff!Edit
  <2> USE <1>22 DEF Handoff!Edit, Handoff!TypeOK
  <2>1. Handoff!TypeOK'
    <3>1. Handoff!RecordOK'
      BY LinkedIsLink DEF Handoff!RecordOK
    <3>2. Handoff!JobsOK'
      BY DEF Handoff!JobsOK
    <3>3. Handoff!SavesOK'
      BY DEF Handoff!SavesOK, Handoff!Sources, Handoff!Bases
    <3>4. Handoff!RequestsOK'
      BY NoWorkIsWork, ReviewsAreMade, WorksAreMade DEF Handoff!RequestsOK, Handoff!StepsOK,
         Handoff!SavesOK, Handoff!Bases
    <3>5. Handoff!StepsOK'
      BY NoWorkIsWork, WorksAreMade DEF Handoff!StepsOK, Handoff!SavesOK,
         Handoff!RequestsOK, Handoff!Sources
    <3> QED
      BY <3>1, <3>2, <3>3, <3>4, <3>5
  <2>2. Handoff!CopyMayLast'
    BY DEF Handoff!CopyMayLast, Handoff!RequestsOK, Handoff!StepsOK,
       Handoff!CompletionIsAuthorized
  <2>3. Handoff!RequestsAreAsked'
    BY DEF Handoff!RequestsAreAsked, Handoff!RequestsOK, Handoff!StepsOK,
       Handoff!CopyMayLast
  <2>4. Handoff!SubmissionsAreKept'
    BY NoWorkIsWork DEF Handoff!SubmissionsAreKept, Handoff!RequestsOK, Handoff!StepsOK,
       Handoff!JobsOK, Handoff!CopyMayLast, Handoff!OperandsAreRight, Handoff!Submits
  <2>5. Handoff!OperandsAreRight'
    BY NoWorkIsWork DEF Handoff!OperandsAreRight, Handoff!RequestsOK, Handoff!StepsOK,
       Handoff!Submits, Handoff!CopyMayLast
  <2>6. Handoff!AuthorsAreKnown'
    BY DEF Handoff!AuthorsAreKnown, Handoff!RequestsOK, Handoff!StepsOK,
       Handoff!CopyMayLast, Handoff!OperandsAreRight
  <2>7. Handoff!CompletionIsAuthorized'
    BY LinksAreTyped DEF Handoff!CompletionIsAuthorized, Handoff!RequestsOK,
       Handoff!StepsOK, Handoff!CopyMayLast, Handoff!SubmissionsAreKept, Handoff!RecordOK
  <2>8. Handoff!ReviewIsOfRequest'
    BY NoWorkIsWork DEF Handoff!ReviewIsOfRequest, Handoff!RequestsOK, Handoff!StepsOK,
       Handoff!Submits, Handoff!OperandsAreRight, Handoff!SubmissionsAreKept
  <2> QED
    BY <2>1, <2>2, <2>3, <2>4, <2>5, <2>6, <2>7, <2>8
<1>23. CASE Handoff!Reregister
  <2>1. Handoff!TypeOK'
    <3>1. Handoff!RecordOK'
      BY <1>23, LinkedIsLink DEF Handoff!Reregister, Handoff!RecordOK, Handoff!TypeOK
    <3>2. Handoff!JobsOK'
      BY <1>23 DEF Handoff!Reregister, Handoff!JobsOK, Handoff!TypeOK
    <3>3. Handoff!SavesOK'
      <4>1. v9' \in BOOLEAN
        BY Zenon, <1>23 DEF Handoff!Reregister
      <4>2. v8' \in 1 .. MaxTask
        BY <1>23 DEF Handoff!Reregister, Handoff!TypeOK, Handoff!SavesOK
      <4> QED
        BY <1>23, <4>1, <4>2 DEF Handoff!Reregister, Handoff!TypeOK, Handoff!SavesOK
    <3>4. Handoff!RequestsOK'
      BY <1>23, NoWorkIsWork, ReviewsAreMade, WorksAreMade DEF Handoff!Reregister,
         Handoff!RequestsOK, Handoff!StepsOK, Handoff!SavesOK, Handoff!TypeOK, Handoff!Bases
    <3>5. Handoff!StepsOK'
      BY <1>23, NoWorkIsWork, WorksAreMade DEF Handoff!Reregister, Handoff!StepsOK,
         Handoff!SavesOK, Handoff!RequestsOK, Handoff!TypeOK, Handoff!Sources
    <3> QED
      BY <1>23, <3>1, <3>2, <3>3, <3>4, <3>5 DEF Handoff!Reregister, Handoff!TypeOK
  <2>2. Handoff!CopyMayLast'
    BY <1>23 DEF Handoff!Reregister, Handoff!CopyMayLast, Handoff!TypeOK,
       Handoff!RequestsOK, Handoff!StepsOK, Handoff!CompletionIsAuthorized
  <2>3. Handoff!RequestsAreAsked'
    BY <1>23 DEF Handoff!Reregister, Handoff!RequestsAreAsked, Handoff!TypeOK,
       Handoff!RequestsOK, Handoff!StepsOK, Handoff!CopyMayLast
  <2>4. Handoff!SubmissionsAreKept'
    BY <1>23, NoWorkIsWork DEF Handoff!Reregister, Handoff!SubmissionsAreKept,
       Handoff!TypeOK, Handoff!RequestsOK, Handoff!StepsOK, Handoff!JobsOK,
       Handoff!CopyMayLast, Handoff!OperandsAreRight, Handoff!Submits
  <2>5. Handoff!OperandsAreRight'
    BY <1>23, NoWorkIsWork DEF Handoff!Reregister, Handoff!OperandsAreRight, Handoff!TypeOK,
       Handoff!RequestsOK, Handoff!StepsOK, Handoff!Submits, Handoff!CopyMayLast
  <2>6. Handoff!AuthorsAreKnown'
    BY <1>23 DEF Handoff!Reregister, Handoff!AuthorsAreKnown, Handoff!TypeOK,
       Handoff!RequestsOK, Handoff!StepsOK, Handoff!CopyMayLast, Handoff!OperandsAreRight
  <2>7. Handoff!CompletionIsAuthorized'
    BY <1>23, LinksAreTyped DEF Handoff!Reregister, Handoff!CompletionIsAuthorized,
       Handoff!TypeOK, Handoff!RequestsOK, Handoff!StepsOK, Handoff!CopyMayLast,
       Handoff!SubmissionsAreKept, Handoff!RecordOK
  <2>8. Handoff!ReviewIsOfRequest'
    BY <1>23, NoWorkIsWork DEF Handoff!Reregister, Handoff!ReviewIsOfRequest,
       Handoff!TypeOK, Handoff!RequestsOK, Handoff!StepsOK, Handoff!Submits,
       Handoff!OperandsAreRight, Handoff!SubmissionsAreKept
  <2> QED
    BY <2>1, <2>2, <2>3, <2>4, <2>5, <2>6, <2>7, <2>8
<1>24. CASE Handoff!Save
  <2> USE <1>24 DEF Handoff!Save, Handoff!Home, Handoff!TypeOK
  <2>1. Handoff!TypeOK'
    <3>1. Handoff!RecordOK'
      BY LinkedIsLink DEF Handoff!RecordOK
    <3>2. Handoff!JobsOK'
      BY DEF Handoff!JobsOK
    <3>3. Handoff!SavesOK'
      BY DEF Handoff!SavesOK, Handoff!Sources, Handoff!Bases
    <3>4. Handoff!RequestsOK'
      BY NoWorkIsWork, ReviewsAreMade, WorksAreMade DEF Handoff!RequestsOK, Handoff!StepsOK,
         Handoff!SavesOK, Handoff!Bases
    <3>5. Handoff!StepsOK'
      BY NoWorkIsWork, WorksAreMade DEF Handoff!StepsOK, Handoff!SavesOK,
         Handoff!RequestsOK, Handoff!Sources
    <3> QED
      BY <3>1, <3>2, <3>3, <3>4, <3>5
  <2>2. Handoff!CopyMayLast'
    BY DEF Handoff!CopyMayLast, Handoff!RequestsOK, Handoff!StepsOK,
       Handoff!CompletionIsAuthorized
  <2>3. Handoff!RequestsAreAsked'
    BY DEF Handoff!RequestsAreAsked, Handoff!RequestsOK, Handoff!StepsOK,
       Handoff!CopyMayLast
  <2>4. Handoff!SubmissionsAreKept'
    BY NoWorkIsWork DEF Handoff!SubmissionsAreKept, Handoff!RequestsOK, Handoff!StepsOK,
       Handoff!JobsOK, Handoff!CopyMayLast, Handoff!OperandsAreRight, Handoff!Submits
  <2>5. Handoff!OperandsAreRight'
    BY NoWorkIsWork DEF Handoff!OperandsAreRight, Handoff!RequestsOK, Handoff!StepsOK,
       Handoff!Submits, Handoff!CopyMayLast
  <2>6. Handoff!AuthorsAreKnown'
    BY DEF Handoff!AuthorsAreKnown, Handoff!RequestsOK, Handoff!StepsOK,
       Handoff!CopyMayLast, Handoff!OperandsAreRight
  <2>7. Handoff!CompletionIsAuthorized'
    BY LinksAreTyped DEF Handoff!CompletionIsAuthorized, Handoff!RequestsOK,
       Handoff!StepsOK, Handoff!CopyMayLast, Handoff!SubmissionsAreKept, Handoff!RecordOK
  <2>8. Handoff!ReviewIsOfRequest'
    BY NoWorkIsWork DEF Handoff!ReviewIsOfRequest, Handoff!RequestsOK, Handoff!StepsOK,
       Handoff!Submits, Handoff!OperandsAreRight, Handoff!SubmissionsAreKept
  <2> QED
    BY <2>1, <2>2, <2>3, <2>4, <2>5, <2>6, <2>7, <2>8
<1> QED
BY <1>1, <1>2, <1>3, <1>4, <1>5, <1>6, <1>7, <1>8, <1>9, <1>10, <1>11, <1>12, <1>13, <1>14,
   <1>15, <1>16, <1>17, <1>18, <1>19, <1>20, <1>21, <1>22, <1>23, <1>24 DEF Handoff!Next

-----------------------------------------------------------------------------
(* The order tool. *)

LEMMA OrderBounds ==
    /\ MaxFolder \in Nat /\ MaxOperation \in Nat /\ MaxMove \in Nat /\ MaxLoss \in Nat
    /\ "nobody" \notin Hosts
BY BoundsAssumption DEF BoundsAssumption

\* What is used of sequences: prefixes and what follows them.
LEMMA PrefixDef ==
    ASSUME NEW S, NEW s \in Seq(S), NEW t \in Seq(S)
    PROVE  Orders!IsPrefix(s, t) <=> Len(s) <= Len(t) /\ \A i \in 1 .. Len(s) : s[i] = t[i]
BY DEF Orders!IsPrefix

LEMMA PrefixFacts ==
    ASSUME NEW S, NEW s \in Seq(S), NEW t \in Seq(S)
    PROVE  /\ Orders!IsPrefix(s, s) /\ Orders!IsPrefix(<<>>, s)
           /\ Orders!IsPrefix(s, t) => Orders!ToSet(s) \subseteq Orders!ToSet(t)
           /\ \A u \in Seq(S) : Orders!IsPrefix(s, t) /\ Orders!IsPrefix(t, u) => Orders!IsPrefix(s, u)
           /\ Orders!IsPrefix(s, t) /\ t = <<>> => s = <<>>
           /\ Orders!IsPrefix(s, t) /\ Len(s) = Len(t) => s = t
<1>1. Orders!IsPrefix(s, s) /\ Orders!IsPrefix(<<>>, s)
  <2>1. Orders!IsPrefix(s, s)
    BY PrefixDef
  <2>2. <<>> \in Seq(S) /\ Len(<<>>) = 0
    BY EmptySeq
  <2>3. Len(<<>>) <= Len(s) /\ \A i \in 1 .. Len(<<>>) : (<<>>)[i] = s[i]
    BY <2>2, LenProperties
  <2>4. Orders!IsPrefix(<<>>, s)
    BY <2>2, <2>3, PrefixDef
  <2> QED
    BY <2>1, <2>4
<1>2. Orders!IsPrefix(s, t) => Orders!ToSet(s) \subseteq Orders!ToSet(t)
  BY PrefixDef DEF Orders!ToSet
<1>3. ASSUME NEW u \in Seq(S), Orders!IsPrefix(s, t), Orders!IsPrefix(t, u) PROVE Orders!IsPrefix(s, u)
  <2>1. /\ Len(s) <= Len(t) /\ \A i \in 1 .. Len(s) : s[i] = t[i]
        /\ Len(t) <= Len(u) /\ \A i \in 1 .. Len(t) : t[i] = u[i]
    BY <1>3, PrefixDef
  <2> QED
    BY <2>1, PrefixDef
<1>4. Orders!IsPrefix(s, t) /\ Len(s) = Len(t) => s = t
  BY PrefixDef
<1>5. Orders!IsPrefix(s, t) /\ t = <<>> => s = <<>>
  <2>1. Orders!IsPrefix(s, t) => Len(s) <= Len(t)
    BY PrefixDef
  <2>2. s # <<>> => Len(s) > 0
    BY EmptySeq
  <2>3. Len(<<>>) = 0
    BY EmptySeq
  <2> QED
    BY <2>1, <2>2, <2>3, LenProperties
<1> QED
  BY <1>1, <1>2, <1>3, <1>4, <1>5

LEMMA AppendFacts ==
    ASSUME NEW S, NEW s \in Seq(S), NEW x \in S
    PROVE  /\ Append(s, x) \in Seq(S) /\ Append(s, x) # <<>> /\ Orders!IsPrefix(s, Append(s, x))
           /\ Orders!ToSet(Append(s, x)) = Orders!ToSet(s) \cup {x}
           /\ Orders!IsInjective(s) /\ x \notin Orders!ToSet(s) => Orders!IsInjective(Append(s, x))
           /\ \A t \in Seq(S) : Orders!IsPrefix(t, Append(s, x)) /\ Len(t) = Len(s) => t = s
<1>1. Append(s, x) \in Seq(S) /\ Append(s, x) # <<>>
  BY AppendProperties
<1>2. Orders!IsPrefix(s, Append(s, x))
  <2>1. Len(s) <= Len(Append(s, x)) /\ \A i \in 1 .. Len(s) : s[i] = Append(s, x)[i]
    BY AppendProperties, LenProperties
  <2> QED
    BY <1>1, <2>1, PrefixDef
<1>3. Orders!ToSet(Append(s, x)) = Orders!ToSet(s) \cup {x}
  <2>1. DOMAIN Append(s, x) = 1 .. Len(s) + 1 /\ DOMAIN s = 1 .. Len(s) /\ Len(s) \in Nat
    BY AppendProperties, LenProperties
  <2>2. \A i \in 1 .. Len(s) : Append(s, x)[i] = s[i]
    BY AppendProperties, LenProperties
  <2>3. Append(s, x)[Len(s) + 1] = x
    BY AppendProperties, LenProperties
  <2> QED
    BY <2>1, <2>2, <2>3 DEF Orders!ToSet
<1>4. Orders!IsInjective(s) /\ x \notin Orders!ToSet(s) => Orders!IsInjective(Append(s, x))
  BY DEF Orders!ToSet, Orders!IsInjective
<1>5. \A t \in Seq(S) : Orders!IsPrefix(t, Append(s, x)) /\ Len(t) = Len(s) => t = s
  <2>1. ASSUME NEW t \in Seq(S), Orders!IsPrefix(t, Append(s, x)), Len(t) = Len(s) PROVE t = s
    <3>1. \A i \in 1 .. Len(t) : t[i] = Append(s, x)[i]
      BY ZenonT(40), <1>1, <2>1, PrefixDef
    <3>2. \A i \in 1 .. Len(s) : Append(s, x)[i] = s[i]
      BY AppendProperties, LenProperties
    <3> QED
      BY <2>1, <3>1, <3>2, SeqEqual
  <2> QED
    BY <2>1
<1> QED
  BY <1>1, <1>2, <1>3, <1>4, <1>5

LEMMA SnapshotFacts ==
    /\ Orders!Blank \in Orders!Snapshots /\ Orders!Receipts(Orders!Blank) = {}
    /\ Orders!IsInjective(Orders!Blank)
    /\ \A s \in Orders!Snapshots :
         /\ Orders!IsPrefix(s, s) /\ Orders!IsPrefix(Orders!Blank, s)
         /\ Orders!Receipts(s) \subseteq Orders!Operations
    /\ \A s, t \in Orders!Snapshots :
         Orders!IsPrefix(s, t) =>
             /\ Orders!Receipts(s) \subseteq Orders!Receipts(t)
             /\ t = Orders!Blank => s = Orders!Blank
             /\ Orders!IsInjective(t) => Orders!IsInjective(s)
    /\ \A s, t, u \in Orders!Snapshots :
         Orders!IsPrefix(s, t) /\ Orders!IsPrefix(t, u) => Orders!IsPrefix(s, u)
    /\ \A o \in Orders!Operations :
         /\ <<o>> \in Orders!Snapshots /\ <<o>> # Orders!Blank
         /\ Orders!Receipts(<<o>>) = {o} /\ Orders!IsInjective(<<o>>)
<1> USE DEF Orders!Snapshots, Orders!Blank, Orders!Receipts
<1>1. <<>> \in Seq(Orders!Operations) /\ Orders!ToSet(<<>>) = {} /\ Orders!IsInjective(<<>>)
  BY EmptySeq DEF Orders!ToSet, Orders!IsInjective
<1>2. \A s \in Seq(Orders!Operations) :
         /\ Orders!IsPrefix(s, s) /\ Orders!IsPrefix(<<>>, s)
         /\ Orders!ToSet(s) \subseteq Orders!Operations
  BY <1>1, PrefixFacts, LenProperties DEF Orders!ToSet
<1>3. \A s, t \in Seq(Orders!Operations) :
         Orders!IsPrefix(s, t) => Orders!ToSet(s) \subseteq Orders!ToSet(t) /\ (t = <<>> => s = <<>>)
  BY PrefixFacts
<1>4. \A s, t, u \in Seq(Orders!Operations) :
         Orders!IsPrefix(s, t) /\ Orders!IsPrefix(t, u) => Orders!IsPrefix(s, u)
  BY PrefixFacts
<1>5. \A s, t \in Seq(Orders!Operations) :
         Orders!IsPrefix(s, t) /\ Orders!IsInjective(t) => Orders!IsInjective(s)
  BY PrefixDef, LenProperties DEF Orders!IsInjective
<1>6. ASSUME NEW o \in Orders!Operations
      PROVE  /\ <<o>> \in Seq(Orders!Operations) /\ <<o>> # <<>>
             /\ Orders!ToSet(<<o>>) = {o} /\ Orders!IsInjective(<<o>>)
  BY DEF Orders!ToSet, Orders!IsInjective
<1> QED
  BY <1>1, <1>2, <1>3, <1>4, <1>5, <1>6

\* The next snapshot of a project.
LEMMA NextSnapshot ==
    ASSUME NEW s \in Orders!Snapshots, NEW o \in Orders!Operations
    PROVE  /\ Append(s, o) \in Orders!Snapshots /\ Append(s, o) # Orders!Blank
           /\ Orders!IsPrefix(s, Append(s, o))
           /\ Orders!Receipts(Append(s, o)) = Orders!Receipts(s) \cup {o}
           /\ Orders!IsInjective(s) /\ o \notin Orders!Receipts(s) =>
                Orders!IsInjective(Append(s, o))
           /\ \A t \in Orders!Snapshots :
                Orders!IsPrefix(t, Append(s, o)) /\ Len(t) = Len(s) => t = s
BY AppendFacts DEF Orders!Snapshots, Orders!Blank, Orders!Receipts

LEMMA OrdersBegin == Orders!Init => Orders!IInv
<1> SUFFICES ASSUME Orders!Init PROVE Orders!IInv
  OBVIOUS
<1> USE OrderBounds, SnapshotFacts DEF Orders!Init, Orders!Folders, Orders!Operations,
   Orders!Nobody,
      Orders!disk, Orders!windows, Orders!ghosts, Orders!bounds
<1>1. Orders!TypeOK
  <2> USE DEF Orders!FoldersOK, Orders!TypeOK, Orders!WindowsOK
  <2>1. Orders!FoldersOK
    OBVIOUS
  <2>2. Orders!WindowsOK
    OBVIOUS
  <2> QED
    BY <2>1, <2>2
<1>2. Orders!CallsAreRetained
  BY DEF Orders!CallsAreRetained, Orders!TypeOK, Orders!FoldersOK, Orders!WindowsOK,
     Orders!Creating, Orders!Locked
<1>3. Orders!LockIsHeld
  BY DEF Orders!LockIsHeld, Orders!TypeOK, Orders!FoldersOK, Orders!WindowsOK,
     Orders!CallsAreRetained, Orders!Creating, Orders!Locked
<1>4. Orders!HistoriesGrow
  BY DEF Orders!HistoriesGrow, Orders!TypeOK, Orders!FoldersOK, Orders!WindowsOK,
     Orders!CallsAreRetained, Orders!Creating, Orders!Locked, Orders!CandidatesAreNext
<1>5. Orders!CandidatesAreNext
  BY DEF Orders!CandidatesAreNext, Orders!TypeOK, Orders!FoldersOK, Orders!WindowsOK,
     Orders!CallsAreRetained, Orders!Creating, Orders!Locked, Orders!LockIsHeld,
     Orders!HistoriesGrow, Orders!Applied, Orders!Candidate
<1>6. Orders!OperationsAreOwn
  BY DEF Orders!OperationsAreOwn, Orders!TypeOK, Orders!FoldersOK, Orders!WindowsOK,
     Orders!CallsAreRetained, Orders!Creating, Orders!Locked, Orders!HistoriesGrow,
     Orders!CandidatesAreNext
<1>7. Orders!OrdersAreKept
  <2> USE DEF Orders!TypeOK, Orders!FoldersOK, Orders!WindowsOK, Orders!CallsAreRetained,
        Orders!Creating, Orders!Locked, Orders!HistoriesGrow, Orders!CandidatesAreNext,
        Orders!OperationsAreOwn, Orders!OrdersAreKept
  <2>1. Orders!CurrentIsWhole
    BY DEF Orders!CurrentIsWhole
  <2>2. Orders!ReportedIsKept
    BY DEF Orders!ReportedIsKept
  <2>3. Orders!RefusedIsNotSaved
    BY DEF Orders!RefusedIsNotSaved
  <2>4. Orders!AppliedOnce
    BY DEF Orders!AppliedOnce
  <2>5. Orders!ViewsAgree
    BY DEF Orders!ViewsAgree
  <2> QED
    BY <2>1, <2>2, <2>3, <2>4, <2>5
<1> QED
  BY <1>1, <1>2, <1>3, <1>4, <1>5, <1>6, <1>7 DEF Orders!IInv

LEMMA OrdersStutter == Orders!IInv /\ UNCHANGED Orders!orderStore => Orders!IInv'
BY DEF Orders!orderStore, Orders!Folders, Orders!Operations, Orders!Nobody,
   Orders!disk, Orders!windows, Orders!ghosts, Orders!bounds,
   Orders!FoldersOK, Orders!TypeOK, Orders!WindowsOK,
   Orders!CallsAreRetained, Orders!Creating, Orders!Locked,
   Orders!LockIsHeld, Orders!HistoriesGrow, Orders!CandidatesAreNext,
   Orders!Applied, Orders!Candidate, Orders!OperationsAreOwn,
   Orders!CurrentIsWhole, Orders!OrdersAreKept, Orders!ReportedIsKept,
   Orders!RefusedIsNotSaved, Orders!AppliedOnce, Orders!ViewsAgree,
   Orders!IInv

LEMMA OrdersStep == Orders!IInv /\ Orders!Next => Orders!IInv'
<1> SUFFICES ASSUME Orders!IInv, Orders!Next PROVE Orders!IInv'
  OBVIOUS
<1> USE OrderBounds, SnapshotFacts DEF Orders!Folders, Orders!Operations, Orders!Nobody,
   Orders!disk,
      Orders!windows, Orders!ghosts, Orders!bounds, Orders!IInv
<1>1. CASE Orders!PowerLoss
  <2> USE <1>1 DEF Orders!PowerLoss, Orders!Forgets, Orders!FoldersOK, Orders!TypeOK,
        Orders!WindowsOK
  <2>1. Orders!TypeOK'
    <3>1. Orders!FoldersOK'
      OBVIOUS
    <3>2. Orders!WindowsOK'
      OBVIOUS
    <3> QED
      BY <3>1, <3>2
  <2>2. Orders!CallsAreRetained'
    BY DEF Orders!CallsAreRetained, Orders!Creating, Orders!Locked
  <2>3. Orders!LockIsHeld'
    BY DEF Orders!LockIsHeld, Orders!CallsAreRetained, Orders!Creating, Orders!Locked
  <2>4. Orders!HistoriesGrow'
    BY SMTT(30) DEF Orders!HistoriesGrow, Orders!CallsAreRetained, Orders!Creating, Orders!Locked,
       Orders!CandidatesAreNext
  <2>5. Orders!CandidatesAreNext'
    BY DEF Orders!CandidatesAreNext, Orders!CallsAreRetained, Orders!Creating,
       Orders!Locked, Orders!LockIsHeld, Orders!HistoriesGrow, Orders!Applied,
       Orders!Candidate
  <2>6. Orders!OperationsAreOwn'
    BY DEF Orders!OperationsAreOwn, Orders!CallsAreRetained, Orders!Creating, Orders!Locked,
       Orders!HistoriesGrow, Orders!CandidatesAreNext
  <2>7. Orders!OrdersAreKept'
    <3> USE DEF Orders!CallsAreRetained, Orders!Creating, Orders!Locked,
          Orders!HistoriesGrow, Orders!CandidatesAreNext, Orders!OperationsAreOwn,
          Orders!OrdersAreKept
    <3>1. Orders!CurrentIsWhole'
      BY DEF Orders!CurrentIsWhole
    <3>2. Orders!ReportedIsKept'
      BY DEF Orders!ReportedIsKept
    <3>3. Orders!RefusedIsNotSaved'
      BY DEF Orders!RefusedIsNotSaved
    <3>4. Orders!AppliedOnce'
      BY DEF Orders!AppliedOnce
    <3>5. Orders!ViewsAgree'
      BY DEF Orders!ViewsAgree
    <3> QED
      BY <3>1, <3>2, <3>3, <3>4, <3>5
  <2> QED
    BY <2>1, <2>2, <2>3, <2>4, <2>5, <2>6, <2>7
<1>2. ASSUME NEW f \in Orders!Folders, Orders!Move(f) PROVE Orders!IInv'
  <2>1. Orders!TypeOK'
    <3>1. Orders!FoldersOK'
      <4>1. v1' \in [Orders!Folders -> {"nowhere", "chosen", "away"}]
        <5>1. \E p \in {"chosen", "away"} : v1' = [v1 EXCEPT ![f] = p]
          BY <1>2 DEF Orders!Move
        <5>2. v1 \in [Orders!Folders -> {"nowhere", "chosen", "away"}]
          BY DEF Orders!TypeOK, Orders!FoldersOK
        <5> QED
          BY <5>1, <5>2
      <4>2. v2' \in [Orders!Folders -> SUBSET {"nowhere", "chosen", "away"}]
        <5>1. \E s \in SUBSET {"nowhere", "chosen", "away"} : v2' = [v2 EXCEPT ![f] = s]
          BY <1>2, <4>1 DEF Orders!Move
        <5>2. v2 \in [Orders!Folders -> SUBSET {"nowhere", "chosen", "away"}]
          BY DEF Orders!TypeOK, Orders!FoldersOK
        <5> QED
          BY <5>1, <5>2
      <4>3. v3' \in [Orders!Folders -> SUBSET Orders!Snapshots]
        BY <1>2 DEF Orders!Move, Orders!TypeOK, Orders!FoldersOK
      <4>4. v4' \in [Orders!Folders -> SUBSET Orders!Snapshots]
        BY <1>2 DEF Orders!Move, Orders!TypeOK, Orders!FoldersOK
      <4>5. v5' \in [Orders!Folders -> Orders!Snapshots]
        BY <1>2 DEF Orders!Move, Orders!TypeOK, Orders!FoldersOK
      <4>6. v6' \in [Orders!Folders -> SUBSET Orders!Snapshots]
        BY <1>2 DEF Orders!Move, Orders!TypeOK, Orders!FoldersOK
      <4>7. v7' \in [Orders!Folders -> Hosts \cup {Orders!Nobody}]
        BY <1>2 DEF Orders!Move, Orders!TypeOK, Orders!FoldersOK
      <4> QED
        BY <4>1, <4>2, <4>3, <4>4, <4>5, <4>6, <4>7 DEF Orders!FoldersOK, Orders!TypeOK,
           Orders!WindowsOK
    <3>2. Orders!WindowsOK'
      BY <1>2 DEF Orders!Move, Orders!Here, Orders!WindowsOK, Orders!TypeOK,
         Orders!FoldersOK
    <3>3. v14' \subseteq Orders!Operations /\ v15' \subseteq Orders!Operations
      BY <1>2 DEF Orders!Move, Orders!Here, Orders!TypeOK, Orders!FoldersOK,
         Orders!WindowsOK, Orders!CallsAreRetained, Orders!Creating, Orders!Locked
    <3>4. v16' \in Nat /\ v17' \in Nat
      BY <1>2 DEF Orders!Move, Orders!Here, Orders!TypeOK, Orders!FoldersOK,
         Orders!WindowsOK
    <3> QED
      BY <3>1, <3>2, <3>3, <3>4 DEF Orders!TypeOK, Orders!FoldersOK, Orders!WindowsOK
  <2>2. Orders!CallsAreRetained'
    BY <1>2 DEF Orders!Move, Orders!Here, Orders!CallsAreRetained, Orders!TypeOK,
       Orders!FoldersOK, Orders!WindowsOK, Orders!Creating, Orders!Locked
  <2>3. Orders!LockIsHeld'
    BY <1>2 DEF Orders!Move, Orders!Here, Orders!LockIsHeld, Orders!TypeOK,
       Orders!FoldersOK, Orders!WindowsOK, Orders!CallsAreRetained, Orders!Creating,
       Orders!Locked
  <2>4. Orders!HistoriesGrow'
    BY <1>2 DEF Orders!Move, Orders!Here, Orders!HistoriesGrow, Orders!TypeOK,
       Orders!FoldersOK, Orders!WindowsOK, Orders!CallsAreRetained, Orders!Creating,
       Orders!Locked, Orders!CandidatesAreNext
  <2>5. Orders!CandidatesAreNext'
    BY <1>2 DEF Orders!Move, Orders!Here, Orders!CandidatesAreNext, Orders!TypeOK,
       Orders!FoldersOK, Orders!WindowsOK, Orders!CallsAreRetained, Orders!Creating,
       Orders!Locked, Orders!LockIsHeld, Orders!HistoriesGrow, Orders!Applied,
       Orders!Candidate
  <2>6. Orders!OperationsAreOwn'
    BY <1>2 DEF Orders!Move, Orders!Here, Orders!OperationsAreOwn, Orders!TypeOK,
       Orders!FoldersOK, Orders!WindowsOK, Orders!CallsAreRetained, Orders!Creating,
       Orders!Locked, Orders!HistoriesGrow, Orders!CandidatesAreNext
  <2>7. Orders!OrdersAreKept'
    <3> USE <1>2 DEF Orders!Move, Orders!Here, Orders!TypeOK, Orders!FoldersOK,
          Orders!WindowsOK, Orders!CallsAreRetained, Orders!Creating, Orders!Locked,
          Orders!HistoriesGrow, Orders!CandidatesAreNext, Orders!OperationsAreOwn,
          Orders!OrdersAreKept
    <3>1. Orders!CurrentIsWhole'
      BY DEF Orders!CurrentIsWhole
    <3>2. Orders!ReportedIsKept'
      BY DEF Orders!ReportedIsKept
    <3>3. Orders!RefusedIsNotSaved'
      BY DEF Orders!RefusedIsNotSaved
    <3>4. Orders!AppliedOnce'
      BY DEF Orders!AppliedOnce
    <3>5. Orders!ViewsAgree'
      BY DEF Orders!ViewsAgree
    <3> QED
      BY <3>1, <3>2, <3>3, <3>4, <3>5
  <2> QED
    BY <2>1, <2>2, <2>3, <2>4, <2>5, <2>6, <2>7
<1>3. ASSUME NEW w \in Hosts, Orders!Open(w) PROVE Orders!IInv'
  <2> USE <1>3 DEF Orders!Open, Orders!Here, Orders!Loads, Orders!Shows, Orders!Goes,
        Orders!FoldersOK, Orders!TypeOK, Orders!WindowsOK
  <2>1. Orders!TypeOK'
    <3>1. Orders!FoldersOK'
      OBVIOUS
    <3>2. Orders!WindowsOK'
      OBVIOUS
    <3> QED
      BY <3>1, <3>2
  <2>2. Orders!CallsAreRetained'
    BY DEF Orders!CallsAreRetained, Orders!Creating, Orders!Locked
  <2>3. Orders!LockIsHeld'
    BY DEF Orders!LockIsHeld, Orders!CallsAreRetained, Orders!Creating, Orders!Locked
  <2>4. Orders!HistoriesGrow'
    BY DEF Orders!HistoriesGrow, Orders!CallsAreRetained, Orders!Creating, Orders!Locked,
       Orders!CandidatesAreNext
  <2>5. Orders!CandidatesAreNext'
    BY DEF Orders!CandidatesAreNext, Orders!CallsAreRetained, Orders!Creating,
       Orders!Locked, Orders!LockIsHeld, Orders!HistoriesGrow, Orders!Applied,
       Orders!Candidate
  <2>6. Orders!OperationsAreOwn'
    BY DEF Orders!OperationsAreOwn, Orders!CallsAreRetained, Orders!Creating, Orders!Locked,
       Orders!HistoriesGrow, Orders!CandidatesAreNext
  <2>7. Orders!OrdersAreKept'
    <3> USE DEF Orders!CallsAreRetained, Orders!Creating, Orders!Locked,
          Orders!HistoriesGrow, Orders!CandidatesAreNext, Orders!OperationsAreOwn,
          Orders!OrdersAreKept
    <3>1. Orders!CurrentIsWhole'
      BY DEF Orders!CurrentIsWhole
    <3>2. Orders!ReportedIsKept'
      BY DEF Orders!ReportedIsKept
    <3>3. Orders!RefusedIsNotSaved'
      BY DEF Orders!RefusedIsNotSaved
    <3>4. Orders!AppliedOnce'
      BY DEF Orders!AppliedOnce
    <3>5. Orders!ViewsAgree'
      BY DEF Orders!ViewsAgree
    <3> QED
      BY <3>1, <3>2, <3>3, <3>4, <3>5
  <2> QED
    BY <2>1, <2>2, <2>3, <2>4, <2>5, <2>6, <2>7
<1>4. ASSUME NEW w \in Hosts, Orders!Close(w) PROVE Orders!IInv'
  <2> USE <1>4 DEF Orders!Close, Orders!Shows, Orders!Goes, Orders!FoldersOK, Orders!TypeOK,
        Orders!WindowsOK
  <2>1. Orders!TypeOK'
    <3>1. Orders!FoldersOK'
      OBVIOUS
    <3>2. Orders!WindowsOK'
      OBVIOUS
    <3> QED
      BY <3>1, <3>2
  <2>2. Orders!CallsAreRetained'
    BY DEF Orders!CallsAreRetained, Orders!Creating, Orders!Locked
  <2>3. Orders!LockIsHeld'
    BY DEF Orders!LockIsHeld, Orders!CallsAreRetained, Orders!Creating, Orders!Locked
  <2>4. Orders!HistoriesGrow'
    BY DEF Orders!HistoriesGrow, Orders!CallsAreRetained, Orders!Creating, Orders!Locked,
       Orders!CandidatesAreNext
  <2>5. Orders!CandidatesAreNext'
    BY DEF Orders!CandidatesAreNext, Orders!CallsAreRetained, Orders!Creating,
       Orders!Locked, Orders!LockIsHeld, Orders!HistoriesGrow, Orders!Applied,
       Orders!Candidate
  <2>6. Orders!OperationsAreOwn'
    BY DEF Orders!OperationsAreOwn, Orders!CallsAreRetained, Orders!Creating, Orders!Locked,
       Orders!HistoriesGrow, Orders!CandidatesAreNext
  <2>7. Orders!OrdersAreKept'
    <3> USE DEF Orders!CallsAreRetained, Orders!Creating, Orders!Locked,
          Orders!HistoriesGrow, Orders!CandidatesAreNext, Orders!OperationsAreOwn,
          Orders!OrdersAreKept
    <3>1. Orders!CurrentIsWhole'
      BY DEF Orders!CurrentIsWhole
    <3>2. Orders!ReportedIsKept'
      BY DEF Orders!ReportedIsKept
    <3>3. Orders!RefusedIsNotSaved'
      BY DEF Orders!RefusedIsNotSaved
    <3>4. Orders!AppliedOnce'
      BY DEF Orders!AppliedOnce
    <3>5. Orders!ViewsAgree'
      BY DEF Orders!ViewsAgree
    <3> QED
      BY <3>1, <3>2, <3>3, <3>4, <3>5
  <2> QED
    BY <2>1, <2>2, <2>3, <2>4, <2>5, <2>6, <2>7
<1>5. ASSUME NEW w \in Hosts, Orders!Retry(w) PROVE Orders!IInv'
  <2> USE <1>5 DEF Orders!Retry, Orders!Goes, Orders!FoldersOK, Orders!TypeOK,
        Orders!WindowsOK
  <2>1. Orders!TypeOK'
    <3>1. Orders!FoldersOK'
      OBVIOUS
    <3>2. Orders!WindowsOK'
      OBVIOUS
    <3> QED
      BY <3>1, <3>2
  <2>2. Orders!CallsAreRetained'
    BY DEF Orders!CallsAreRetained, Orders!Creating, Orders!Locked
  <2>3. Orders!LockIsHeld'
    BY DEF Orders!LockIsHeld, Orders!CallsAreRetained, Orders!Creating, Orders!Locked
  <2>4. Orders!HistoriesGrow'
    BY DEF Orders!HistoriesGrow, Orders!CallsAreRetained, Orders!Creating, Orders!Locked,
       Orders!CandidatesAreNext
  <2>5. Orders!CandidatesAreNext'
    BY DEF Orders!CandidatesAreNext, Orders!CallsAreRetained, Orders!Creating,
       Orders!Locked, Orders!LockIsHeld, Orders!HistoriesGrow, Orders!Applied,
       Orders!Candidate
  <2>6. Orders!OperationsAreOwn'
    BY DEF Orders!OperationsAreOwn, Orders!CallsAreRetained, Orders!Creating, Orders!Locked,
       Orders!HistoriesGrow, Orders!CandidatesAreNext
  <2>7. Orders!OrdersAreKept'
    <3> USE DEF Orders!CallsAreRetained, Orders!Creating, Orders!Locked,
          Orders!HistoriesGrow, Orders!CandidatesAreNext, Orders!OperationsAreOwn,
          Orders!OrdersAreKept
    <3>1. Orders!CurrentIsWhole'
      BY DEF Orders!CurrentIsWhole
    <3>2. Orders!ReportedIsKept'
      BY DEF Orders!ReportedIsKept
    <3>3. Orders!RefusedIsNotSaved'
      BY DEF Orders!RefusedIsNotSaved
    <3>4. Orders!AppliedOnce'
      BY DEF Orders!AppliedOnce
    <3>5. Orders!ViewsAgree'
      BY DEF Orders!ViewsAgree
    <3> QED
      BY <3>1, <3>2, <3>3, <3>4, <3>5
  <2> QED
    BY <2>1, <2>2, <2>3, <2>4, <2>5, <2>6, <2>7
<1>6. ASSUME NEW w \in Hosts, Orders!Crash(w) PROVE Orders!IInv'
  <2> USE <1>6 DEF Orders!Crash, Orders!Forgets, Orders!FoldersOK, Orders!TypeOK,
        Orders!WindowsOK
  <2>1. Orders!TypeOK'
    <3>1. Orders!FoldersOK'
      OBVIOUS
    <3>2. Orders!WindowsOK'
      OBVIOUS
    <3> QED
      BY <3>1, <3>2
  <2>2. Orders!CallsAreRetained'
    BY DEF Orders!CallsAreRetained, Orders!Creating, Orders!Locked
  <2>3. Orders!LockIsHeld'
    BY DEF Orders!LockIsHeld, Orders!CallsAreRetained, Orders!Creating, Orders!Locked
  <2>4. Orders!HistoriesGrow'
    BY DEF Orders!HistoriesGrow, Orders!CallsAreRetained, Orders!Creating, Orders!Locked,
       Orders!CandidatesAreNext
  <2>5. Orders!CandidatesAreNext'
    BY DEF Orders!CandidatesAreNext, Orders!CallsAreRetained, Orders!Creating,
       Orders!Locked, Orders!LockIsHeld, Orders!HistoriesGrow, Orders!Applied,
       Orders!Candidate
  <2>6. Orders!OperationsAreOwn'
    BY DEF Orders!OperationsAreOwn, Orders!CallsAreRetained, Orders!Creating, Orders!Locked,
       Orders!HistoriesGrow, Orders!CandidatesAreNext
  <2>7. Orders!OrdersAreKept'
    <3> USE DEF Orders!CallsAreRetained, Orders!Creating, Orders!Locked,
          Orders!HistoriesGrow, Orders!CandidatesAreNext, Orders!OperationsAreOwn,
          Orders!OrdersAreKept
    <3>1. Orders!CurrentIsWhole'
      BY DEF Orders!CurrentIsWhole
    <3>2. Orders!ReportedIsKept'
      BY DEF Orders!ReportedIsKept
    <3>3. Orders!RefusedIsNotSaved'
      BY DEF Orders!RefusedIsNotSaved
    <3>4. Orders!AppliedOnce'
      BY DEF Orders!AppliedOnce
    <3>5. Orders!ViewsAgree'
      BY DEF Orders!ViewsAgree
    <3> QED
      BY <3>1, <3>2, <3>3, <3>4, <3>5
  <2> QED
    BY <2>1, <2>2, <2>3, <2>4, <2>5, <2>6, <2>7
<1>7. ASSUME NEW w \in Hosts, Orders!CreateProject(w) PROVE Orders!IInv'
  <2> USE <1>7 DEF Orders!CreateProject, Orders!Requests, Orders!Goes, Orders!FoldersOK,
        Orders!TypeOK, Orders!WindowsOK
  <2>1. Orders!TypeOK'
    <3>1. Orders!FoldersOK'
      OBVIOUS
    <3>2. Orders!WindowsOK'
      OBVIOUS
    <3> QED
      BY <3>1, <3>2
  <2>2. Orders!CallsAreRetained'
    BY DEF Orders!CallsAreRetained, Orders!Creating, Orders!Locked
  <2>3. Orders!LockIsHeld'
    BY DEF Orders!LockIsHeld, Orders!CallsAreRetained, Orders!Creating, Orders!Locked
  <2>4. Orders!HistoriesGrow'
    BY DEF Orders!HistoriesGrow, Orders!CallsAreRetained, Orders!Creating, Orders!Locked,
       Orders!CandidatesAreNext
  <2>5. Orders!CandidatesAreNext'
    BY DEF Orders!CandidatesAreNext, Orders!CallsAreRetained, Orders!Creating,
       Orders!Locked, Orders!LockIsHeld, Orders!HistoriesGrow, Orders!Applied,
       Orders!Candidate
  <2>6. Orders!OperationsAreOwn'
    BY DEF Orders!OperationsAreOwn, Orders!CallsAreRetained, Orders!Creating, Orders!Locked,
       Orders!HistoriesGrow, Orders!CandidatesAreNext
  <2>7. Orders!OrdersAreKept'
    <3> USE DEF Orders!CallsAreRetained, Orders!Creating, Orders!Locked,
          Orders!HistoriesGrow, Orders!CandidatesAreNext, Orders!OperationsAreOwn,
          Orders!OrdersAreKept
    <3>1. Orders!CurrentIsWhole'
      BY DEF Orders!CurrentIsWhole
    <3>2. Orders!ReportedIsKept'
      BY DEF Orders!ReportedIsKept
    <3>3. Orders!RefusedIsNotSaved'
      BY DEF Orders!RefusedIsNotSaved
    <3>4. Orders!AppliedOnce'
      BY DEF Orders!AppliedOnce
    <3>5. Orders!ViewsAgree'
      BY DEF Orders!ViewsAgree
    <3> QED
      BY <3>1, <3>2, <3>3, <3>4, <3>5
  <2> QED
    BY <2>1, <2>2, <2>3, <2>4, <2>5, <2>6, <2>7
<1>8. ASSUME NEW w \in Hosts, Orders!FindCreated(w) PROVE Orders!IInv'
  <2> USE DEF Orders!Shows, Orders!Goes, Orders!Rejected, Orders!Releases
  <2>1. v8[w] = "creating" /\ UNCHANGED <<v1, v2, v3, v4, v5, v6, v13, v14, v15, v16, v17>>
    BY <1>8 DEF Orders!FindCreated, Orders!Here
  <2>2. ASSUME NEW f \in Orders!Folders,
             /\ v1[f] = "chosen" /\ v11[w] \in Orders!Receipts(v5[f])
             /\ Orders!Shows(w, f, v5[f]) /\ v7' = v7
      PROVE  Orders!IInv'
    <3> USE <2>1, <2>2 DEF Orders!FoldersOK, Orders!TypeOK, Orders!WindowsOK
    <3>1. Orders!TypeOK'
      <4>1. Orders!FoldersOK'
        OBVIOUS
      <4>2. Orders!WindowsOK'
        <5> USE DEF Orders!CallsAreRetained, Orders!Creating, Orders!Locked
        <5>1. v8' \in [Hosts -> {"idle", "creating", "staged", "published", "saving",
                     "locked", "renamed", "kept", "switched", "failed", "reloading"}]
          OBVIOUS
        <5>2. v9' \in [Hosts -> 0 .. MaxFolder]
          OBVIOUS
        <5>3. v10' \in [Hosts -> Orders!Snapshots]
          OBVIOUS
        <5>4. v11' \in [Hosts -> 0 .. MaxOperation]
          OBVIOUS
        <5>5. v12' \in [Hosts -> Orders!Snapshots]
          OBVIOUS
        <5>6. v13' \in 0 .. MaxOperation
          OBVIOUS
        <5> QED
          BY <5>1, <5>2, <5>3, <5>4, <5>5, <5>6
      <4>3. v14' \subseteq Orders!Operations /\ v15' \subseteq Orders!Operations
        BY DEF Orders!CallsAreRetained, Orders!Creating, Orders!Locked
      <4>4. v16' \in Nat /\ v17' \in Nat
        OBVIOUS
      <4> QED
        BY <4>1, <4>2, <4>3, <4>4
    <3>2. Orders!CallsAreRetained'
      BY DEF Orders!CallsAreRetained, Orders!Creating, Orders!Locked
    <3>3. Orders!LockIsHeld'
      BY DEF Orders!LockIsHeld, Orders!CallsAreRetained, Orders!Creating, Orders!Locked
    <3>4. Orders!HistoriesGrow'
      BY DEF Orders!HistoriesGrow, Orders!CallsAreRetained, Orders!Creating, Orders!Locked,
         Orders!CandidatesAreNext
    <3>5. Orders!CandidatesAreNext'
      BY DEF Orders!CandidatesAreNext, Orders!CallsAreRetained, Orders!Creating,
         Orders!Locked, Orders!LockIsHeld, Orders!HistoriesGrow, Orders!Applied,
         Orders!Candidate
    <3>6. Orders!OperationsAreOwn'
      BY DEF Orders!OperationsAreOwn, Orders!CallsAreRetained, Orders!Creating,
         Orders!Locked, Orders!HistoriesGrow, Orders!CandidatesAreNext
    <3>7. Orders!OrdersAreKept'
      <4> USE DEF Orders!CallsAreRetained, Orders!Creating, Orders!Locked,
            Orders!HistoriesGrow, Orders!CandidatesAreNext, Orders!OperationsAreOwn,
            Orders!OrdersAreKept
      <4>1. Orders!CurrentIsWhole'
        BY DEF Orders!CurrentIsWhole
      <4>2. Orders!ReportedIsKept'
        BY DEF Orders!ReportedIsKept
      <4>3. Orders!RefusedIsNotSaved'
        BY DEF Orders!RefusedIsNotSaved
      <4>4. Orders!AppliedOnce'
        BY DEF Orders!AppliedOnce
      <4>5. Orders!ViewsAgree'
        BY DEF Orders!ViewsAgree
      <4> QED
        BY <4>1, <4>2, <4>3, <4>4, <4>5
    <3> QED
      BY <3>1, <3>2, <3>3, <3>4, <3>5, <3>6, <3>7
  <2>3. ASSUME NEW f \in Orders!Folders,
             v11[w] \notin Orders!Receipts(v5[f]) /\ Orders!Rejected(w, "idle")
      PROVE  Orders!IInv'
    <3> USE <2>1, <2>3 DEF Orders!FoldersOK, Orders!TypeOK, Orders!WindowsOK
    <3>1. Orders!TypeOK'
      <4>1. Orders!FoldersOK'
        OBVIOUS
      <4>2. Orders!WindowsOK'
        <5> USE DEF Orders!CallsAreRetained, Orders!Creating, Orders!Locked
        <5>1. v8' \in [Hosts -> {"idle", "creating", "staged", "published", "saving",
                     "locked", "renamed", "kept", "switched", "failed", "reloading"}]
          OBVIOUS
        <5>2. v9' \in [Hosts -> 0 .. MaxFolder]
          OBVIOUS
        <5>3. v10' \in [Hosts -> Orders!Snapshots]
          OBVIOUS
        <5>4. v11' \in [Hosts -> 0 .. MaxOperation]
          OBVIOUS
        <5>5. v12' \in [Hosts -> Orders!Snapshots]
          OBVIOUS
        <5>6. v13' \in 0 .. MaxOperation
          OBVIOUS
        <5> QED
          BY <5>1, <5>2, <5>3, <5>4, <5>5, <5>6
      <4>3. v14' \subseteq Orders!Operations /\ v15' \subseteq Orders!Operations
        BY DEF Orders!CallsAreRetained, Orders!Creating, Orders!Locked
      <4>4. v16' \in Nat /\ v17' \in Nat
        OBVIOUS
      <4> QED
        BY <4>1, <4>2, <4>3, <4>4
    <3>2. Orders!CallsAreRetained'
      BY DEF Orders!CallsAreRetained, Orders!Creating, Orders!Locked
    <3>3. Orders!LockIsHeld'
      BY DEF Orders!LockIsHeld, Orders!CallsAreRetained, Orders!Creating, Orders!Locked
    <3>4. Orders!HistoriesGrow'
      BY DEF Orders!HistoriesGrow, Orders!CallsAreRetained, Orders!Creating, Orders!Locked,
         Orders!CandidatesAreNext
    <3>5. Orders!CandidatesAreNext'
      BY DEF Orders!CandidatesAreNext, Orders!CallsAreRetained, Orders!Creating,
         Orders!Locked, Orders!LockIsHeld, Orders!HistoriesGrow, Orders!Applied,
         Orders!Candidate
    <3>6. Orders!OperationsAreOwn'
      BY DEF Orders!OperationsAreOwn, Orders!CallsAreRetained, Orders!Creating,
         Orders!Locked, Orders!HistoriesGrow, Orders!CandidatesAreNext
    <3>7. Orders!OrdersAreKept'
      <4> USE DEF Orders!CallsAreRetained, Orders!Creating, Orders!Locked,
            Orders!HistoriesGrow, Orders!CandidatesAreNext, Orders!OperationsAreOwn,
            Orders!OrdersAreKept
      <4>1. Orders!CurrentIsWhole'
        BY DEF Orders!CurrentIsWhole
      <4>2. Orders!ReportedIsKept'
        BY DEF Orders!ReportedIsKept
      <4>3. Orders!RefusedIsNotSaved'
        BY DEF Orders!RefusedIsNotSaved
      <4>4. Orders!AppliedOnce'
        BY DEF Orders!AppliedOnce
      <4>5. Orders!ViewsAgree'
        BY DEF Orders!ViewsAgree
      <4> QED
        BY <4>1, <4>2, <4>3, <4>4, <4>5
    <3> QED
      BY <3>1, <3>2, <3>3, <3>4, <3>5, <3>6, <3>7
  <2> QED
    BY <1>8, <2>2, <2>3 DEF Orders!FindCreated, Orders!Here
<1>9. ASSUME NEW w \in Hosts, Orders!StageProject(w) PROVE Orders!IInv'
  <2> USE <1>9 DEF Orders!StageProject, Orders!Goes, Orders!FoldersOK, Orders!TypeOK,
        Orders!WindowsOK
  <2>1. Orders!TypeOK'
    <3>1. Orders!FoldersOK'
      OBVIOUS
    <3>2. Orders!WindowsOK'
      OBVIOUS
    <3> QED
      BY <3>1, <3>2
  <2>2. Orders!CallsAreRetained'
    BY DEF Orders!CallsAreRetained, Orders!Creating, Orders!Locked
  <2>3. Orders!LockIsHeld'
    BY DEF Orders!LockIsHeld, Orders!CallsAreRetained, Orders!Creating, Orders!Locked
  <2>4. Orders!HistoriesGrow'
    BY DEF Orders!HistoriesGrow, Orders!CallsAreRetained, Orders!Creating, Orders!Locked,
       Orders!CandidatesAreNext
  <2>5. Orders!CandidatesAreNext'
    BY DEF Orders!CandidatesAreNext, Orders!CallsAreRetained, Orders!Creating,
       Orders!Locked, Orders!LockIsHeld, Orders!HistoriesGrow, Orders!Applied,
       Orders!Candidate
  <2>6. Orders!OperationsAreOwn'
    BY DEF Orders!OperationsAreOwn, Orders!CallsAreRetained, Orders!Creating, Orders!Locked,
       Orders!HistoriesGrow, Orders!CandidatesAreNext
  <2>7. Orders!OrdersAreKept'
    <3> USE DEF Orders!CallsAreRetained, Orders!Creating, Orders!Locked,
          Orders!HistoriesGrow, Orders!CandidatesAreNext, Orders!OperationsAreOwn,
          Orders!OrdersAreKept
    <3>1. Orders!CurrentIsWhole'
      BY DEF Orders!CurrentIsWhole
    <3>2. Orders!ReportedIsKept'
      BY DEF Orders!ReportedIsKept
    <3>3. Orders!RefusedIsNotSaved'
      BY DEF Orders!RefusedIsNotSaved
    <3>4. Orders!AppliedOnce'
      BY DEF Orders!AppliedOnce
    <3>5. Orders!ViewsAgree'
      BY DEF Orders!ViewsAgree
    <3> QED
      BY <3>1, <3>2, <3>3, <3>4, <3>5
  <2> QED
    BY <2>1, <2>2, <2>3, <2>4, <2>5, <2>6, <2>7
<1>10. ASSUME NEW w \in Hosts, Orders!PublishProject(w) PROVE Orders!IInv'
  <2>1. v8[w] = "staged" /\ v12[w] = Orders!Blank /\ v11[w] \in Orders!Operations /\ v9[w] = 0
    BY <1>10 DEF Orders!PublishProject, Orders!Goes, Orders!CallsAreRetained,
       Orders!Creating, Orders!Locked, Orders!TypeOK, Orders!FoldersOK, Orders!WindowsOK
  <2>2. Orders!Goes(w, "published") /\ UNCHANGED <<v7, v10, v11, v12, v13, v14, v15, v16, v17>>
    BY <1>10 DEF Orders!PublishProject, Orders!Goes
  <2>3. \A x \in Hosts : v8[x] = "switched" => v5[v9[x]] # Orders!Blank
    <3>1. ASSUME NEW x \in Hosts, v8[x] = "switched" PROVE v5[v9[x]] # Orders!Blank
      <4>1. /\ v11[x] \in Orders!Operations /\ v12[x] \in Orders!Snapshots
            /\ v5[v9[x]] = Append(v12[x], v11[x])
        BY <3>1 DEF Orders!CandidatesAreNext, Orders!Candidate, Orders!CallsAreRetained,
           Orders!Creating, Orders!Locked, Orders!TypeOK, Orders!WindowsOK
      <4> QED
        BY <4>1, NextSnapshot
    <3> QED
      BY <3>1
  <2>4. ASSUME NEW f \in Orders!Folders, NEW t \in Orders!Snapshots,
             /\ t # Orders!Blank
             /\ Orders!Receipts(t) = {v11[w]} /\ Orders!IsInjective(t)
             /\ v5[f] = Orders!Blank /\ v9' = [v9 EXCEPT ![w] = f]
             /\ v1' = [v1 EXCEPT ![f] = "chosen"]
             /\ v2' = [v2 EXCEPT ![f] = {"nowhere", "chosen"}]
             /\ v3' = [v3 EXCEPT ![f] = {t}] /\ v4' = [v4 EXCEPT ![f] = {t}]
             /\ v5' = [v5 EXCEPT ![f] = t] /\ v6' = [v6 EXCEPT ![f] = {t}]
      PROVE  Orders!IInv'
    <3> USE <2>1, <2>2, <2>3, <2>4 DEF Orders!Goes, Orders!FoldersOK, Orders!TypeOK,
          Orders!WindowsOK
    <3>1. Orders!TypeOK'
      <4>1. Orders!FoldersOK'
        <5> USE DEF Orders!CallsAreRetained, Orders!Creating, Orders!Locked
        <5>1. v1' \in [Orders!Folders -> {"nowhere", "chosen", "away"}]
          OBVIOUS
        <5>2. v2' \in [Orders!Folders -> SUBSET {"nowhere", "chosen", "away"}]
          OBVIOUS
        <5>3. v3' \in [Orders!Folders -> SUBSET Orders!Snapshots]
          OBVIOUS
        <5>4. v4' \in [Orders!Folders -> SUBSET Orders!Snapshots]
          OBVIOUS
        <5>5. v5' \in [Orders!Folders -> Orders!Snapshots]
          OBVIOUS
        <5>6. v6' \in [Orders!Folders -> SUBSET Orders!Snapshots]
          OBVIOUS
        <5>7. v7' \in [Orders!Folders -> Hosts \cup {Orders!Nobody}]
          OBVIOUS
        <5> QED
          BY <5>1, <5>2, <5>3, <5>4, <5>5, <5>6, <5>7
      <4>2. Orders!WindowsOK'
        <5> USE DEF Orders!CallsAreRetained, Orders!Creating, Orders!Locked
        <5>1. v8' \in [Hosts -> {"idle", "creating", "staged", "published", "saving",
                     "locked", "renamed", "kept", "switched", "failed", "reloading"}]
          OBVIOUS
        <5>2. v9' \in [Hosts -> 0 .. MaxFolder]
          OBVIOUS
        <5>3. v10' \in [Hosts -> Orders!Snapshots]
          OBVIOUS
        <5>4. v11' \in [Hosts -> 0 .. MaxOperation]
          OBVIOUS
        <5>5. v12' \in [Hosts -> Orders!Snapshots]
          OBVIOUS
        <5>6. v13' \in 0 .. MaxOperation
          OBVIOUS
        <5> QED
          BY <5>1, <5>2, <5>3, <5>4, <5>5, <5>6
      <4>3. v14' \subseteq Orders!Operations /\ v15' \subseteq Orders!Operations
        BY DEF Orders!CallsAreRetained, Orders!Creating, Orders!Locked
      <4>4. v16' \in Nat /\ v17' \in Nat
        OBVIOUS
      <4> QED
        BY <4>1, <4>2, <4>3, <4>4
    <3>2. Orders!CallsAreRetained'
      BY DEF Orders!CallsAreRetained, Orders!Creating, Orders!Locked
    <3>3. Orders!LockIsHeld'
      BY DEF Orders!LockIsHeld, Orders!CallsAreRetained, Orders!Creating, Orders!Locked
    <3>4. Orders!HistoriesGrow'
      BY DEF Orders!HistoriesGrow, Orders!CallsAreRetained, Orders!Creating, Orders!Locked,
         Orders!CandidatesAreNext
    <3>5. Orders!CandidatesAreNext'
      BY DEF Orders!CandidatesAreNext, Orders!CallsAreRetained, Orders!Creating,
         Orders!Locked, Orders!LockIsHeld, Orders!HistoriesGrow, Orders!Applied,
         Orders!Candidate
    <3>6. Orders!OperationsAreOwn'
      BY DEF Orders!OperationsAreOwn, Orders!CallsAreRetained, Orders!Creating,
         Orders!Locked, Orders!HistoriesGrow, Orders!CandidatesAreNext
    <3>7. Orders!OrdersAreKept'
      <4> USE DEF Orders!CallsAreRetained, Orders!Creating, Orders!Locked,
            Orders!HistoriesGrow, Orders!CandidatesAreNext, Orders!OperationsAreOwn,
            Orders!OrdersAreKept
      <4>1. Orders!CurrentIsWhole'
        BY DEF Orders!CurrentIsWhole
      <4>2. Orders!ReportedIsKept'
        BY DEF Orders!ReportedIsKept
      <4>3. Orders!RefusedIsNotSaved'
        BY DEF Orders!RefusedIsNotSaved
      <4>4. Orders!AppliedOnce'
        BY DEF Orders!AppliedOnce
      <4>5. Orders!ViewsAgree'
        BY DEF Orders!ViewsAgree
      <4> QED
        BY <4>1, <4>2, <4>3, <4>4, <4>5
    <3> QED
      BY <3>1, <3>2, <3>3, <3>4, <3>5, <3>6, <3>7
  <2> QED
    <3>1. PICK f \in Orders!Folders : 
            /\ v5[f] = Orders!Blank /\ v9' = [v9 EXCEPT ![w] = f]
            /\ v1' = [v1 EXCEPT ![f] = "chosen"]
            /\ v2' = [v2 EXCEPT ![f] = {"nowhere", "chosen"}]
            /\ v3' = [v3 EXCEPT ![f] = {<<v11[w]>>}] /\ v4' = [v4 EXCEPT ![f] = {<<v11[w]>>}]
            /\ v5' = [v5 EXCEPT ![f] = <<v11[w]>>] /\ v6' = [v6 EXCEPT ![f] = {<<v11[w]>>}]
      BY <1>10 DEF Orders!PublishProject
    <3>2. /\ <<v11[w]>> \in Orders!Snapshots /\ <<v11[w]>> # Orders!Blank
          /\ Orders!Receipts(<<v11[w]>>) = {v11[w]} /\ Orders!IsInjective(<<v11[w]>>)
      BY <2>1
    <3> QED
      BY <3>1, <3>2, <2>4
<1>11. ASSUME NEW w \in Hosts, Orders!SyncParent(w) PROVE Orders!IInv'
  <2>1. Orders!TypeOK'
    <3>1. Orders!FoldersOK'
      <4> USE <1>11 DEF Orders!SyncParent, Orders!Shows, Orders!Goes, Orders!FoldersOK,
            Orders!TypeOK, Orders!WindowsOK, Orders!CallsAreRetained, Orders!Creating,
            Orders!Locked
      <4>1. v1' \in [Orders!Folders -> {"nowhere", "chosen", "away"}]
        OBVIOUS
      <4>2. v2' \in [Orders!Folders -> SUBSET {"nowhere", "chosen", "away"}]
        OBVIOUS
      <4>3. v3' \in [Orders!Folders -> SUBSET Orders!Snapshots]
        OBVIOUS
      <4>4. v4' \in [Orders!Folders -> SUBSET Orders!Snapshots]
        OBVIOUS
      <4>5. v5' \in [Orders!Folders -> Orders!Snapshots]
        OBVIOUS
      <4>6. v6' \in [Orders!Folders -> SUBSET Orders!Snapshots]
        OBVIOUS
      <4>7. v7' \in [Orders!Folders -> Hosts \cup {Orders!Nobody}]
        OBVIOUS
      <4> QED
        BY <4>1, <4>2, <4>3, <4>4, <4>5, <4>6, <4>7
    <3>2. Orders!WindowsOK'
      <4> USE <1>11 DEF Orders!SyncParent, Orders!Shows, Orders!Goes, Orders!WindowsOK,
            Orders!TypeOK, Orders!FoldersOK, Orders!CallsAreRetained, Orders!Creating,
            Orders!Locked
      <4>1. v8' \in [Hosts -> {"idle", "creating", "staged", "published", "saving",
                     "locked", "renamed", "kept", "switched", "failed", "reloading"}]
        OBVIOUS
      <4>2. v9' \in [Hosts -> 0 .. MaxFolder]
        OBVIOUS
      <4>3. v10' \in [Hosts -> Orders!Snapshots]
        OBVIOUS
      <4>4. v11' \in [Hosts -> 0 .. MaxOperation]
        OBVIOUS
      <4>5. v12' \in [Hosts -> Orders!Snapshots]
        OBVIOUS
      <4>6. v13' \in 0 .. MaxOperation
        OBVIOUS
      <4> QED
        BY <4>1, <4>2, <4>3, <4>4, <4>5, <4>6
    <3>3. v14' \subseteq Orders!Operations /\ v15' \subseteq Orders!Operations
      <4>1. v11[w] \in Orders!Operations
        BY <1>11 DEF Orders!SyncParent, Orders!CallsAreRetained, Orders!Creating,
           Orders!Locked, Orders!TypeOK, Orders!WindowsOK
      <4> QED
        BY <1>11, <4>1 DEF Orders!SyncParent, Orders!TypeOK
    <3>4. v16' \in Nat /\ v17' \in Nat
      BY <1>11 DEF Orders!SyncParent, Orders!Shows, Orders!Goes, Orders!TypeOK,
         Orders!FoldersOK, Orders!WindowsOK
    <3> QED
      BY <3>1, <3>2, <3>3, <3>4 DEF Orders!TypeOK, Orders!FoldersOK, Orders!WindowsOK
  <2>2. Orders!CallsAreRetained'
    BY <1>11 DEF Orders!SyncParent, Orders!Shows, Orders!Goes, Orders!CallsAreRetained,
       Orders!TypeOK, Orders!FoldersOK, Orders!WindowsOK, Orders!Creating, Orders!Locked
  <2>3. Orders!LockIsHeld'
    BY <1>11 DEF Orders!SyncParent, Orders!Shows, Orders!Goes, Orders!LockIsHeld,
       Orders!TypeOK, Orders!FoldersOK, Orders!WindowsOK, Orders!CallsAreRetained,
       Orders!Creating, Orders!Locked
  <2>4. Orders!HistoriesGrow'
    BY <1>11 DEF Orders!SyncParent, Orders!Shows, Orders!Goes, Orders!HistoriesGrow,
       Orders!TypeOK, Orders!FoldersOK, Orders!WindowsOK, Orders!CallsAreRetained,
       Orders!Creating, Orders!Locked, Orders!CandidatesAreNext
  <2>5. Orders!CandidatesAreNext'
    BY <1>11 DEF Orders!SyncParent, Orders!Shows, Orders!Goes, Orders!CandidatesAreNext,
       Orders!TypeOK, Orders!FoldersOK, Orders!WindowsOK, Orders!CallsAreRetained,
       Orders!Creating, Orders!Locked, Orders!LockIsHeld, Orders!HistoriesGrow,
       Orders!Applied, Orders!Candidate
  <2>6. Orders!OperationsAreOwn'
    BY <1>11 DEF Orders!SyncParent, Orders!Shows, Orders!Goes, Orders!OperationsAreOwn,
       Orders!TypeOK, Orders!FoldersOK, Orders!WindowsOK, Orders!CallsAreRetained,
       Orders!Creating, Orders!Locked, Orders!HistoriesGrow, Orders!CandidatesAreNext
  <2>7. Orders!OrdersAreKept'
    <3> USE <1>11 DEF Orders!SyncParent, Orders!Shows, Orders!Goes, Orders!TypeOK,
          Orders!FoldersOK, Orders!WindowsOK, Orders!CallsAreRetained, Orders!Creating,
          Orders!Locked, Orders!HistoriesGrow, Orders!CandidatesAreNext,
          Orders!OperationsAreOwn, Orders!OrdersAreKept
    <3>1. Orders!CurrentIsWhole'
      BY DEF Orders!CurrentIsWhole
    <3>2. Orders!ReportedIsKept'
      BY DEF Orders!ReportedIsKept
    <3>3. Orders!RefusedIsNotSaved'
      BY DEF Orders!RefusedIsNotSaved
    <3>4. Orders!AppliedOnce'
      BY DEF Orders!AppliedOnce
    <3>5. Orders!ViewsAgree'
      BY DEF Orders!ViewsAgree
    <3> QED
      BY <3>1, <3>2, <3>3, <3>4, <3>5
  <2> QED
    BY <2>1, <2>2, <2>3, <2>4, <2>5, <2>6, <2>7
<1>12. ASSUME NEW w \in Hosts, Orders!FailCreate(w) PROVE Orders!IInv'
  <2> USE <1>12 DEF Orders!FailCreate, Orders!Goes, Orders!FoldersOK, Orders!TypeOK,
        Orders!WindowsOK
  <2>1. Orders!TypeOK'
    <3>1. Orders!FoldersOK'
      OBVIOUS
    <3>2. Orders!WindowsOK'
      OBVIOUS
    <3> QED
      BY <3>1, <3>2
  <2>2. Orders!CallsAreRetained'
    BY DEF Orders!CallsAreRetained, Orders!Creating, Orders!Locked
  <2>3. Orders!LockIsHeld'
    BY DEF Orders!LockIsHeld, Orders!CallsAreRetained, Orders!Creating, Orders!Locked
  <2>4. Orders!HistoriesGrow'
    BY DEF Orders!HistoriesGrow, Orders!CallsAreRetained, Orders!Creating, Orders!Locked,
       Orders!CandidatesAreNext
  <2>5. Orders!CandidatesAreNext'
    BY DEF Orders!CandidatesAreNext, Orders!CallsAreRetained, Orders!Creating,
       Orders!Locked, Orders!LockIsHeld, Orders!HistoriesGrow, Orders!Applied,
       Orders!Candidate
  <2>6. Orders!OperationsAreOwn'
    BY DEF Orders!OperationsAreOwn, Orders!CallsAreRetained, Orders!Creating, Orders!Locked,
       Orders!HistoriesGrow, Orders!CandidatesAreNext
  <2>7. Orders!OrdersAreKept'
    <3> USE DEF Orders!CallsAreRetained, Orders!Creating, Orders!Locked,
          Orders!HistoriesGrow, Orders!CandidatesAreNext, Orders!OperationsAreOwn,
          Orders!OrdersAreKept
    <3>1. Orders!CurrentIsWhole'
      BY DEF Orders!CurrentIsWhole
    <3>2. Orders!ReportedIsKept'
      BY DEF Orders!ReportedIsKept
    <3>3. Orders!RefusedIsNotSaved'
      BY DEF Orders!RefusedIsNotSaved
    <3>4. Orders!AppliedOnce'
      BY DEF Orders!AppliedOnce
    <3>5. Orders!ViewsAgree'
      BY DEF Orders!ViewsAgree
    <3> QED
      BY <3>1, <3>2, <3>3, <3>4, <3>5
  <2> QED
    BY <2>1, <2>2, <2>3, <2>4, <2>5, <2>6, <2>7
<1>13. ASSUME NEW w \in Hosts, Orders!RecoverCreation(w) PROVE Orders!IInv'
  <2> USE DEF Orders!Shows, Orders!Goes
  <2>1. v8[w] = "failed" /\ v12[w] = Orders!Blank /\ UNCHANGED <<v1, v2, v3, v4, v5, v6, v7, v13, v14, v15, v16, v17>>
    BY <1>13 DEF Orders!RecoverCreation, Orders!Here
  <2>2. ASSUME NEW f \in Orders!Folders,
             /\ v1[f] = "chosen" /\ v11[w] \in Orders!Receipts(v5[f])
             /\ Orders!Shows(w, f, v5[f]) /\ v7' = v7
      PROVE  Orders!IInv'
    <3> USE <2>1, <2>2 DEF Orders!FoldersOK, Orders!TypeOK, Orders!WindowsOK
    <3>1. Orders!TypeOK'
      <4>1. Orders!FoldersOK'
        OBVIOUS
      <4>2. Orders!WindowsOK'
        <5> USE DEF Orders!CallsAreRetained, Orders!Creating, Orders!Locked
        <5>1. v8' \in [Hosts -> {"idle", "creating", "staged", "published", "saving",
                     "locked", "renamed", "kept", "switched", "failed", "reloading"}]
          OBVIOUS
        <5>2. v9' \in [Hosts -> 0 .. MaxFolder]
          OBVIOUS
        <5>3. v10' \in [Hosts -> Orders!Snapshots]
          OBVIOUS
        <5>4. v11' \in [Hosts -> 0 .. MaxOperation]
          OBVIOUS
        <5>5. v12' \in [Hosts -> Orders!Snapshots]
          OBVIOUS
        <5>6. v13' \in 0 .. MaxOperation
          OBVIOUS
        <5> QED
          BY <5>1, <5>2, <5>3, <5>4, <5>5, <5>6
      <4>3. v14' \subseteq Orders!Operations /\ v15' \subseteq Orders!Operations
        BY DEF Orders!CallsAreRetained, Orders!Creating, Orders!Locked
      <4>4. v16' \in Nat /\ v17' \in Nat
        OBVIOUS
      <4> QED
        BY <4>1, <4>2, <4>3, <4>4
    <3>2. Orders!CallsAreRetained'
      BY DEF Orders!CallsAreRetained, Orders!Creating, Orders!Locked
    <3>3. Orders!LockIsHeld'
      BY DEF Orders!LockIsHeld, Orders!CallsAreRetained, Orders!Creating, Orders!Locked
    <3>4. Orders!HistoriesGrow'
      BY DEF Orders!HistoriesGrow, Orders!CallsAreRetained, Orders!Creating, Orders!Locked,
         Orders!CandidatesAreNext
    <3>5. Orders!CandidatesAreNext'
      BY DEF Orders!CandidatesAreNext, Orders!CallsAreRetained, Orders!Creating,
         Orders!Locked, Orders!LockIsHeld, Orders!HistoriesGrow, Orders!Applied,
         Orders!Candidate
    <3>6. Orders!OperationsAreOwn'
      BY DEF Orders!OperationsAreOwn, Orders!CallsAreRetained, Orders!Creating,
         Orders!Locked, Orders!HistoriesGrow, Orders!CandidatesAreNext
    <3>7. Orders!OrdersAreKept'
      <4> USE DEF Orders!CallsAreRetained, Orders!Creating, Orders!Locked,
            Orders!HistoriesGrow, Orders!CandidatesAreNext, Orders!OperationsAreOwn,
            Orders!OrdersAreKept
      <4>1. Orders!CurrentIsWhole'
        BY DEF Orders!CurrentIsWhole
      <4>2. Orders!ReportedIsKept'
        BY DEF Orders!ReportedIsKept
      <4>3. Orders!RefusedIsNotSaved'
        BY DEF Orders!RefusedIsNotSaved
      <4>4. Orders!AppliedOnce'
        BY DEF Orders!AppliedOnce
      <4>5. Orders!ViewsAgree'
        BY DEF Orders!ViewsAgree
      <4> QED
        BY <4>1, <4>2, <4>3, <4>4, <4>5
    <3> QED
      BY <3>1, <3>2, <3>3, <3>4, <3>5, <3>6, <3>7
  <2>3. CASE Orders!Shows(w, 0, Orders!Blank)
    <3> USE <2>1, <2>3 DEF Orders!FoldersOK, Orders!TypeOK, Orders!WindowsOK
    <3>1. Orders!TypeOK'
      <4>1. Orders!FoldersOK'
        OBVIOUS
      <4>2. Orders!WindowsOK'
        <5> USE DEF Orders!CallsAreRetained, Orders!Creating, Orders!Locked
        <5>1. v8' \in [Hosts -> {"idle", "creating", "staged", "published", "saving",
                     "locked", "renamed", "kept", "switched", "failed", "reloading"}]
          OBVIOUS
        <5>2. v9' \in [Hosts -> 0 .. MaxFolder]
          OBVIOUS
        <5>3. v10' \in [Hosts -> Orders!Snapshots]
          OBVIOUS
        <5>4. v11' \in [Hosts -> 0 .. MaxOperation]
          OBVIOUS
        <5>5. v12' \in [Hosts -> Orders!Snapshots]
          OBVIOUS
        <5>6. v13' \in 0 .. MaxOperation
          OBVIOUS
        <5> QED
          BY <5>1, <5>2, <5>3, <5>4, <5>5, <5>6
      <4>3. v14' \subseteq Orders!Operations /\ v15' \subseteq Orders!Operations
        BY DEF Orders!CallsAreRetained, Orders!Creating, Orders!Locked
      <4>4. v16' \in Nat /\ v17' \in Nat
        OBVIOUS
      <4> QED
        BY <4>1, <4>2, <4>3, <4>4
    <3>2. Orders!CallsAreRetained'
      BY DEF Orders!CallsAreRetained, Orders!Creating, Orders!Locked
    <3>3. Orders!LockIsHeld'
      BY DEF Orders!LockIsHeld, Orders!CallsAreRetained, Orders!Creating, Orders!Locked
    <3>4. Orders!HistoriesGrow'
      BY DEF Orders!HistoriesGrow, Orders!CallsAreRetained, Orders!Creating, Orders!Locked,
         Orders!CandidatesAreNext
    <3>5. Orders!CandidatesAreNext'
      BY DEF Orders!CandidatesAreNext, Orders!CallsAreRetained, Orders!Creating,
         Orders!Locked, Orders!LockIsHeld, Orders!HistoriesGrow, Orders!Applied,
         Orders!Candidate
    <3>6. Orders!OperationsAreOwn'
      BY DEF Orders!OperationsAreOwn, Orders!CallsAreRetained, Orders!Creating,
         Orders!Locked, Orders!HistoriesGrow, Orders!CandidatesAreNext
    <3>7. Orders!OrdersAreKept'
      <4> USE DEF Orders!CallsAreRetained, Orders!Creating, Orders!Locked,
            Orders!HistoriesGrow, Orders!CandidatesAreNext, Orders!OperationsAreOwn,
            Orders!OrdersAreKept
      <4>1. Orders!CurrentIsWhole'
        BY DEF Orders!CurrentIsWhole
      <4>2. Orders!ReportedIsKept'
        BY DEF Orders!ReportedIsKept
      <4>3. Orders!RefusedIsNotSaved'
        BY DEF Orders!RefusedIsNotSaved
      <4>4. Orders!AppliedOnce'
        BY DEF Orders!AppliedOnce
      <4>5. Orders!ViewsAgree'
        BY DEF Orders!ViewsAgree
      <4> QED
        BY <4>1, <4>2, <4>3, <4>4, <4>5
    <3> QED
      BY <3>1, <3>2, <3>3, <3>4, <3>5, <3>6, <3>7
  <2> QED
    BY <1>13, <2>2, <2>3 DEF Orders!RecoverCreation, Orders!Here
<1>14. ASSUME NEW w \in Hosts, Orders!Change(w) PROVE Orders!IInv'
  <2> USE <1>14 DEF Orders!Change, Orders!Requests, Orders!Goes, Orders!FoldersOK,
        Orders!TypeOK, Orders!WindowsOK
  <2>1. Orders!TypeOK'
    <3>1. Orders!FoldersOK'
      OBVIOUS
    <3>2. Orders!WindowsOK'
      OBVIOUS
    <3> QED
      BY <3>1, <3>2
  <2>2. Orders!CallsAreRetained'
    BY DEF Orders!CallsAreRetained, Orders!Creating, Orders!Locked
  <2>3. Orders!LockIsHeld'
    BY DEF Orders!LockIsHeld, Orders!CallsAreRetained, Orders!Creating, Orders!Locked
  <2>4. Orders!HistoriesGrow'
    BY DEF Orders!HistoriesGrow, Orders!CallsAreRetained, Orders!Creating, Orders!Locked,
       Orders!CandidatesAreNext
  <2>5. Orders!CandidatesAreNext'
    BY DEF Orders!CandidatesAreNext, Orders!CallsAreRetained, Orders!Creating,
       Orders!Locked, Orders!LockIsHeld, Orders!HistoriesGrow, Orders!Applied,
       Orders!Candidate
  <2>6. Orders!OperationsAreOwn'
    BY DEF Orders!OperationsAreOwn, Orders!CallsAreRetained, Orders!Creating, Orders!Locked,
       Orders!HistoriesGrow, Orders!CandidatesAreNext
  <2>7. Orders!OrdersAreKept'
    <3> USE DEF Orders!CallsAreRetained, Orders!Creating, Orders!Locked,
          Orders!HistoriesGrow, Orders!CandidatesAreNext, Orders!OperationsAreOwn,
          Orders!OrdersAreKept
    <3>1. Orders!CurrentIsWhole'
      BY DEF Orders!CurrentIsWhole
    <3>2. Orders!ReportedIsKept'
      BY DEF Orders!ReportedIsKept
    <3>3. Orders!RefusedIsNotSaved'
      BY DEF Orders!RefusedIsNotSaved
    <3>4. Orders!AppliedOnce'
      BY DEF Orders!AppliedOnce
    <3>5. Orders!ViewsAgree'
      BY DEF Orders!ViewsAgree
    <3> QED
      BY <3>1, <3>2, <3>3, <3>4, <3>5
  <2> QED
    BY <2>1, <2>2, <2>3, <2>4, <2>5, <2>6, <2>7
<1>15. ASSUME NEW w \in Hosts, Orders!Acquire(w) PROVE Orders!IInv'
  <2> USE DEF Orders!Goes, Orders!Rejected, Orders!Releases, Orders!Failed, Orders!TypeOK,
        Orders!FoldersOK, Orders!WindowsOK
  <2>1. v8[w] = "saving" /\ v9[w] \in Orders!Folders /\ UNCHANGED <<v1, v2, v3, v4, v5, v6, v13, v14, v15, v16, v17>>
    BY <1>15 DEF Orders!Acquire, Orders!SameDirectory, Orders!Here, Orders!CallsAreRetained,
       Orders!Creating, Orders!Locked
  <2>2. CASE /\ v7[v9[w]] = Orders!Nobody /\ v7' = [v7 EXCEPT ![v9[w]] = w]
             /\ Orders!Goes(w, "locked") /\ UNCHANGED <<v9, v10, v11, v12>>
    <3> USE <2>1, <2>2
    <3>1. Orders!TypeOK'
      <4>1. Orders!FoldersOK'
        <5> USE DEF Orders!CallsAreRetained, Orders!Creating, Orders!Locked
        <5>1. v1' \in [Orders!Folders -> {"nowhere", "chosen", "away"}]
          OBVIOUS
        <5>2. v2' \in [Orders!Folders -> SUBSET {"nowhere", "chosen", "away"}]
          OBVIOUS
        <5>3. v3' \in [Orders!Folders -> SUBSET Orders!Snapshots]
          OBVIOUS
        <5>4. v4' \in [Orders!Folders -> SUBSET Orders!Snapshots]
          OBVIOUS
        <5>5. v5' \in [Orders!Folders -> Orders!Snapshots]
          OBVIOUS
        <5>6. v6' \in [Orders!Folders -> SUBSET Orders!Snapshots]
          OBVIOUS
        <5>7. v7' \in [Orders!Folders -> Hosts \cup {Orders!Nobody}]
          OBVIOUS
        <5> QED
          BY <5>1, <5>2, <5>3, <5>4, <5>5, <5>6, <5>7
      <4>2. Orders!WindowsOK'
        <5> USE DEF Orders!CallsAreRetained, Orders!Creating, Orders!Locked
        <5>1. v8' \in [Hosts -> {"idle", "creating", "staged", "published", "saving",
                     "locked", "renamed", "kept", "switched", "failed", "reloading"}]
          OBVIOUS
        <5>2. v9' \in [Hosts -> 0 .. MaxFolder]
          OBVIOUS
        <5>3. v10' \in [Hosts -> Orders!Snapshots]
          OBVIOUS
        <5>4. v11' \in [Hosts -> 0 .. MaxOperation]
          OBVIOUS
        <5>5. v12' \in [Hosts -> Orders!Snapshots]
          OBVIOUS
        <5>6. v13' \in 0 .. MaxOperation
          OBVIOUS
        <5> QED
          BY <5>1, <5>2, <5>3, <5>4, <5>5, <5>6
      <4>3. v14' \subseteq Orders!Operations /\ v15' \subseteq Orders!Operations
        BY DEF Orders!CallsAreRetained, Orders!Creating, Orders!Locked
      <4>4. v16' \in Nat /\ v17' \in Nat
        OBVIOUS
      <4> QED
        BY <4>1, <4>2, <4>3, <4>4
    <3>2. Orders!CallsAreRetained'
      BY DEF Orders!CallsAreRetained, Orders!Creating, Orders!Locked
    <3>3. Orders!LockIsHeld'
      BY DEF Orders!LockIsHeld, Orders!CallsAreRetained, Orders!Creating, Orders!Locked
    <3>4. Orders!HistoriesGrow'
      BY DEF Orders!HistoriesGrow, Orders!CallsAreRetained, Orders!Creating, Orders!Locked,
         Orders!CandidatesAreNext
    <3>5. Orders!CandidatesAreNext'
      BY DEF Orders!CandidatesAreNext, Orders!CallsAreRetained, Orders!Creating,
         Orders!Locked, Orders!LockIsHeld, Orders!HistoriesGrow, Orders!Applied,
         Orders!Candidate
    <3>6. Orders!OperationsAreOwn'
      BY DEF Orders!OperationsAreOwn, Orders!CallsAreRetained, Orders!Creating,
         Orders!Locked, Orders!HistoriesGrow, Orders!CandidatesAreNext
    <3>7. Orders!OrdersAreKept'
      <4> USE DEF Orders!CallsAreRetained, Orders!Creating, Orders!Locked,
            Orders!HistoriesGrow, Orders!CandidatesAreNext, Orders!OperationsAreOwn,
            Orders!OrdersAreKept
      <4>1. Orders!CurrentIsWhole'
        BY DEF Orders!CurrentIsWhole
      <4>2. Orders!ReportedIsKept'
        BY DEF Orders!ReportedIsKept
      <4>3. Orders!RefusedIsNotSaved'
        BY DEF Orders!RefusedIsNotSaved
      <4>4. Orders!AppliedOnce'
        BY DEF Orders!AppliedOnce
      <4>5. Orders!ViewsAgree'
        BY DEF Orders!ViewsAgree
      <4> QED
        BY <4>1, <4>2, <4>3, <4>4, <4>5
    <3> QED
      BY <3>1, <3>2, <3>3, <3>4, <3>5, <3>6, <3>7
  <2>3. CASE Orders!Failed(w)
    <3> USE <2>1, <2>3
    <3>1. Orders!TypeOK'
      <4>1. Orders!FoldersOK'
        <5> USE DEF Orders!CallsAreRetained, Orders!Creating, Orders!Locked
        <5>1. v1' \in [Orders!Folders -> {"nowhere", "chosen", "away"}]
          OBVIOUS
        <5>2. v2' \in [Orders!Folders -> SUBSET {"nowhere", "chosen", "away"}]
          OBVIOUS
        <5>3. v3' \in [Orders!Folders -> SUBSET Orders!Snapshots]
          OBVIOUS
        <5>4. v4' \in [Orders!Folders -> SUBSET Orders!Snapshots]
          OBVIOUS
        <5>5. v5' \in [Orders!Folders -> Orders!Snapshots]
          OBVIOUS
        <5>6. v6' \in [Orders!Folders -> SUBSET Orders!Snapshots]
          OBVIOUS
        <5>7. v7' \in [Orders!Folders -> Hosts \cup {Orders!Nobody}]
          OBVIOUS
        <5> QED
          BY <5>1, <5>2, <5>3, <5>4, <5>5, <5>6, <5>7
      <4>2. Orders!WindowsOK'
        <5> USE DEF Orders!CallsAreRetained, Orders!Creating, Orders!Locked
        <5>1. v8' \in [Hosts -> {"idle", "creating", "staged", "published", "saving",
                     "locked", "renamed", "kept", "switched", "failed", "reloading"}]
          OBVIOUS
        <5>2. v9' \in [Hosts -> 0 .. MaxFolder]
          OBVIOUS
        <5>3. v10' \in [Hosts -> Orders!Snapshots]
          OBVIOUS
        <5>4. v11' \in [Hosts -> 0 .. MaxOperation]
          OBVIOUS
        <5>5. v12' \in [Hosts -> Orders!Snapshots]
          OBVIOUS
        <5>6. v13' \in 0 .. MaxOperation
          OBVIOUS
        <5> QED
          BY <5>1, <5>2, <5>3, <5>4, <5>5, <5>6
      <4>3. v14' \subseteq Orders!Operations /\ v15' \subseteq Orders!Operations
        BY DEF Orders!CallsAreRetained, Orders!Creating, Orders!Locked
      <4>4. v16' \in Nat /\ v17' \in Nat
        OBVIOUS
      <4> QED
        BY <4>1, <4>2, <4>3, <4>4
    <3>2. Orders!CallsAreRetained'
      BY DEF Orders!CallsAreRetained, Orders!Creating, Orders!Locked
    <3>3. Orders!LockIsHeld'
      BY DEF Orders!LockIsHeld, Orders!CallsAreRetained, Orders!Creating, Orders!Locked
    <3>4. Orders!HistoriesGrow'
      BY DEF Orders!HistoriesGrow, Orders!CallsAreRetained, Orders!Creating, Orders!Locked,
         Orders!CandidatesAreNext
    <3>5. Orders!CandidatesAreNext'
      BY DEF Orders!CandidatesAreNext, Orders!CallsAreRetained, Orders!Creating,
         Orders!Locked, Orders!LockIsHeld, Orders!HistoriesGrow, Orders!Applied,
         Orders!Candidate
    <3>6. Orders!OperationsAreOwn'
      BY DEF Orders!OperationsAreOwn, Orders!CallsAreRetained, Orders!Creating,
         Orders!Locked, Orders!HistoriesGrow, Orders!CandidatesAreNext
    <3>7. Orders!OrdersAreKept'
      <4> USE DEF Orders!CallsAreRetained, Orders!Creating, Orders!Locked,
            Orders!HistoriesGrow, Orders!CandidatesAreNext, Orders!OperationsAreOwn,
            Orders!OrdersAreKept
      <4>1. Orders!CurrentIsWhole'
        BY DEF Orders!CurrentIsWhole
      <4>2. Orders!ReportedIsKept'
        BY DEF Orders!ReportedIsKept
      <4>3. Orders!RefusedIsNotSaved'
        BY DEF Orders!RefusedIsNotSaved
      <4>4. Orders!AppliedOnce'
        BY DEF Orders!AppliedOnce
      <4>5. Orders!ViewsAgree'
        BY DEF Orders!ViewsAgree
      <4> QED
        BY <4>1, <4>2, <4>3, <4>4, <4>5
    <3> QED
      BY <3>1, <3>2, <3>3, <3>4, <3>5, <3>6, <3>7
  <2>4. CASE Orders!Rejected(w, "idle")
    <3> USE <2>1, <2>4
    <3>1. Orders!TypeOK'
      <4>1. Orders!FoldersOK'
        <5> USE DEF Orders!CallsAreRetained, Orders!Creating, Orders!Locked
        <5>1. v1' \in [Orders!Folders -> {"nowhere", "chosen", "away"}]
          OBVIOUS
        <5>2. v2' \in [Orders!Folders -> SUBSET {"nowhere", "chosen", "away"}]
          OBVIOUS
        <5>3. v3' \in [Orders!Folders -> SUBSET Orders!Snapshots]
          OBVIOUS
        <5>4. v4' \in [Orders!Folders -> SUBSET Orders!Snapshots]
          OBVIOUS
        <5>5. v5' \in [Orders!Folders -> Orders!Snapshots]
          OBVIOUS
        <5>6. v6' \in [Orders!Folders -> SUBSET Orders!Snapshots]
          OBVIOUS
        <5>7. v7' \in [Orders!Folders -> Hosts \cup {Orders!Nobody}]
          OBVIOUS
        <5> QED
          BY <5>1, <5>2, <5>3, <5>4, <5>5, <5>6, <5>7
      <4>2. Orders!WindowsOK'
        <5> USE DEF Orders!CallsAreRetained, Orders!Creating, Orders!Locked
        <5>1. v8' \in [Hosts -> {"idle", "creating", "staged", "published", "saving",
                     "locked", "renamed", "kept", "switched", "failed", "reloading"}]
          OBVIOUS
        <5>2. v9' \in [Hosts -> 0 .. MaxFolder]
          OBVIOUS
        <5>3. v10' \in [Hosts -> Orders!Snapshots]
          OBVIOUS
        <5>4. v11' \in [Hosts -> 0 .. MaxOperation]
          OBVIOUS
        <5>5. v12' \in [Hosts -> Orders!Snapshots]
          OBVIOUS
        <5>6. v13' \in 0 .. MaxOperation
          OBVIOUS
        <5> QED
          BY <5>1, <5>2, <5>3, <5>4, <5>5, <5>6
      <4>3. v14' \subseteq Orders!Operations /\ v15' \subseteq Orders!Operations
        BY DEF Orders!CallsAreRetained, Orders!Creating, Orders!Locked
      <4>4. v16' \in Nat /\ v17' \in Nat
        OBVIOUS
      <4> QED
        BY <4>1, <4>2, <4>3, <4>4
    <3>2. Orders!CallsAreRetained'
      BY DEF Orders!CallsAreRetained, Orders!Creating, Orders!Locked
    <3>3. Orders!LockIsHeld'
      BY DEF Orders!LockIsHeld, Orders!CallsAreRetained, Orders!Creating, Orders!Locked
    <3>4. Orders!HistoriesGrow'
      BY DEF Orders!HistoriesGrow, Orders!CallsAreRetained, Orders!Creating, Orders!Locked,
         Orders!CandidatesAreNext
    <3>5. Orders!CandidatesAreNext'
      BY DEF Orders!CandidatesAreNext, Orders!CallsAreRetained, Orders!Creating,
         Orders!Locked, Orders!LockIsHeld, Orders!HistoriesGrow, Orders!Applied,
         Orders!Candidate
    <3>6. Orders!OperationsAreOwn'
      BY DEF Orders!OperationsAreOwn, Orders!CallsAreRetained, Orders!Creating,
         Orders!Locked, Orders!HistoriesGrow, Orders!CandidatesAreNext
    <3>7. Orders!OrdersAreKept'
      <4> USE DEF Orders!CallsAreRetained, Orders!Creating, Orders!Locked,
            Orders!HistoriesGrow, Orders!CandidatesAreNext, Orders!OperationsAreOwn,
            Orders!OrdersAreKept
      <4>1. Orders!CurrentIsWhole'
        BY DEF Orders!CurrentIsWhole
      <4>2. Orders!ReportedIsKept'
        BY DEF Orders!ReportedIsKept
      <4>3. Orders!RefusedIsNotSaved'
        BY DEF Orders!RefusedIsNotSaved
      <4>4. Orders!AppliedOnce'
        BY DEF Orders!AppliedOnce
      <4>5. Orders!ViewsAgree'
        BY DEF Orders!ViewsAgree
      <4> QED
        BY <4>1, <4>2, <4>3, <4>4, <4>5
    <3> QED
      BY <3>1, <3>2, <3>3, <3>4, <3>5, <3>6, <3>7
  <2> QED
    BY <1>15, <2>2, <2>3, <2>4 DEF Orders!Acquire, Orders!SameDirectory, Orders!Here
<1>16. ASSUME NEW w \in Hosts, Orders!AnswerApplied(w) PROVE Orders!IInv'
  <2> USE <1>16 DEF Orders!AnswerApplied, Orders!Shows, Orders!Goes, Orders!Releases,
        Orders!FoldersOK, Orders!TypeOK, Orders!WindowsOK
  <2>1. Orders!TypeOK'
    <3>1. Orders!FoldersOK'
      <4> USE DEF Orders!CallsAreRetained, Orders!Creating, Orders!Locked
      <4>1. v1' \in [Orders!Folders -> {"nowhere", "chosen", "away"}]
        OBVIOUS
      <4>2. v2' \in [Orders!Folders -> SUBSET {"nowhere", "chosen", "away"}]
        OBVIOUS
      <4>3. v3' \in [Orders!Folders -> SUBSET Orders!Snapshots]
        OBVIOUS
      <4>4. v4' \in [Orders!Folders -> SUBSET Orders!Snapshots]
        OBVIOUS
      <4>5. v5' \in [Orders!Folders -> Orders!Snapshots]
        OBVIOUS
      <4>6. v6' \in [Orders!Folders -> SUBSET Orders!Snapshots]
        OBVIOUS
      <4>7. v7' \in [Orders!Folders -> Hosts \cup {Orders!Nobody}]
        OBVIOUS
      <4> QED
        BY <4>1, <4>2, <4>3, <4>4, <4>5, <4>6, <4>7
    <3>2. Orders!WindowsOK'
      <4> USE DEF Orders!CallsAreRetained, Orders!Creating, Orders!Locked
      <4>1. v8' \in [Hosts -> {"idle", "creating", "staged", "published", "saving",
                     "locked", "renamed", "kept", "switched", "failed", "reloading"}]
        OBVIOUS
      <4>2. v9' \in [Hosts -> 0 .. MaxFolder]
        OBVIOUS
      <4>3. v10' \in [Hosts -> Orders!Snapshots]
        OBVIOUS
      <4>4. v11' \in [Hosts -> 0 .. MaxOperation]
        OBVIOUS
      <4>5. v12' \in [Hosts -> Orders!Snapshots]
        OBVIOUS
      <4>6. v13' \in 0 .. MaxOperation
        OBVIOUS
      <4> QED
        BY <4>1, <4>2, <4>3, <4>4, <4>5, <4>6
    <3>3. v14' \subseteq Orders!Operations /\ v15' \subseteq Orders!Operations
      BY DEF Orders!CallsAreRetained, Orders!Creating, Orders!Locked
    <3>4. v16' \in Nat /\ v17' \in Nat
      OBVIOUS
    <3> QED
      BY <3>1, <3>2, <3>3, <3>4
  <2>2. Orders!CallsAreRetained'
    BY DEF Orders!CallsAreRetained, Orders!Creating, Orders!Locked
  <2>3. Orders!LockIsHeld'
    BY DEF Orders!LockIsHeld, Orders!CallsAreRetained, Orders!Creating, Orders!Locked
  <2>4. Orders!HistoriesGrow'
    BY DEF Orders!HistoriesGrow, Orders!CallsAreRetained, Orders!Creating, Orders!Locked,
       Orders!CandidatesAreNext
  <2>5. Orders!CandidatesAreNext'
    BY DEF Orders!CandidatesAreNext, Orders!CallsAreRetained, Orders!Creating,
       Orders!Locked, Orders!LockIsHeld, Orders!HistoriesGrow, Orders!Applied,
       Orders!Candidate
  <2>6. Orders!OperationsAreOwn'
    BY DEF Orders!OperationsAreOwn, Orders!CallsAreRetained, Orders!Creating, Orders!Locked,
       Orders!HistoriesGrow, Orders!CandidatesAreNext
  <2>7. Orders!OrdersAreKept'
    <3> USE DEF Orders!CallsAreRetained, Orders!Creating, Orders!Locked,
          Orders!HistoriesGrow, Orders!CandidatesAreNext, Orders!OperationsAreOwn,
          Orders!OrdersAreKept
    <3>1. Orders!CurrentIsWhole'
      BY DEF Orders!CurrentIsWhole
    <3>2. Orders!ReportedIsKept'
      BY DEF Orders!ReportedIsKept
    <3>3. Orders!RefusedIsNotSaved'
      BY DEF Orders!RefusedIsNotSaved
    <3>4. Orders!AppliedOnce'
      BY DEF Orders!AppliedOnce
    <3>5. Orders!ViewsAgree'
      BY DEF Orders!ViewsAgree
    <3> QED
      BY <3>1, <3>2, <3>3, <3>4, <3>5
  <2> QED
    BY <2>1, <2>2, <2>3, <2>4, <2>5, <2>6, <2>7
<1>17. ASSUME NEW w \in Hosts, Orders!Conflict(w) PROVE Orders!IInv'
  <2>1. Orders!TypeOK'
    <3>1. Orders!FoldersOK'
      BY <1>17 DEF Orders!Conflict, Orders!Applied, Orders!Extends, Orders!Rejected,
         Orders!Goes, Orders!Releases, Orders!FoldersOK, Orders!TypeOK, Orders!WindowsOK
    <3>2. Orders!WindowsOK'
      BY <1>17 DEF Orders!Conflict, Orders!Applied, Orders!Extends, Orders!Rejected,
         Orders!Goes, Orders!Releases, Orders!WindowsOK, Orders!TypeOK, Orders!FoldersOK
    <3>3. v14' \subseteq Orders!Operations /\ v15' \subseteq Orders!Operations
      <4>1. v11[w] \in Orders!Operations
        BY <1>17 DEF Orders!Conflict, Orders!CallsAreRetained, Orders!Creating,
           Orders!Locked, Orders!TypeOK, Orders!WindowsOK
      <4> QED
        BY <1>17, <4>1 DEF Orders!Conflict, Orders!TypeOK
    <3>4. v16' \in Nat /\ v17' \in Nat
      BY <1>17 DEF Orders!Conflict, Orders!Applied, Orders!Extends, Orders!Rejected,
         Orders!Goes, Orders!Releases, Orders!TypeOK, Orders!FoldersOK, Orders!WindowsOK
    <3> QED
      BY <3>1, <3>2, <3>3, <3>4 DEF Orders!TypeOK, Orders!FoldersOK, Orders!WindowsOK
  <2>2. Orders!CallsAreRetained'
    BY <1>17 DEF Orders!Conflict, Orders!Applied, Orders!Extends, Orders!Rejected,
       Orders!Goes, Orders!Releases, Orders!CallsAreRetained, Orders!TypeOK,
       Orders!FoldersOK, Orders!WindowsOK, Orders!Creating, Orders!Locked
  <2>3. Orders!LockIsHeld'
    BY <1>17 DEF Orders!Conflict, Orders!Applied, Orders!Extends, Orders!Rejected,
       Orders!Goes, Orders!Releases, Orders!LockIsHeld, Orders!TypeOK, Orders!FoldersOK,
       Orders!WindowsOK, Orders!CallsAreRetained, Orders!Creating, Orders!Locked
  <2>4. Orders!HistoriesGrow'
    BY <1>17 DEF Orders!Conflict, Orders!Applied, Orders!Extends, Orders!Rejected,
       Orders!Goes, Orders!Releases, Orders!HistoriesGrow, Orders!TypeOK, Orders!FoldersOK,
       Orders!WindowsOK, Orders!CallsAreRetained, Orders!Creating, Orders!Locked,
       Orders!CandidatesAreNext
  <2>5. Orders!CandidatesAreNext'
    BY <1>17 DEF Orders!Conflict, Orders!Applied, Orders!Extends, Orders!Rejected,
       Orders!Goes, Orders!Releases, Orders!CandidatesAreNext, Orders!TypeOK,
       Orders!FoldersOK, Orders!WindowsOK, Orders!CallsAreRetained, Orders!Creating,
       Orders!Locked, Orders!LockIsHeld, Orders!HistoriesGrow, Orders!Candidate
  <2>6. Orders!OperationsAreOwn'
    BY <1>17 DEF Orders!Conflict, Orders!Applied, Orders!Extends, Orders!Rejected,
       Orders!Goes, Orders!Releases, Orders!OperationsAreOwn, Orders!TypeOK,
       Orders!FoldersOK, Orders!WindowsOK, Orders!CallsAreRetained, Orders!Creating,
       Orders!Locked, Orders!HistoriesGrow, Orders!CandidatesAreNext
  <2>7. Orders!OrdersAreKept'
    <3> USE <1>17 DEF Orders!Conflict, Orders!Applied, Orders!Extends, Orders!Rejected,
          Orders!Goes, Orders!Releases, Orders!TypeOK, Orders!FoldersOK, Orders!WindowsOK,
          Orders!CallsAreRetained, Orders!Creating, Orders!Locked, Orders!HistoriesGrow,
          Orders!CandidatesAreNext, Orders!OperationsAreOwn, Orders!OrdersAreKept
    <3>1. Orders!CurrentIsWhole'
      BY DEF Orders!CurrentIsWhole
    <3>2. Orders!ReportedIsKept'
      BY DEF Orders!ReportedIsKept
    <3>3. Orders!RefusedIsNotSaved'
      BY DEF Orders!RefusedIsNotSaved
    <3>4. Orders!AppliedOnce'
      BY DEF Orders!AppliedOnce
    <3>5. Orders!ViewsAgree'
      BY DEF Orders!ViewsAgree
    <3> QED
      BY <3>1, <3>2, <3>3, <3>4, <3>5
  <2> QED
    BY <2>1, <2>2, <2>3, <2>4, <2>5, <2>6, <2>7
<1>18. ASSUME NEW w \in Hosts, Orders!Reload(w) PROVE Orders!IInv'
  <2> USE <1>18 DEF Orders!Reload, Orders!SameDirectory, Orders!Here, Orders!Goes,
        Orders!FoldersOK, Orders!TypeOK, Orders!WindowsOK
  <2>1. Orders!TypeOK'
    <3>1. Orders!FoldersOK'
      OBVIOUS
    <3>2. Orders!WindowsOK'
      OBVIOUS
    <3> QED
      BY <3>1, <3>2
  <2>2. Orders!CallsAreRetained'
    BY DEF Orders!CallsAreRetained, Orders!Creating, Orders!Locked
  <2>3. Orders!LockIsHeld'
    BY DEF Orders!LockIsHeld, Orders!CallsAreRetained, Orders!Creating, Orders!Locked
  <2>4. Orders!HistoriesGrow'
    BY DEF Orders!HistoriesGrow, Orders!CallsAreRetained, Orders!Creating, Orders!Locked,
       Orders!CandidatesAreNext
  <2>5. Orders!CandidatesAreNext'
    BY DEF Orders!CandidatesAreNext, Orders!CallsAreRetained, Orders!Creating,
       Orders!Locked, Orders!LockIsHeld, Orders!HistoriesGrow, Orders!Applied,
       Orders!Candidate
  <2>6. Orders!OperationsAreOwn'
    BY DEF Orders!OperationsAreOwn, Orders!CallsAreRetained, Orders!Creating, Orders!Locked,
       Orders!HistoriesGrow, Orders!CandidatesAreNext
  <2>7. Orders!OrdersAreKept'
    <3> USE DEF Orders!CallsAreRetained, Orders!Creating, Orders!Locked,
          Orders!HistoriesGrow, Orders!CandidatesAreNext, Orders!OperationsAreOwn,
          Orders!OrdersAreKept
    <3>1. Orders!CurrentIsWhole'
      BY DEF Orders!CurrentIsWhole
    <3>2. Orders!ReportedIsKept'
      BY DEF Orders!ReportedIsKept
    <3>3. Orders!RefusedIsNotSaved'
      BY DEF Orders!RefusedIsNotSaved
    <3>4. Orders!AppliedOnce'
      BY DEF Orders!AppliedOnce
    <3>5. Orders!ViewsAgree'
      BY DEF Orders!ViewsAgree
    <3> QED
      BY <3>1, <3>2, <3>3, <3>4, <3>5
  <2> QED
    BY <2>1, <2>2, <2>3, <2>4, <2>5, <2>6, <2>7
<1>19. ASSUME NEW w \in Hosts, Orders!PublishSnapshot(w) PROVE Orders!IInv'
  <2>1. v8[w] = "locked" /\ v9[w] \in Orders!Folders /\ v11[w] \in Orders!Operations
    BY <1>19 DEF Orders!PublishSnapshot, Orders!Candidate, Orders!Applied, Orders!Extends,
       Orders!Rejected, Orders!Goes, Orders!Releases, Orders!CallsAreRetained,
       Orders!Creating, Orders!Locked, Orders!TypeOK, Orders!FoldersOK, Orders!WindowsOK
  <2>2. v5[v9[w]] \in Orders!Snapshots /\ v12[w] \in Orders!Snapshots
    BY <1>19, <2>1 DEF Orders!PublishSnapshot, Orders!Candidate, Orders!Applied,
       Orders!Extends, Orders!Rejected, Orders!Goes, Orders!Releases,
       Orders!CallsAreRetained, Orders!Creating, Orders!Locked, Orders!TypeOK,
       Orders!FoldersOK, Orders!WindowsOK
  <2>3. v11[w] \notin Orders!Receipts(v5[v9[w]])
    BY <1>19 DEF Orders!PublishSnapshot, Orders!Candidate, Orders!Applied, Orders!Extends,
       Orders!Rejected, Orders!Goes, Orders!Releases
  <2>4. v5[v9[w]] = v12[w]
    BY <1>19, <2>1, <2>2, NextSnapshot DEF Orders!PublishSnapshot, Orders!Candidate,
       Orders!Applied, Orders!Extends, Orders!Rejected, Orders!Goes, Orders!Releases
  <2>5. UNCHANGED <<v1, v2, v4, v5, v6, v13, v14, v15, v16, v17>>
    BY <1>19 DEF Orders!PublishSnapshot, Orders!Candidate, Orders!Applied, Orders!Extends,
       Orders!Rejected, Orders!Goes, Orders!Releases
  <2>6. ASSUME NEW c \in Orders!Snapshots, NEW d \in SUBSET Orders!Snapshots,
             /\ c = Append(v12[w], v11[w])
             /\ d = v3[v9[w]] \cup {c}
             /\ v3' = [v3 EXCEPT ![v9[w]] = d]
             /\ Orders!Goes(w, "renamed") /\ UNCHANGED <<v7, v9, v10, v11, v12>>
      PROVE  Orders!IInv'
    <3> USE <2>1, <2>2, <2>3, <2>4, <2>5, <2>6 DEF Orders!Goes, Orders!Rejected,
          Orders!Releases, Orders!FoldersOK, Orders!TypeOK, Orders!WindowsOK
    <3>1. Orders!TypeOK'
      <4>1. Orders!FoldersOK'
        <5> USE DEF Orders!CallsAreRetained, Orders!Creating, Orders!Locked
        <5>1. v1' \in [Orders!Folders -> {"nowhere", "chosen", "away"}]
          OBVIOUS
        <5>2. v2' \in [Orders!Folders -> SUBSET {"nowhere", "chosen", "away"}]
          OBVIOUS
        <5>3. v3' \in [Orders!Folders -> SUBSET Orders!Snapshots]
          OBVIOUS
        <5>4. v4' \in [Orders!Folders -> SUBSET Orders!Snapshots]
          OBVIOUS
        <5>5. v5' \in [Orders!Folders -> Orders!Snapshots]
          OBVIOUS
        <5>6. v6' \in [Orders!Folders -> SUBSET Orders!Snapshots]
          OBVIOUS
        <5>7. v7' \in [Orders!Folders -> Hosts \cup {Orders!Nobody}]
          OBVIOUS
        <5> QED
          BY <5>1, <5>2, <5>3, <5>4, <5>5, <5>6, <5>7
      <4>2. Orders!WindowsOK'
        <5> USE DEF Orders!CallsAreRetained, Orders!Creating, Orders!Locked
        <5>1. v8' \in [Hosts -> {"idle", "creating", "staged", "published", "saving",
                     "locked", "renamed", "kept", "switched", "failed", "reloading"}]
          OBVIOUS
        <5>2. v9' \in [Hosts -> 0 .. MaxFolder]
          OBVIOUS
        <5>3. v10' \in [Hosts -> Orders!Snapshots]
          OBVIOUS
        <5>4. v11' \in [Hosts -> 0 .. MaxOperation]
          OBVIOUS
        <5>5. v12' \in [Hosts -> Orders!Snapshots]
          OBVIOUS
        <5>6. v13' \in 0 .. MaxOperation
          OBVIOUS
        <5> QED
          BY <5>1, <5>2, <5>3, <5>4, <5>5, <5>6
      <4>3. v14' \subseteq Orders!Operations /\ v15' \subseteq Orders!Operations
        BY DEF Orders!CallsAreRetained, Orders!Creating, Orders!Locked
      <4>4. v16' \in Nat /\ v17' \in Nat
        OBVIOUS
      <4> QED
        BY <4>1, <4>2, <4>3, <4>4
    <3>2. Orders!CallsAreRetained'
      BY DEF Orders!CallsAreRetained, Orders!Creating, Orders!Locked
    <3>3. Orders!LockIsHeld'
      BY DEF Orders!LockIsHeld, Orders!CallsAreRetained, Orders!Creating, Orders!Locked
    <3>4. Orders!HistoriesGrow'
      BY DEF Orders!HistoriesGrow, Orders!CallsAreRetained, Orders!Creating, Orders!Locked,
         Orders!CandidatesAreNext
    <3>5. Orders!CandidatesAreNext'
      BY DEF Orders!CandidatesAreNext, Orders!CallsAreRetained, Orders!Creating,
         Orders!Locked, Orders!LockIsHeld, Orders!HistoriesGrow, Orders!Applied,
         Orders!Candidate
    <3>6. Orders!OperationsAreOwn'
      BY DEF Orders!OperationsAreOwn, Orders!CallsAreRetained, Orders!Creating,
         Orders!Locked, Orders!HistoriesGrow, Orders!CandidatesAreNext
    <3>7. Orders!OrdersAreKept'
      <4> USE DEF Orders!CallsAreRetained, Orders!Creating, Orders!Locked,
            Orders!HistoriesGrow, Orders!CandidatesAreNext, Orders!OperationsAreOwn,
            Orders!OrdersAreKept
      <4>1. Orders!CurrentIsWhole'
        BY DEF Orders!CurrentIsWhole
      <4>2. Orders!ReportedIsKept'
        BY DEF Orders!ReportedIsKept
      <4>3. Orders!RefusedIsNotSaved'
        BY DEF Orders!RefusedIsNotSaved
      <4>4. Orders!AppliedOnce'
        BY DEF Orders!AppliedOnce
      <4>5. Orders!ViewsAgree'
        BY DEF Orders!ViewsAgree
      <4> QED
        BY <4>1, <4>2, <4>3, <4>4, <4>5
    <3> QED
      BY <3>1, <3>2, <3>3, <3>4, <3>5, <3>6, <3>7
  <2>7. CASE Orders!Rejected(w, "idle") /\ v3' = v3
    <3> USE <2>1, <2>2, <2>3, <2>4, <2>5, <2>7 DEF Orders!Goes, Orders!Rejected,
          Orders!Releases, Orders!FoldersOK, Orders!TypeOK, Orders!WindowsOK
    <3>1. Orders!TypeOK'
      <4>1. Orders!FoldersOK'
        <5> USE DEF Orders!CallsAreRetained, Orders!Creating, Orders!Locked
        <5>1. v1' \in [Orders!Folders -> {"nowhere", "chosen", "away"}]
          OBVIOUS
        <5>2. v2' \in [Orders!Folders -> SUBSET {"nowhere", "chosen", "away"}]
          OBVIOUS
        <5>3. v3' \in [Orders!Folders -> SUBSET Orders!Snapshots]
          OBVIOUS
        <5>4. v4' \in [Orders!Folders -> SUBSET Orders!Snapshots]
          OBVIOUS
        <5>5. v5' \in [Orders!Folders -> Orders!Snapshots]
          OBVIOUS
        <5>6. v6' \in [Orders!Folders -> SUBSET Orders!Snapshots]
          OBVIOUS
        <5>7. v7' \in [Orders!Folders -> Hosts \cup {Orders!Nobody}]
          OBVIOUS
        <5> QED
          BY <5>1, <5>2, <5>3, <5>4, <5>5, <5>6, <5>7
      <4>2. Orders!WindowsOK'
        <5> USE DEF Orders!CallsAreRetained, Orders!Creating, Orders!Locked
        <5>1. v8' \in [Hosts -> {"idle", "creating", "staged", "published", "saving",
                     "locked", "renamed", "kept", "switched", "failed", "reloading"}]
          OBVIOUS
        <5>2. v9' \in [Hosts -> 0 .. MaxFolder]
          OBVIOUS
        <5>3. v10' \in [Hosts -> Orders!Snapshots]
          OBVIOUS
        <5>4. v11' \in [Hosts -> 0 .. MaxOperation]
          OBVIOUS
        <5>5. v12' \in [Hosts -> Orders!Snapshots]
          OBVIOUS
        <5>6. v13' \in 0 .. MaxOperation
          OBVIOUS
        <5> QED
          BY <5>1, <5>2, <5>3, <5>4, <5>5, <5>6
      <4>3. v14' \subseteq Orders!Operations /\ v15' \subseteq Orders!Operations
        BY DEF Orders!CallsAreRetained, Orders!Creating, Orders!Locked
      <4>4. v16' \in Nat /\ v17' \in Nat
        OBVIOUS
      <4> QED
        BY <4>1, <4>2, <4>3, <4>4
    <3>2. Orders!CallsAreRetained'
      BY DEF Orders!CallsAreRetained, Orders!Creating, Orders!Locked
    <3>3. Orders!LockIsHeld'
      BY DEF Orders!LockIsHeld, Orders!CallsAreRetained, Orders!Creating, Orders!Locked
    <3>4. Orders!HistoriesGrow'
      BY DEF Orders!HistoriesGrow, Orders!CallsAreRetained, Orders!Creating, Orders!Locked,
         Orders!CandidatesAreNext
    <3>5. Orders!CandidatesAreNext'
      BY DEF Orders!CandidatesAreNext, Orders!CallsAreRetained, Orders!Creating,
         Orders!Locked, Orders!LockIsHeld, Orders!HistoriesGrow, Orders!Applied,
         Orders!Candidate
    <3>6. Orders!OperationsAreOwn'
      BY DEF Orders!OperationsAreOwn, Orders!CallsAreRetained, Orders!Creating,
         Orders!Locked, Orders!HistoriesGrow, Orders!CandidatesAreNext
    <3>7. Orders!OrdersAreKept'
      <4> USE DEF Orders!CallsAreRetained, Orders!Creating, Orders!Locked,
            Orders!HistoriesGrow, Orders!CandidatesAreNext, Orders!OperationsAreOwn,
            Orders!OrdersAreKept
      <4>1. Orders!CurrentIsWhole'
        BY DEF Orders!CurrentIsWhole
      <4>2. Orders!ReportedIsKept'
        BY DEF Orders!ReportedIsKept
      <4>3. Orders!RefusedIsNotSaved'
        BY DEF Orders!RefusedIsNotSaved
      <4>4. Orders!AppliedOnce'
        BY DEF Orders!AppliedOnce
      <4>5. Orders!ViewsAgree'
        BY DEF Orders!ViewsAgree
      <4> QED
        BY <4>1, <4>2, <4>3, <4>4, <4>5
    <3> QED
      BY <3>1, <3>2, <3>3, <3>4, <3>5, <3>6, <3>7
  <2> QED
    <3>1. Append(v12[w], v11[w]) \in Orders!Snapshots
      BY <2>1, <2>2, NextSnapshot
    <3>2. v3[v9[w]] \cup {Append(v12[w], v11[w])} \in SUBSET Orders!Snapshots
      BY <2>1, <3>1 DEF Orders!TypeOK, Orders!FoldersOK
    <3> QED
      BY ZenonT(40), <1>19, <3>1, <3>2, <2>6, <2>7 DEF Orders!PublishSnapshot, Orders!Candidate
<1>20. ASSUME NEW w \in Hosts, Orders!SyncSnapshots(w) PROVE Orders!IInv'
  <2> USE <1>20 DEF Orders!SyncSnapshots, Orders!Goes, Orders!FoldersOK, Orders!TypeOK,
        Orders!WindowsOK
  <2>1. Orders!TypeOK'
    <3>1. Orders!FoldersOK'
      OBVIOUS
    <3>2. Orders!WindowsOK'
      OBVIOUS
    <3> QED
      BY <3>1, <3>2
  <2>2. Orders!CallsAreRetained'
    BY DEF Orders!CallsAreRetained, Orders!Creating, Orders!Locked
  <2>3. Orders!LockIsHeld'
    BY DEF Orders!LockIsHeld, Orders!CallsAreRetained, Orders!Creating, Orders!Locked
  <2>4. Orders!HistoriesGrow'
    BY DEF Orders!HistoriesGrow, Orders!CallsAreRetained, Orders!Creating, Orders!Locked,
       Orders!CandidatesAreNext
  <2>5. Orders!CandidatesAreNext'
    BY DEF Orders!CandidatesAreNext, Orders!CallsAreRetained, Orders!Creating,
       Orders!Locked, Orders!LockIsHeld, Orders!HistoriesGrow, Orders!Applied,
       Orders!Candidate
  <2>6. Orders!OperationsAreOwn'
    BY DEF Orders!OperationsAreOwn, Orders!CallsAreRetained, Orders!Creating, Orders!Locked,
       Orders!HistoriesGrow, Orders!CandidatesAreNext
  <2>7. Orders!OrdersAreKept'
    <3> USE DEF Orders!CallsAreRetained, Orders!Creating, Orders!Locked,
          Orders!HistoriesGrow, Orders!CandidatesAreNext, Orders!OperationsAreOwn,
          Orders!OrdersAreKept
    <3>1. Orders!CurrentIsWhole'
      BY DEF Orders!CurrentIsWhole
    <3>2. Orders!ReportedIsKept'
      BY DEF Orders!ReportedIsKept
    <3>3. Orders!RefusedIsNotSaved'
      BY DEF Orders!RefusedIsNotSaved
    <3>4. Orders!AppliedOnce'
      BY DEF Orders!AppliedOnce
    <3>5. Orders!ViewsAgree'
      BY DEF Orders!ViewsAgree
    <3> QED
      BY <3>1, <3>2, <3>3, <3>4, <3>5
  <2> QED
    BY <2>1, <2>2, <2>3, <2>4, <2>5, <2>6, <2>7
<1>21. ASSUME NEW w \in Hosts, Orders!SwitchCurrent(w) PROVE Orders!IInv'
  <2>1. v8[w] = "kept" /\ v9[w] \in Orders!Folders /\ v11[w] \in Orders!Operations
    BY <1>21 DEF Orders!SwitchCurrent, Orders!Candidate, Orders!Goes,
       Orders!CallsAreRetained, Orders!Creating, Orders!Locked, Orders!TypeOK,
       Orders!FoldersOK, Orders!WindowsOK
  <2>2. v5[v9[w]] \in Orders!Snapshots /\ v12[w] \in Orders!Snapshots
    BY <1>21, <2>1 DEF Orders!SwitchCurrent, Orders!Candidate, Orders!Goes,
       Orders!CallsAreRetained, Orders!Creating, Orders!Locked, Orders!TypeOK,
       Orders!FoldersOK, Orders!WindowsOK
  <2>3. v5[v9[w]] = v12[w] /\ v11[w] \notin Orders!Receipts(v5[v9[w]])
    BY <1>21, <2>1 DEF Orders!SwitchCurrent, Orders!Candidate, Orders!Goes,
       Orders!CandidatesAreNext, Orders!Applied
  <2>4. Append(v12[w], v11[w]) \in v4[v9[w]]
    BY <1>21, <2>1 DEF Orders!SwitchCurrent, Orders!Candidate, Orders!Goes,
       Orders!CandidatesAreNext
  <2>5. \A x \in Hosts \ {w} : v8[x] \in {"locked", "renamed", "kept", "switched"} => v9[x] # v9[w]
    BY <1>21, <2>1 DEF Orders!SwitchCurrent, Orders!Candidate, Orders!Goes,
       Orders!LockIsHeld, Orders!Locked
  <2>6. Orders!Goes(w, "switched") /\ UNCHANGED <<v1, v2, v3, v4, v7, v9, v10, v11, v12, v13, v14, v15, v16, v17>>
    BY <1>21 DEF Orders!SwitchCurrent, Orders!Candidate, Orders!Goes
  <2>7. ASSUME NEW c \in Orders!Snapshots, NEW d \in SUBSET Orders!Snapshots,
             /\ c = Append(v12[w], v11[w]) /\ c # Orders!Blank
             /\ Orders!IsPrefix(v5[v9[w]], c)
             /\ Orders!Receipts(c) = Orders!Receipts(v5[v9[w]]) \cup {v11[w]}
             /\ Orders!IsInjective(v5[v9[w]]) => Orders!IsInjective(c)
             /\ v5' = [v5 EXCEPT ![v9[w]] = c]
             /\ d = v6[v9[w]] \cup {c}
             /\ v6' = [v6 EXCEPT ![v9[w]] = d]
             /\ v5'[v9[w]] = c /\ v6'[v9[w]] = v6[v9[w]] \cup {c}
             /\ \A f \in Orders!Folders \ {v9[w]} : v5'[f] = v5[f] /\ v6'[f] = v6[f]
      PROVE  Orders!IInv'
    <3>1. Orders!TypeOK'
      <4> USE <2>1, <2>2, <2>3, <2>4, <2>5, <2>6, <2>7 DEF Orders!Goes, Orders!FoldersOK,
            Orders!TypeOK, Orders!WindowsOK
      <4>1. Orders!FoldersOK'
        <5> USE DEF Orders!CallsAreRetained, Orders!Creating, Orders!Locked
        <5>1. v1' \in [Orders!Folders -> {"nowhere", "chosen", "away"}]
          OBVIOUS
        <5>2. v2' \in [Orders!Folders -> SUBSET {"nowhere", "chosen", "away"}]
          OBVIOUS
        <5>3. v3' \in [Orders!Folders -> SUBSET Orders!Snapshots]
          OBVIOUS
        <5>4. v4' \in [Orders!Folders -> SUBSET Orders!Snapshots]
          OBVIOUS
        <5>5. v5' \in [Orders!Folders -> Orders!Snapshots]
          OBVIOUS
        <5>6. v6' \in [Orders!Folders -> SUBSET Orders!Snapshots]
          OBVIOUS
        <5>7. v7' \in [Orders!Folders -> Hosts \cup {Orders!Nobody}]
          OBVIOUS
        <5> QED
          BY <5>1, <5>2, <5>3, <5>4, <5>5, <5>6, <5>7
      <4>2. Orders!WindowsOK'
        <5> USE DEF Orders!CallsAreRetained, Orders!Creating, Orders!Locked
        <5>1. v8' \in [Hosts -> {"idle", "creating", "staged", "published", "saving",
                     "locked", "renamed", "kept", "switched", "failed", "reloading"}]
          OBVIOUS
        <5>2. v9' \in [Hosts -> 0 .. MaxFolder]
          OBVIOUS
        <5>3. v10' \in [Hosts -> Orders!Snapshots]
          OBVIOUS
        <5>4. v11' \in [Hosts -> 0 .. MaxOperation]
          OBVIOUS
        <5>5. v12' \in [Hosts -> Orders!Snapshots]
          OBVIOUS
        <5>6. v13' \in 0 .. MaxOperation
          OBVIOUS
        <5> QED
          BY <5>1, <5>2, <5>3, <5>4, <5>5, <5>6
      <4>3. v14' \subseteq Orders!Operations /\ v15' \subseteq Orders!Operations
        BY DEF Orders!CallsAreRetained, Orders!Creating, Orders!Locked
      <4>4. v16' \in Nat /\ v17' \in Nat
        OBVIOUS
      <4> QED
        BY <4>1, <4>2, <4>3, <4>4
    <3>2. Orders!CallsAreRetained'
      BY <2>1, <2>2, <2>3, <2>4, <2>5, <2>6, <2>7 DEF Orders!Goes, Orders!CallsAreRetained,
         Orders!TypeOK, Orders!FoldersOK, Orders!WindowsOK, Orders!Creating, Orders!Locked
    <3>3. Orders!LockIsHeld'
      BY <2>1, <2>2, <2>3, <2>4, <2>5, <2>6, <2>7 DEF Orders!Goes, Orders!LockIsHeld,
         Orders!TypeOK, Orders!FoldersOK, Orders!WindowsOK, Orders!CallsAreRetained,
         Orders!Creating, Orders!Locked
    <3>4. Orders!HistoriesGrow'
      <4>1. ASSUME NEW f \in Orders!Folders
            PROVE  /\ v5'[f] \in v6'[f] /\ v4'[f] \subseteq v3'[f] /\ v1'[f] \in v2'[f]
                   /\ v5'[f] = Orders!Blank => v2'[f] = {"nowhere"}
                   /\ \A s \in v6'[f] :
                        Orders!IsPrefix(s, v5'[f]) /\ (s = Orders!Blank => v5'[f] = Orders!Blank)
        <5>1. CASE f = v9[w]
          <6>1. v5[f] # Orders!Blank
            BY <2>1, <2>3, <5>1 DEF Orders!CallsAreRetained, Orders!Creating, Orders!Locked
          <6>2. \A s \in v6[f] : Orders!IsPrefix(s, c) /\ s # Orders!Blank
            BY <2>7, <5>1, <6>1 DEF Orders!HistoriesGrow, Orders!TypeOK, Orders!FoldersOK
          <6>3. /\ v5'[f] = c /\ v6'[f] = v6[f] \cup {c} /\ c # Orders!Blank
                /\ Orders!IsPrefix(c, c)
            BY <2>7, <5>1
          <6>4. v4'[f] \subseteq v3'[f] /\ v1'[f] \in v2'[f]
            BY <2>6 DEF Orders!HistoriesGrow
          <6> QED
            BY <6>2, <6>3, <6>4
        <5>2. CASE f # v9[w]
          BY <2>6, <2>7, <5>2 DEF Orders!HistoriesGrow
        <5> QED
          BY <5>1, <5>2
      <4> QED
        BY <4>1 DEF Orders!HistoriesGrow
    <3>5. Orders!CandidatesAreNext'
      <4>1. ASSUME NEW x \in Hosts
            PROVE  /\ v8'[x] \in {"renamed", "kept"} =>
                        /\ v5'[v9[x]] = v12[x] /\ v11[x] \notin Orders!Receipts(v5'[v9[x]])
                        /\ Append(v12[x], v11[x]) \in v3[v9[x]]
                   /\ v8'[x] = "kept" => Append(v12[x], v11[x]) \in v4[v9[x]]
                   /\ v8'[x] = "switched" => v5'[v9[x]] = Append(v12[x], v11[x])
                   /\ v8'[x] = "published" => \A s \in v6'[v9[x]] : v11[x] \in Orders!Receipts(s)
        <5>1. CASE x = w
          BY <2>6, <2>7, <5>1 DEF Orders!Goes, Orders!TypeOK, Orders!WindowsOK
        <5>2. CASE x # w
          <6>1. v8'[x] = v8[x]
            BY <2>6, <5>2 DEF Orders!Goes, Orders!TypeOK, Orders!WindowsOK
          <6>2. v8[x] \in {"renamed", "kept", "switched"} => v5'[v9[x]] = v5[v9[x]]
            BY <2>5, <2>7, <5>2 DEF Orders!CallsAreRetained, Orders!Creating, Orders!Locked,
               Orders!TypeOK, Orders!WindowsOK
          <6>3. ASSUME v8[x] = "published", NEW s \in v6'[v9[x]] PROVE v11[x] \in Orders!Receipts(s)
            <7>1. \A t \in v6[v9[x]] : v11[x] \in Orders!Receipts(t)
              BY <6>3 DEF Orders!CandidatesAreNext
            <7>2. v9[x] \in Orders!Folders /\ v5[v9[x]] \in v6[v9[x]]
              BY <6>3 DEF Orders!CallsAreRetained, Orders!Creating, Orders!Locked,
                 Orders!TypeOK, Orders!WindowsOK, Orders!HistoriesGrow
            <7> QED
              BY <2>7, <6>3, <7>1, <7>2
          <6> QED
            BY <6>1, <6>2, <6>3 DEF Orders!CandidatesAreNext, Orders!Applied,
               Orders!Candidate
        <5> QED
          BY <5>1, <5>2
      <4> QED
        BY <2>6, <4>1 DEF Orders!CandidatesAreNext, Orders!Applied, Orders!Candidate
    <3>6. Orders!OperationsAreOwn'
      BY <2>1, <2>2, <2>3, <2>4, <2>5, <2>6, <2>7 DEF Orders!Goes, Orders!OperationsAreOwn,
         Orders!TypeOK, Orders!FoldersOK, Orders!WindowsOK, Orders!CallsAreRetained,
         Orders!Creating, Orders!Locked, Orders!HistoriesGrow, Orders!CandidatesAreNext
    <3>7. Orders!OrdersAreKept'
      <4>1. Orders!CurrentIsWhole'
        <5>1. ASSUME NEW f \in Orders!Folders PROVE v6'[f] \ {Orders!Blank} \subseteq v4[f]
          BY <2>4, <2>7, <5>1 DEF Orders!OrdersAreKept, Orders!CurrentIsWhole
        <5> QED
          BY <2>6, <5>1 DEF Orders!CurrentIsWhole
      <4>2. Orders!ReportedIsKept'
        <5>1. ASSUME NEW o \in v14, NEW f \in Orders!Folders, \A s \in v6[f] : o \in Orders!Receipts(s)
              PROVE  \A s \in v6'[f] : o \in Orders!Receipts(s)
          BY <2>7, <5>1 DEF Orders!HistoriesGrow
        <5> QED
          BY <2>6, <5>1 DEF Orders!OrdersAreKept, Orders!ReportedIsKept
      <4>3. Orders!RefusedIsNotSaved'
        <5>1. ASSUME NEW f \in Orders!Folders, NEW s \in v6'[f] PROVE v15 \cap Orders!Receipts(s) = {}
          <6>1. \A t \in v6[f] : v15 \cap Orders!Receipts(t) = {}
            BY DEF Orders!OrdersAreKept, Orders!RefusedIsNotSaved
          <6>2. CASE f # v9[w] \/ s # c
            BY <2>7, <5>1, <6>1, <6>2
          <6>3. CASE f = v9[w] /\ s = c
            <7>1. v15 \cap Orders!Receipts(v5[f]) = {} /\ v11[w] \notin v15
              BY <6>1 DEF Orders!HistoriesGrow, Orders!OperationsAreOwn
            <7> QED
              BY <2>7, <6>3, <7>1
          <6> QED
            BY <6>2, <6>3
        <5> QED
          BY <2>6, <5>1 DEF Orders!RefusedIsNotSaved
      <4>4. Orders!AppliedOnce'
        BY <2>1, <2>2, <2>3, <2>4, <2>5, <2>6, <2>7 DEF Orders!Goes, Orders!AppliedOnce,
           Orders!TypeOK, Orders!FoldersOK, Orders!WindowsOK, Orders!CallsAreRetained,
           Orders!Creating, Orders!Locked, Orders!HistoriesGrow, Orders!CandidatesAreNext,
           Orders!OperationsAreOwn, Orders!OrdersAreKept
      <4>5. Orders!ViewsAgree'
        BY <2>1, <2>2, <2>3, <2>4, <2>5, <2>6, <2>7 DEF Orders!Goes, Orders!ViewsAgree,
           Orders!TypeOK, Orders!FoldersOK, Orders!WindowsOK, Orders!CallsAreRetained,
           Orders!Creating, Orders!Locked, Orders!HistoriesGrow, Orders!CandidatesAreNext,
           Orders!OperationsAreOwn, Orders!OrdersAreKept
      <4> QED
        BY <4>1, <4>2, <4>3, <4>4, <4>5 DEF Orders!OrdersAreKept
    <3> QED
      BY <3>1, <3>2, <3>3, <3>4, <3>5, <3>6, <3>7
  <2> QED
    <3>1. /\ Append(v12[w], v11[w]) \in Orders!Snapshots
          /\ Append(v12[w], v11[w]) # Orders!Blank
          /\ Orders!IsPrefix(v5[v9[w]], Append(v12[w], v11[w]))
          /\ Orders!Receipts(Append(v12[w], v11[w])) = Orders!Receipts(v5[v9[w]]) \cup {v11[w]}
          /\ Orders!IsInjective(v5[v9[w]]) => Orders!IsInjective(Append(v12[w], v11[w]))
      BY <2>1, <2>2, <2>3, NextSnapshot
    <3>2. v6[v9[w]] \cup {Append(v12[w], v11[w])} \in SUBSET Orders!Snapshots
      BY <2>1, <3>1 DEF Orders!TypeOK, Orders!FoldersOK
    <3>3. PICK c \in Orders!Snapshots : c = Append(v12[w], v11[w])
      BY <3>1
    <3>4. PICK d \in SUBSET Orders!Snapshots : d = v6[v9[w]] \cup {c}
      BY <3>2, <3>3
    <3>5. v5' = [v5 EXCEPT ![v9[w]] = c] /\ v6' = [v6 EXCEPT ![v9[w]] = d]
      BY <1>21, <3>3, <3>4 DEF Orders!SwitchCurrent, Orders!Candidate
    <3>6. /\ v5'[v9[w]] = c /\ v6'[v9[w]] = v6[v9[w]] \cup {c}
          /\ \A f \in Orders!Folders \ {v9[w]} : v5'[f] = v5[f] /\ v6'[f] = v6[f]
      BY <2>1, <3>4, <3>5 DEF Orders!TypeOK, Orders!FoldersOK
    <3>7. /\ c # Orders!Blank /\ Orders!IsPrefix(v5[v9[w]], c)
          /\ Orders!Receipts(c) = Orders!Receipts(v5[v9[w]]) \cup {v11[w]}
          /\ Orders!IsInjective(v5[v9[w]]) => Orders!IsInjective(c)
      BY <3>1, <3>3
    <3> QED
      BY <2>7, <3>3, <3>4, <3>5, <3>6, <3>7
<1>22. ASSUME NEW w \in Hosts, Orders!SyncCurrent(w) PROVE Orders!IInv'
  <2>1. Orders!TypeOK'
    <3>1. Orders!FoldersOK'
      <4> USE <1>22 DEF Orders!SyncCurrent, Orders!Shows, Orders!Goes, Orders!Releases,
            Orders!FoldersOK, Orders!TypeOK, Orders!WindowsOK, Orders!CallsAreRetained,
            Orders!Creating, Orders!Locked
      <4>1. v1' \in [Orders!Folders -> {"nowhere", "chosen", "away"}]
        OBVIOUS
      <4>2. v2' \in [Orders!Folders -> SUBSET {"nowhere", "chosen", "away"}]
        OBVIOUS
      <4>3. v3' \in [Orders!Folders -> SUBSET Orders!Snapshots]
        OBVIOUS
      <4>4. v4' \in [Orders!Folders -> SUBSET Orders!Snapshots]
        OBVIOUS
      <4>5. v5' \in [Orders!Folders -> Orders!Snapshots]
        OBVIOUS
      <4>6. v6' \in [Orders!Folders -> SUBSET Orders!Snapshots]
        OBVIOUS
      <4>7. v7' \in [Orders!Folders -> Hosts \cup {Orders!Nobody}]
        OBVIOUS
      <4> QED
        BY <4>1, <4>2, <4>3, <4>4, <4>5, <4>6, <4>7
    <3>2. Orders!WindowsOK'
      <4> USE <1>22 DEF Orders!SyncCurrent, Orders!Shows, Orders!Goes, Orders!Releases,
            Orders!WindowsOK, Orders!TypeOK, Orders!FoldersOK, Orders!CallsAreRetained,
            Orders!Creating, Orders!Locked
      <4>1. v8' \in [Hosts -> {"idle", "creating", "staged", "published", "saving",
                     "locked", "renamed", "kept", "switched", "failed", "reloading"}]
        OBVIOUS
      <4>2. v9' \in [Hosts -> 0 .. MaxFolder]
        OBVIOUS
      <4>3. v10' \in [Hosts -> Orders!Snapshots]
        OBVIOUS
      <4>4. v11' \in [Hosts -> 0 .. MaxOperation]
        OBVIOUS
      <4>5. v12' \in [Hosts -> Orders!Snapshots]
        OBVIOUS
      <4>6. v13' \in 0 .. MaxOperation
        OBVIOUS
      <4> QED
        BY <4>1, <4>2, <4>3, <4>4, <4>5, <4>6
    <3>3. v14' \subseteq Orders!Operations /\ v15' \subseteq Orders!Operations
      <4>1. v11[w] \in Orders!Operations
        BY <1>22 DEF Orders!SyncCurrent, Orders!CallsAreRetained, Orders!Creating,
           Orders!Locked, Orders!TypeOK, Orders!WindowsOK
      <4> QED
        BY <1>22, <4>1 DEF Orders!SyncCurrent, Orders!TypeOK
    <3>4. v16' \in Nat /\ v17' \in Nat
      BY <1>22 DEF Orders!SyncCurrent, Orders!Shows, Orders!Goes, Orders!Releases,
         Orders!TypeOK, Orders!FoldersOK, Orders!WindowsOK
    <3> QED
      BY <3>1, <3>2, <3>3, <3>4 DEF Orders!TypeOK, Orders!FoldersOK, Orders!WindowsOK
  <2>2. Orders!CallsAreRetained'
    BY <1>22 DEF Orders!SyncCurrent, Orders!Shows, Orders!Goes, Orders!Releases,
       Orders!CallsAreRetained, Orders!TypeOK, Orders!FoldersOK, Orders!WindowsOK,
       Orders!Creating, Orders!Locked
  <2>3. Orders!LockIsHeld'
    BY <1>22 DEF Orders!SyncCurrent, Orders!Shows, Orders!Goes, Orders!Releases,
       Orders!LockIsHeld, Orders!TypeOK, Orders!FoldersOK, Orders!WindowsOK,
       Orders!CallsAreRetained, Orders!Creating, Orders!Locked
  <2>4. Orders!HistoriesGrow'
    BY <1>22 DEF Orders!SyncCurrent, Orders!Shows, Orders!Goes, Orders!Releases,
       Orders!HistoriesGrow, Orders!TypeOK, Orders!FoldersOK, Orders!WindowsOK,
       Orders!CallsAreRetained, Orders!Creating, Orders!Locked, Orders!CandidatesAreNext
  <2>5. Orders!CandidatesAreNext'
    BY <1>22 DEF Orders!SyncCurrent, Orders!Shows, Orders!Goes, Orders!Releases,
       Orders!CandidatesAreNext, Orders!TypeOK, Orders!FoldersOK, Orders!WindowsOK,
       Orders!CallsAreRetained, Orders!Creating, Orders!Locked, Orders!LockIsHeld,
       Orders!HistoriesGrow, Orders!Applied, Orders!Candidate
  <2>6. Orders!OperationsAreOwn'
    BY <1>22 DEF Orders!SyncCurrent, Orders!Shows, Orders!Goes, Orders!Releases,
       Orders!OperationsAreOwn, Orders!TypeOK, Orders!FoldersOK, Orders!WindowsOK,
       Orders!CallsAreRetained, Orders!Creating, Orders!Locked, Orders!HistoriesGrow,
       Orders!CandidatesAreNext
  <2>7. Orders!OrdersAreKept'
    <3>1. Orders!CurrentIsWhole'
      BY <1>22 DEF Orders!SyncCurrent, Orders!Shows, Orders!Goes, Orders!Releases,
         Orders!CurrentIsWhole, Orders!TypeOK, Orders!FoldersOK, Orders!WindowsOK,
         Orders!CallsAreRetained, Orders!Creating, Orders!Locked, Orders!HistoriesGrow,
         Orders!CandidatesAreNext, Orders!OperationsAreOwn, Orders!OrdersAreKept
    <3>2. Orders!ReportedIsKept'
      <4>1. v11[w] \in Orders!Receipts(v5[v9[w]])
        <5>1. /\ v9[w] \in Orders!Folders /\ v11[w] \in Orders!Operations
              /\ v12[w] \in Orders!Snapshots /\ v5[v9[w]] = Append(v12[w], v11[w])
          BY <1>22 DEF Orders!SyncCurrent, Orders!CandidatesAreNext, Orders!Candidate,
             Orders!CallsAreRetained, Orders!Creating, Orders!Locked, Orders!TypeOK,
             Orders!FoldersOK, Orders!WindowsOK
        <5>2. Orders!Receipts(Append(v12[w], v11[w])) = Orders!Receipts(v12[w]) \cup {v11[w]}
          BY <5>1, NextSnapshot
        <5> QED
          BY <5>1, <5>2
      <4> QED
        BY <1>22, <4>1 DEF Orders!SyncCurrent, Orders!Shows, Orders!Goes, Orders!Releases,
           Orders!TypeOK, Orders!FoldersOK, Orders!WindowsOK, Orders!CallsAreRetained,
           Orders!Creating, Orders!Locked, Orders!HistoriesGrow, Orders!OrdersAreKept,
           Orders!ReportedIsKept
    <3>3. Orders!RefusedIsNotSaved'
      BY <1>22 DEF Orders!SyncCurrent, Orders!Shows, Orders!Goes, Orders!Releases,
         Orders!RefusedIsNotSaved, Orders!TypeOK, Orders!FoldersOK, Orders!WindowsOK,
         Orders!CallsAreRetained, Orders!Creating, Orders!Locked, Orders!HistoriesGrow,
         Orders!CandidatesAreNext, Orders!OperationsAreOwn, Orders!OrdersAreKept
    <3>4. Orders!AppliedOnce'
      BY <1>22 DEF Orders!SyncCurrent, Orders!Shows, Orders!Goes, Orders!Releases,
         Orders!AppliedOnce, Orders!TypeOK, Orders!FoldersOK, Orders!WindowsOK,
         Orders!CallsAreRetained, Orders!Creating, Orders!Locked, Orders!HistoriesGrow,
         Orders!CandidatesAreNext, Orders!OperationsAreOwn, Orders!OrdersAreKept
    <3>5. Orders!ViewsAgree'
      BY <1>22 DEF Orders!SyncCurrent, Orders!Shows, Orders!Goes, Orders!Releases,
         Orders!ViewsAgree, Orders!TypeOK, Orders!FoldersOK, Orders!WindowsOK,
         Orders!CallsAreRetained, Orders!Creating, Orders!Locked, Orders!HistoriesGrow,
         Orders!CandidatesAreNext, Orders!OperationsAreOwn, Orders!OrdersAreKept
    <3> QED
      BY <3>1, <3>2, <3>3, <3>4, <3>5 DEF Orders!OrdersAreKept
  <2> QED
    BY <2>1, <2>2, <2>3, <2>4, <2>5, <2>6, <2>7
<1>23. ASSUME NEW w \in Hosts, Orders!FailSave(w) PROVE Orders!IInv'
  <2> USE <1>23 DEF Orders!FailSave, Orders!Failed, Orders!Goes, Orders!Releases,
        Orders!FoldersOK, Orders!TypeOK, Orders!WindowsOK
  <2>1. Orders!TypeOK'
    <3>1. Orders!FoldersOK'
      OBVIOUS
    <3>2. Orders!WindowsOK'
      OBVIOUS
    <3> QED
      BY <3>1, <3>2
  <2>2. Orders!CallsAreRetained'
    BY DEF Orders!CallsAreRetained, Orders!Creating, Orders!Locked
  <2>3. Orders!LockIsHeld'
    BY DEF Orders!LockIsHeld, Orders!CallsAreRetained, Orders!Creating, Orders!Locked
  <2>4. Orders!HistoriesGrow'
    BY DEF Orders!HistoriesGrow, Orders!CallsAreRetained, Orders!Creating, Orders!Locked,
       Orders!CandidatesAreNext
  <2>5. Orders!CandidatesAreNext'
    BY DEF Orders!CandidatesAreNext, Orders!CallsAreRetained, Orders!Creating,
       Orders!Locked, Orders!LockIsHeld, Orders!HistoriesGrow, Orders!Applied,
       Orders!Candidate
  <2>6. Orders!OperationsAreOwn'
    BY DEF Orders!OperationsAreOwn, Orders!CallsAreRetained, Orders!Creating, Orders!Locked,
       Orders!HistoriesGrow, Orders!CandidatesAreNext
  <2>7. Orders!OrdersAreKept'
    <3> USE DEF Orders!CallsAreRetained, Orders!Creating, Orders!Locked,
          Orders!HistoriesGrow, Orders!CandidatesAreNext, Orders!OperationsAreOwn,
          Orders!OrdersAreKept
    <3>1. Orders!CurrentIsWhole'
      BY DEF Orders!CurrentIsWhole
    <3>2. Orders!ReportedIsKept'
      BY DEF Orders!ReportedIsKept
    <3>3. Orders!RefusedIsNotSaved'
      BY DEF Orders!RefusedIsNotSaved
    <3>4. Orders!AppliedOnce'
      BY DEF Orders!AppliedOnce
    <3>5. Orders!ViewsAgree'
      BY DEF Orders!ViewsAgree
    <3> QED
      BY <3>1, <3>2, <3>3, <3>4, <3>5
  <2> QED
    BY <2>1, <2>2, <2>3, <2>4, <2>5, <2>6, <2>7
<1>24. ASSUME NEW w \in Hosts, Orders!ReopenSaved(w) PROVE Orders!IInv'
  <2> USE <1>24 DEF Orders!ReopenSaved, Orders!SameDirectory, Orders!Here, Orders!Shows,
        Orders!Goes, Orders!FoldersOK, Orders!TypeOK, Orders!WindowsOK
  <2>1. Orders!TypeOK'
    <3>1. Orders!FoldersOK'
      OBVIOUS
    <3>2. Orders!WindowsOK'
      OBVIOUS
    <3> QED
      BY <3>1, <3>2
  <2>2. Orders!CallsAreRetained'
    BY DEF Orders!CallsAreRetained, Orders!Creating, Orders!Locked
  <2>3. Orders!LockIsHeld'
    BY DEF Orders!LockIsHeld, Orders!CallsAreRetained, Orders!Creating, Orders!Locked
  <2>4. Orders!HistoriesGrow'
    BY DEF Orders!HistoriesGrow, Orders!CallsAreRetained, Orders!Creating, Orders!Locked,
       Orders!CandidatesAreNext
  <2>5. Orders!CandidatesAreNext'
    BY DEF Orders!CandidatesAreNext, Orders!CallsAreRetained, Orders!Creating,
       Orders!Locked, Orders!LockIsHeld, Orders!HistoriesGrow, Orders!Applied,
       Orders!Candidate
  <2>6. Orders!OperationsAreOwn'
    BY DEF Orders!OperationsAreOwn, Orders!CallsAreRetained, Orders!Creating, Orders!Locked,
       Orders!HistoriesGrow, Orders!CandidatesAreNext
  <2>7. Orders!OrdersAreKept'
    <3> USE DEF Orders!CallsAreRetained, Orders!Creating, Orders!Locked,
          Orders!HistoriesGrow, Orders!CandidatesAreNext, Orders!OperationsAreOwn,
          Orders!OrdersAreKept
    <3>1. Orders!CurrentIsWhole'
      BY DEF Orders!CurrentIsWhole
    <3>2. Orders!ReportedIsKept'
      BY DEF Orders!ReportedIsKept
    <3>3. Orders!RefusedIsNotSaved'
      BY DEF Orders!RefusedIsNotSaved
    <3>4. Orders!AppliedOnce'
      BY DEF Orders!AppliedOnce
    <3>5. Orders!ViewsAgree'
      BY DEF Orders!ViewsAgree
    <3> QED
      BY <3>1, <3>2, <3>3, <3>4, <3>5
  <2> QED
    BY <2>1, <2>2, <2>3, <2>4, <2>5, <2>6, <2>7
<1> QED
BY <1>1, <1>2, <1>3, <1>4, <1>5, <1>6, <1>7, <1>8, <1>9, <1>10, <1>11, <1>12, <1>13, <1>14,
   <1>15, <1>16, <1>17, <1>18, <1>19, <1>20, <1>21, <1>22, <1>23, <1>24 DEF Orders!Next,
   Orders!Creation, Orders!Save

-----------------------------------------------------------------------------
(* The theorems. *)

IInv ==
    /\ part = "journal" => Upgrade!IInv
    /\ part = "folder" => Folder!IInv
    /\ part = "instances" => Instances!IInv
    /\ part = "attempts" => Attempts!IInv
    /\ part = "handoff" => Handoff!IInv
    /\ part = "orders" => Orders!IInv

LEMMA InitIInv == FilesInit => IInv
BY UpgradeBegins, FolderBegins, InstancesBegin, AttemptsBegin, HandoffBegins,
   OrdersBegin
   DEF FilesInit, IInv

\* A step of one part is a step of its module, and leaves which part runs alone.
LEMMA NextIInv == IInv /\ FilesNext => IInv'
<1> SUFFICES ASSUME IInv, FilesNext PROVE IInv'
  OBVIOUS
<1>1. UNCHANGED part
  BY DEF FilesNext
<1>2. part = "journal" => Upgrade!IInv'
  BY <1>1, UpgradeStep DEF FilesNext, IInv
<1>3. part = "folder" => Folder!IInv'
  BY <1>1, FolderStep DEF FilesNext, IInv
<1>4. part = "instances" => Instances!IInv'
  BY <1>1, InstancesStep DEF FilesNext, IInv
<1>5. part = "attempts" => Attempts!IInv'
  BY <1>1, AttemptsStep DEF FilesNext, IInv
<1>6. part = "handoff" => Handoff!IInv'
  BY <1>1, HandoffStep DEF FilesNext, IInv
<1>7. part = "orders" => Orders!IInv'
  BY <1>1, OrdersStep DEF FilesNext, IInv
<1> QED
  BY <1>1, <1>2, <1>3, <1>4, <1>5, <1>6, <1>7 DEF IInv

LEMMA StutterIInv == IInv /\ UNCHANGED vars => IInv'
<1> SUFFICES ASSUME IInv, UNCHANGED vars PROVE IInv'
  OBVIOUS
<1>1. UNCHANGED <<part, v1, v2, v3, v4, v5, v6, v7, v8, v9, v10, v11, v12, v13, v14, v15, v16,
                  v17, v18, v19, v20, v21, v22, v23>>
  BY DEF vars
<1>2. part = "journal" => Upgrade!IInv'
  BY <1>1, UpgradeStutters DEF IInv, Upgrade!journalUpgrade, Upgrade!record_,
     Upgrade!backup_
<1>3. part = "folder" => Folder!IInv'
  BY <1>1, FolderStutters DEF IInv, Folder!folderUpgrade, Folder!folder
<1>4. part = "instances" => Instances!IInv'
  BY <1>1, InstancesStutter DEF IInv, Instances!toolInstances, Instances!disk,
     Instances!hosts, Instances!bounds
<1>5. part = "attempts" => Attempts!IInv'
  BY <1>1, AttemptsStutter DEF IInv, Attempts!fileAttempts, Attempts!journal,
     Attempts!files, Attempts!panel, Attempts!work, Attempts!ghosts
<1>6. part = "handoff" => Handoff!IInv'
  BY <1>1, HandoffStutters DEF IInv, Handoff!taskHandoff, Handoff!journal, Handoff!jobs,
     Handoff!registry, Handoff!saves, Handoff!work
<1>7. part = "orders" => Orders!IInv'
  BY <1>1, OrdersStutter DEF IInv, Orders!orderStore, Orders!disk, Orders!windows,
     Orders!ghosts, Orders!bounds
<1> QED
  BY <1>1, <1>2, <1>3, <1>4, <1>5, <1>6, <1>7 DEF IInv

LEMMA Inductive == FilesSpec => []IInv
BY InitIInv, NextIInv, StutterIInv, PTL DEF FilesSpec

\* The variables of the part that runs keep their types.
THEOREM FilesTypeCorrect == FilesSpec => []FilesTypeOK
<1>1. IInv => FilesTypeOK
  BY DEF IInv, FilesTypeOK, Upgrade!IInv, Folder!IInv, Instances!IInv, Attempts!IInv,
     Handoff!IInv, Orders!IInv
<1> QED
  BY <1>1, Inductive, PTL

\* An upgrade of the restart record or of a tool's folder, interrupted at any stage and
\* tried again by any host, leaves the old format or the new one, whole and lasting, and
\* never takes back a save made since.
THEOREM UpgradesCorrect == FilesSpec => []UpgradesSurvive
<1>1. Upgrade!IInv => Upgrade!RecordSurvivesUpgrade
  BY DEF Upgrade!IInv, Upgrade!BackupIsFirst, Upgrade!RecordSurvivesUpgrade,
     Upgrade!OriginalIsKept
<1>2. Folder!IInv => Folder!FolderSurvivesUpgrade
  BY DEF Folder!IInv, Folder!FolderSurvivesUpgrade
<1>3. IInv => UpgradesSurvive
  BY <1>1, <1>2 DEF IInv, UpgradesSurvive
<1> QED
  BY <1>3, Inductive, PTL

\* Every listed tool keeps an entry and a shelf of checkpoints of its own, whatever is moved
\* meanwhile and however hosts write the index of recent tools at once.
THEOREM RecoveriesCorrect == FilesSpec => []RecoveriesAreApart
<1>1. Instances!IInv => Instances!RecoveriesAreApart
  <2> SUFFICES ASSUME Instances!IInv PROVE Instances!RecoveriesAreApart
    OBVIOUS
  <2>1. \A one, two \in v3 :
           one # two => one.id # two.id /\ PlaceOf[one.path] # PlaceOf[two.path]
    BY DEF Instances!IInv, Instances!IndexesAgree
  <2>2. \A i \in Instances!Instances : \A c, d \in v5[i] : c.folder = d.folder
    <3>1. \A i \in Instances!Instances : \A c \in v5[i] :
             c.folder \in Directories /\ Instances!Owns(i, c.folder)
      BY DEF Instances!IInv, Instances!TypeOK, Instances!FoldersOK, Instances!Checkpoints,
         Instances!Owns
    <3> QED
      BY <3>1 DEF Instances!IInv, Instances!ShelvesAreOwned
  <2> QED
    BY <2>1, <2>2 DEF Instances!IInv, Instances!RecoveriesAreApart,
       Instances!InstancesAreApart
<1>2. IInv => RecoveriesAreApart
  BY <1>1 DEF IInv, RecoveriesAreApart
<1> QED
  BY <1>2, Inductive, PTL

\* A file that may have been written outside the tool is in the restart record until its
\* outcome is certain, and what is told of it is so; an author that was started is known to
\* the record, and only what it submitted for its request is completed or reviewed; a save of
\* the order tool that was reported is kept, one that was refused is in no project, and none
\* is applied twice, wherever the power fails.
THEOREM OutcomesCorrect == FilesSpec => []OutcomesAreKept
<1>1. Attempts!IInv => Attempts!FileAttemptsAreKept
  BY DEF Attempts!IInv, Attempts!FileAttemptsAreKept
<1>2. Handoff!IInv => Handoff!HandoffIsKept
  BY DEF Handoff!IInv, Handoff!HandoffIsKept
<1>3. Orders!IInv => Orders!OrdersAreKept
  BY DEF Orders!IInv
<1>4. IInv => OutcomesAreKept
  BY <1>1, <1>2, <1>3 DEF IInv, OutcomesAreKept
<1> QED
  BY <1>4, Inductive, PTL
=============================================================================
