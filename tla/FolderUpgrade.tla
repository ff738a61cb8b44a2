---------------------------- MODULE FolderUpgrade ----------------------------
(* A generated tool's folder in the old format (product_store/upgrade.rs,      *)
(* product_backup.rs, the worker's upgrade): the conversion is staged beside   *)
(* the original and then activated, in the folder itself or, from an old       *)
(* backup, in a fresh one, while other hosts open and save the same folder.    *)
(* Names that were published without a folder sync after them survive a power  *)
(* loss or do not, each for itself.                                            *)
EXTENDS Naturals

CONSTANTS
    Hosts,          \* the hosts that work on one folder
    MaxRevision,    \* bound on the saved revisions
    MaxLosses       \* bound on the power losses

\* The files: one object for each revision, the upgrade's journal, the intention objects.
\* Revision 0 is the original, 1 its conversion, with the data of the same revision.
Original == 0
Converted == 1
Journal == MaxRevision + 1
Intentions == MaxRevision + 2
Missing == MaxRevision + 3
Files == 0 .. Intentions
Pointers == (0 .. MaxRevision) \cup {Missing}

VARIABLES
    origin,             \* what is upgraded: "folder", or "backup" into a fresh folder
    files, lasting,     \* the names in the folder, and those a power loss leaves
    current, left,      \* CURRENT, and what a power loss may leave of it
    writer,             \* the host that holds .write.lock
    pc, seen,           \* where each host is, and the revision it read
    acknowledged,       \* ghost: the last revision a save reported as saved
    losses

folder == <<files, lasting, current, left>>
folderUpgrade == <<origin, folder, writer, pc, seen, acknowledged, losses>>

Nobody == "nobody"

Init ==
    /\ origin \in {"folder", "backup"}
    /\ files = IF origin = "folder" THEN {Original, Intentions} ELSE {}
    /\ lasting = files
    /\ current = IF origin = "folder" THEN Original ELSE Missing
    /\ left = {current}
    /\ writer = Nobody
    /\ pc = [h \in Hosts |-> "closed"] /\ seen = [h \in Hosts |-> Missing]
    /\ acknowledged = 0 /\ losses = 0

Goes(h, to) == pc' = [pc EXCEPT ![h] = to]
Saw(h, revision) == seen' = [seen EXCEPT ![h] = revision]
\* The lock goes with its guard, whatever the function returns.
Returns(h, to) == Goes(h, to) /\ writer' = IF writer = h THEN Nobody ELSE writer

\* The folder's sync: every name in it lasts.
Synced == lasting' = files' /\ left' = {current'}

\* publish(name, bytes, replace = false): it may fail before the rename, or after it and
\* before the folder's sync.
Published(name) == name \notin files /\ files' = files \cup {name} /\ UNCHANGED current
PublishFails(name) ==
    /\ files' \in {files, files \cup {name}} /\ UNCHANGED <<lasting, current, left>>

\* Mutated form of Staged: an object that is already there is not synced again.
StagedOrThere(name) ==
    \/ Published(name) /\ Synced
    \/ name \in files /\ UNCHANGED folder

\* publish_upgrade_object: an equal object that is already there is synced again.
Staged(name) ==
    /\ \/ Published(name)
       \/ name \in files /\ UNCHANGED <<files, current>>
    /\ Synced

\* A stage under the lock, which may fail.
Stages(h, from, name, to) ==
    /\ pc[h] = from
    /\ \/ Staged(name) /\ Goes(h, to) /\ UNCHANGED writer
       \/ PublishFails(name) /\ Returns(h, "closed")
    /\ UNCHANGED <<origin, seen, acknowledged, losses>>

-----------------------------------------------------------------------------
\* inspect_open: an old pointer is offered for upgrade, a new one is opened.
Opens(h) ==
    /\ pc[h] = "closed" /\ current # Missing /\ current \in files
    /\ Goes(h, IF current = Original THEN "offered" ELSE "open") /\ Saw(h, current)
    /\ UNCHANGED <<origin, folder, writer, acknowledged, losses>>

\* upgrade, upgrade_inner: what was offered is inspected again; then the lock and the
\* pointer as it is.  Another host may have upgraded the folder: then it is only opened.
Upgrade(h) ==
    /\ pc[h] = "offered" /\ writer = Nobody
    /\ IF current = Original
       THEN /\ {Original, Intentions} \subseteq files
            /\ Goes(h, "object") /\ writer' = h
       ELSE Goes(h, "closed") /\ UNCHANGED writer
    /\ UNCHANGED <<origin, folder, seen, acknowledged, losses>>

\* recover_upgraded_at: a fresh folder, made and locked by this host alone; a folder that
\* is there already is refused.
Recover(h) ==
    /\ origin = "backup" /\ pc[h] = "closed" /\ writer = Nobody /\ files = {}
    /\ current = Missing
    /\ Goes(h, "original") /\ writer' = h
    /\ UNCHANGED <<origin, folder, seen, acknowledged, losses>>

StageOriginal(h) == Stages(h, "original", Original, "object")
StageObject(h) == Stages(h, "object", Converted, "journal")
StageJournal(h) ==
    Stages(h, "journal", Journal, IF origin = "backup" THEN "intentions" ELSE "readback")
\* before_activate: the archive stages the backup's intention objects.
StageIntentions(h) == Stages(h, "intentions", Intentions, "readback")

\* The readback of what was staged and of what is kept; in place, CURRENT must still be
\* the old one.
ReadsBack(h) ==
    /\ pc[h] = "readback"
    /\ IF /\ {Original, Converted, Journal} \subseteq files
          /\ current = IF origin = "backup" THEN Missing ELSE Original
       THEN Goes(h, "saving") /\ UNCHANGED writer
       ELSE Returns(h, "closed")
    /\ UNCHANGED <<origin, folder, seen, acknowledged, losses>>

\* save: the pointer takes CURRENT's place (in a fresh folder only if there is none).
\* The handle requires a reopen from here, whether this worked or not.
Activates(h) ==
    /\ pc[h] = "saving" /\ Returns(h, "closed") /\ UNCHANGED files
    /\ \/ current' = Converted /\ Synced
       \/ current' \in {current, Converted} /\ left' = left \cup {current'} /\ UNCHANGED lasting
    /\ UNCHANGED <<origin, seen, acknowledged, losses>>

-----------------------------------------------------------------------------
\* A host's save: the lock, the revision it expects, the object and the pointer.
SaveBegins(h) ==
    /\ pc[h] = "open" /\ seen[h] < MaxRevision
    /\ IF writer = Nobody /\ current = seen[h]
       THEN writer' = h /\ Goes(h, "writing")
       ELSE Goes(h, "closed") /\ UNCHANGED writer
    /\ UNCHANGED <<origin, folder, seen, acknowledged, losses>>

\* An object that is there already is taken as it is, without a sync of its own.
Writes(h) ==
    /\ pc[h] = "writing"
    /\ LET next == seen[h] + 1 IN
       \/ /\ \/ Published(next) /\ Synced
             \/ next \in files /\ UNCHANGED folder
          /\ Goes(h, "pointing") /\ UNCHANGED writer
       \/ PublishFails(next) /\ Returns(h, "closed")
    /\ UNCHANGED <<origin, seen, acknowledged, losses>>

Points(h) ==
    /\ pc[h] = "pointing" /\ UNCHANGED files
    /\ LET next == seen[h] + 1 IN
       \/ /\ current' = next /\ Synced
          /\ Returns(h, "open") /\ Saw(h, next) /\ acknowledged' = next
       \/ /\ current' \in {current, next} /\ left' = left \cup {current'}
          /\ Returns(h, "closed") /\ UNCHANGED <<lasting, seen, acknowledged>>
    /\ UNCHANGED <<origin, losses>>

Ends(h) ==
    /\ pc[h] # "closed" /\ Returns(h, "closed")
    /\ UNCHANGED <<origin, folder, seen, acknowledged, losses>>

PowerLoss ==
    /\ losses < MaxLosses /\ losses' = losses + 1
    /\ \E kept \in SUBSET files : lasting \subseteq kept /\ files' = kept /\ lasting' = kept
    /\ current' \in left /\ left' = {current'}
    /\ writer' = Nobody /\ pc' = [h \in Hosts |-> "closed"]
    /\ UNCHANGED <<origin, seen, acknowledged>>

Next ==
    \/ PowerLoss
    \/ \E h \in Hosts :
         \/ Opens(h) \/ Upgrade(h) \/ Recover(h) \/ StageOriginal(h) \/ StageObject(h)
         \/ StageJournal(h) \/ StageIntentions(h) \/ ReadsBack(h) \/ Activates(h)
         \/ SaveBegins(h) \/ Writes(h) \/ Points(h) \/ Ends(h)

Spec == Init /\ [][Next]_folderUpgrade

-----------------------------------------------------------------------------
HostsOK ==
    /\ origin \in {"folder", "backup"} /\ writer \in Hosts \cup {Nobody}
    /\ pc \in [Hosts -> {"closed", "offered", "open", "original", "object", "journal",
                         "intentions", "readback", "saving", "writing", "pointing"}]
    /\ seen \in [Hosts -> Pointers]
    /\ acknowledged \in 0 .. MaxRevision /\ losses \in 0 .. MaxLosses

TypeOK ==
    /\ HostsOK
    /\ lasting \subseteq files /\ files \subseteq Files
    /\ current \in left /\ left \subseteq Pointers

\* Whatever a power loss leaves, an upgraded folder holds the original, the conversion,
\* the journal and the intentions; and a folder that is upgraded in place never stops
\* being a tool.
UpgradeIsWhole ==
    \A pointer \in left :
        /\ pointer \notin {Missing, Original} =>
               {Original, Converted, Journal, Intentions} \subseteq lasting
        /\ origin = "folder" => pointer # Missing /\ Original \in lasting

\* An upgrade never takes back what a host has saved, and was told so.
UpgradeKeepsSaves ==
    \A pointer \in left : acknowledged > 0 => pointer \in acknowledged .. MaxRevision

FolderSurvivesUpgrade == UpgradeIsWhole /\ UpgradeKeepsSaves

\* Why: a host writes under the lock; what a stage is past lasts; the pointer an upgrade or
\* a save replaces is still the one it was begun on; and only a folder upgraded in place
\* ever pointed at the original.
LockIsHeld ==
    \A h \in Hosts : pc[h] \notin {"closed", "offered", "open"} => writer = h
StagesLast ==
    \A h \in Hosts :
        /\ pc[h] \in {"object", "journal", "intentions", "readback", "saving"} =>
               Original \in lasting
        /\ pc[h] \in {"journal", "intentions", "readback", "saving"} => Converted \in lasting
        /\ pc[h] \in {"intentions", "readback", "saving"} => Journal \in lasting
        /\ pc[h] \in {"readback", "saving"} => Intentions \in lasting
PointersAreExpected ==
    \A h \in Hosts :
        /\ pc[h] = "saving" => current \in {Original, Missing}
        /\ pc[h] = "open" => seen[h] \in Converted .. MaxRevision
        /\ pc[h] \in {"writing", "pointing"} =>
               seen[h] = current /\ seen[h] \in Converted .. MaxRevision - 1
OriginsDiffer ==
    /\ origin = "folder" => Intentions \in lasting
    /\ origin = "backup" => Original \notin left

IInv ==
    /\ TypeOK /\ LockIsHeld /\ StagesLast /\ PointersAreExpected /\ OriginsDiffer
    /\ UpgradeIsWhole /\ UpgradeKeepsSaves
=============================================================================
