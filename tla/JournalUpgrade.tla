--------------------------- MODULE JournalUpgrade ---------------------------
(* The start of the generated-tool host on a restart record of the old format  *)
(* (product_studio/journal_upgrade.rs, journal.rs): the original is kept as a  *)
(* backup, its conversion takes the record's name, and the host opens what is  *)
(* then on the disk under a lock of its own.  A rename is seen at once and     *)
(* survives a power loss once the folder was synced after it.                  *)
EXTENDS Naturals

CONSTANTS
    Windows,        \* the hosts that are started on one profile
    MaxVersion,     \* bound on the contents of the record
    MaxLosses       \* bound on the power losses

\* The contents: what was there before the upgrade, its conversion, and later writes.
Missing == MaxVersion + 1
Versions == 0 .. Missing
Original == 0
Converted == 1

VARIABLES
    before,                 \* what the profile began with
    record, recordLasting,  \* session.json, and what a power loss may leave of it
    backup, backupLasting,  \* the same of session-v1-<digest>.json
    writer,                 \* the host that holds .write.lock
    pc, activated,          \* where each host is, and the content it is to open
    losses

record_ == <<record, recordLasting>>
backup_ == <<backup, backupLasting>>
journalUpgrade == <<before, record_, backup_, writer, pc, activated, losses>>

Nobody == "nobody"

Init ==
    /\ before \in {Original, Missing}
    /\ record = before /\ recordLasting = {before}
    /\ backup = Missing /\ backupLasting = {Missing}
    /\ writer = Nobody
    /\ pc = [w \in Windows |-> "down"] /\ activated = [w \in Windows |-> Missing]
    /\ losses = 0

Goes(w, to) == pc' = [pc EXCEPT ![w] = to]
\* The folder's sync makes every rename in it last.
Syncs == recordLasting' = {record} /\ backupLasting' = {backup}

\* The lock goes with the folder's handle, when the function returns.
Returns(w, to) == Goes(w, to) /\ writer' = IF writer = w THEN Nobody ELSE writer

Takes(w, from, to) ==
    /\ pc[w] = from
    /\ IF writer = Nobody THEN writer' = w /\ Goes(w, to)
       ELSE UNCHANGED writer /\ Goes(w, "down")
    /\ UNCHANGED <<before, record_, backup_, activated, losses>>

-----------------------------------------------------------------------------
\* run_locked: the folder's lock, or the host does without its record.
Start(w) == Takes(w, "down", "inspecting")

\* The version decides.  A record of this format is only confirmed: an earlier start may
\* have renamed it without its sync.
Inspects(w) ==
    /\ pc[w] = "inspecting"
    /\ \/ record = Missing /\ Returns(w, "opening") /\ UNCHANGED <<record_, backup_>>
       \/ /\ record \notin {Missing, Original}
          /\ \/ Syncs /\ Returns(w, "opening") /\ UNCHANGED <<record, backup>>
             \/ Returns(w, "down") /\ UNCHANGED <<record_, backup_>>
       \/ /\ record = Original
          /\ Goes(w, "preserving") /\ UNCHANGED <<writer, record_, backup_>>
    /\ UNCHANGED <<before, activated, losses>>

\* preserve: a backup of these bytes is taken as it is, else published under a new name.
\* Whatever the publication says, verification decides.
Preserves(w) ==
    /\ pc[w] = "preserving" /\ Goes(w, "verifying")
    /\ \/ backup = Missing /\ backup' = Original /\ backupLasting' = backupLasting \cup {Original}
       \/ UNCHANGED backup_
    /\ UNCHANGED <<before, record_, writer, activated, losses>>

\* verify_backup: the bytes are read back and synced, and then the folder.
Verifies(w) ==
    /\ pc[w] = "verifying"
    /\ \/ /\ backup = Original /\ Syncs /\ Goes(w, "activating") /\ UNCHANGED writer
       \/ Returns(w, "down") /\ UNCHANGED <<recordLasting, backupLasting>>
    /\ UNCHANGED <<before, record, backup, activated, losses>>

\* activate: the conversion takes the record's name, or does not; its error says nothing.
Activates(w) ==
    /\ pc[w] = "activating" /\ Goes(w, "reading")
    /\ \/ record' = Converted /\ recordLasting' = recordLasting \cup {Converted}
       \/ UNCHANGED record_
    /\ UNCHANGED <<before, backup_, writer, activated, losses>>

\* The readback decides, and only a synced conversion lets the host go on to open it.
ReadsBack(w) ==
    /\ pc[w] = "reading"
    /\ \/ /\ record = Converted /\ Syncs
          /\ activated' = [activated EXCEPT ![w] = Converted] /\ Returns(w, "opening")
       \/ /\ Returns(w, "down") /\ UNCHANGED <<recordLasting, backupLasting, activated>>
    /\ UNCHANGED <<before, record, backup, losses>>

-----------------------------------------------------------------------------
\* reopen takes the lock again: another host may have been in between.
Reopen(w) == Takes(w, "opening", "reopening")

\* What it opens is what was activated, if anything was, and is synced once more.
Opens(w) ==
    /\ pc[w] = "reopening"
    /\ \/ /\ activated[w] \in {Missing, record} /\ record # Original
          /\ record' = IF record = Missing THEN Converted ELSE record
          /\ recordLasting' = {record'} /\ backupLasting' = {backup}
          /\ Goes(w, "open") /\ UNCHANGED writer
       \/ /\ Returns(w, "down")
          /\ \/ UNCHANGED record_
             \/ record = Missing /\ activated[w] = Missing
                /\ record' = Converted /\ recordLasting' = {record, Converted}
          /\ UNCHANGED backupLasting
    /\ activated' = [activated EXCEPT ![w] = Missing]
    /\ UNCHANGED <<before, backup, losses>>

\* JournalFile::write (see RestartRecord): an error blocks every later write, and the lock
\* is kept.
Writes(w) ==
    /\ pc[w] = "open" /\ record < MaxVersion
    /\ \/ /\ record' = record + 1 /\ recordLasting' = {record'} /\ backupLasting' = {backup}
          /\ UNCHANGED pc
       \/ /\ record' \in {record, record + 1} /\ recordLasting' = {record, record'}
          /\ Goes(w, "blocked") /\ UNCHANGED backupLasting
    /\ UNCHANGED <<before, backup, writer, activated, losses>>

\* The host ends, at any point.
Ends(w) ==
    /\ pc[w] # "down" /\ Returns(w, "down")
    /\ activated' = [activated EXCEPT ![w] = Missing]
    /\ UNCHANGED <<before, record_, backup_, losses>>

PowerLoss ==
    /\ losses < MaxLosses /\ losses' = losses + 1
    /\ record' \in recordLasting /\ recordLasting' = {record'}
    /\ backup' \in backupLasting /\ backupLasting' = {backup'}
    /\ writer' = Nobody
    /\ pc' = [w \in Windows |-> "down"] /\ activated' = [w \in Windows |-> Missing]
    /\ UNCHANGED before

Next ==
    \/ PowerLoss
    \/ \E w \in Windows :
         \/ Start(w) \/ Inspects(w) \/ Preserves(w) \/ Verifies(w) \/ Activates(w)
         \/ ReadsBack(w) \/ Reopen(w) \/ Opens(w) \/ Writes(w) \/ Ends(w)

Spec == Init /\ [][Next]_journalUpgrade

-----------------------------------------------------------------------------
TypeOK ==
    /\ before \in {Original, Missing}
    /\ {record, backup} \cup recordLasting \cup backupLasting \subseteq Versions
    /\ writer \in Windows \cup {Nobody} /\ losses \in 0 .. MaxLosses
    /\ pc \in [Windows -> {"down", "inspecting", "preserving", "verifying", "activating",
                           "reading", "opening", "reopening", "open", "blocked"}]
    /\ activated \in [Windows -> {Missing, Converted}]

\* An original is never lost: wherever the power fails, and however often, the record that
\* is left is the original, or the original is beside it.
OriginalIsKept ==
    before = Original =>
        /\ Original \in {record, backup}
        /\ \A left \in recordLasting : left = Original \/ backupLasting = {Original}

\* A host that may write has opened a record of this format that a power loss cannot take
\* back, and is alone.
OpenedIsLasting ==
    \A w \in Windows : pc[w] = "open" =>
        record \notin {Original, Missing} /\ recordLasting = {record} /\ writer = w

RecordSurvivesUpgrade == OriginalIsKept /\ OpenedIsLasting

\* Why: a host works under the lock, also once the record is open; and the backup lasts
\* before anything but the original may be left in the record's place.
LockIsHeld == \A w \in Windows : pc[w] \notin {"down", "opening"} => writer = w
BackupIsFirst ==
    /\ record \in recordLasting /\ backup \in backupLasting
    /\ \A w \in Windows : pc[w] \in {"activating", "reading"} => backupLasting = {Original}
    /\ before = Original =>
         /\ Missing \notin recordLasting /\ backupLasting \subseteq {Missing, Original}
         /\ recordLasting # {Original} => backupLasting = {Original}

IInv == TypeOK /\ LockIsHeld /\ BackupIsFirst /\ OpenedIsLasting
=============================================================================
