---------------------------- MODULE RestartRecord ----------------------------
(***************************************************************************)
(* The restart record of the generated-tool host, session.json, and the      *)
(* host's copy of it (JournalFile, src/src/product_studio/journal.rs).       *)
(*                                                                         *)
(* One host writes it, under a lock.  A write is published by a rename and a *)
(* directory sync; either may fail, and what a failed write leaves behind is *)
(* known only to a fresh reopen.                                            *)
(***************************************************************************)
VARIABLES
    disk,       \* what session.json holds
    lasting,    \* what it may hold after a power loss
    value,      \* JournalFile.value
    blocked     \* JournalFile.unresolved_write

files == <<disk, lasting, value, blocked>>

\* Published and synced.
Written(p) ==
    /\ disk' = p /\ lasting' = {p} /\ value' = p
    /\ UNCHANGED blocked

\* Too large or malformed: refused before anything is published.
RefusedWrite == UNCHANGED files

\* The rename or the sync failed: the file may hold either, and the writer
\* refuses every later write.
UnresolvedWrite(p) ==
    /\ \/ UNCHANGED <<disk, lasting>>
       \/ disk' = p /\ lasting' = {disk, p}
    /\ blocked' = TRUE
    /\ UNCHANGED value

\* Mutated form of Reopened: the file is read but not synced.
ReopenedUnsynced == value' = disk /\ UNCHANGED <<disk, lasting>>

\* The record is read, synced and read again.
Reopened == value' = disk /\ lasting' = {disk} /\ UNCHANGED disk

\* The power is lost, and with it what was not synced.
Kept == disk' \in lasting /\ lasting' = IF disk' = disk THEN lasting ELSE {disk'}
=============================================================================
