---------------------------- MODULE ToolInstances ----------------------------
(* The recent tools and the checkpoint shelves (product_locations.rs,          *)
(* product_backup.rs): a folder is listed under an instance of its own, whose  *)
(* shelf keeps its checkpoints, while several hosts register tools and recover *)
(* them into fresh folders and the user moves folders.  All tools here have    *)
(* one identity: a recovered tool keeps that of its original.                  *)
EXTENDS Naturals, FiniteSets

CONSTANTS
    Hosts, Folders,
    Paths, Places, PlaceOf,     \* paths, and what they name: two may be one place
    MaxInstances, MaxRevision,  \* bounds on the instances and the revisions
    MaxMoves, MaxLosses         \* bounds on the user's moves and the power losses

Instances == 1 .. MaxInstances

VARIABLES
    at, revision,           \* where each folder is, and its saved revision (0: none yet)
    index, indexLeft,       \* recent-tools.json, and what a power loss may leave of it
    shelf,                  \* the checkpoints of each instance
    writer,                 \* the host that holds the recent tools' lock
    pc, path, store,        \* what each host does, at which path, with which folder open
    instance,               \* the instance it was given
    issued,                 \* the identifiers drawn so far (random, never twice)
    acknowledged,           \* ghost: instances whose registration was reported
    moves, losses

disk == <<at, revision, index, indexLeft, shelf>>
hosts == <<writer, pc, path, store, instance>>
bounds == <<moves, losses>>
toolInstances == <<disk, hosts, issued, acknowledged, bounds>>

Nobody == "nobody"
Nowhere == "nowhere"

Init ==
    /\ at = [f \in Folders |-> Nowhere] /\ revision = [f \in Folders |-> 0]
    /\ index = {} /\ indexLeft = {{}}
    /\ shelf = [i \in Instances |-> {}]
    /\ writer = Nobody /\ pc = [h \in Hosts |-> "idle"]
    /\ path = [h \in Hosts |-> Nowhere] /\ store = [h \in Hosts |-> Nowhere]
    /\ instance = [h \in Hosts |-> 0]
    /\ issued = 0 /\ acknowledged = {} /\ moves = 0 /\ losses = 0

Goes(h, to) == pc' = [pc EXCEPT ![h] = to]
Releases(h) == writer' = IF writer = h THEN Nobody ELSE writer
\* A host that is done keeps the folder it has open, or nothing.
Rests(h, to) ==
    /\ Goes(h, to) /\ Releases(h)
    /\ instance' = [instance EXCEPT ![h] = 0]
    /\ path' = [path EXCEPT ![h] = IF to = "idle" THEN Nowhere ELSE @]
    /\ store' = [store EXCEPT ![h] = IF to = "idle" THEN Nowhere ELSE @]

\* pinned, check: the path still names the folder that was opened through it.
Pinned(h) == at[store[h]] = PlaceOf[path[h]]
\* same_location: the entry's path opens, and opens this folder.
Names(entry, folder) == at[folder] # Nowhere /\ PlaceOf[entry.path] = at[folder]

-----------------------------------------------------------------------------
\* new_tool_path: drawn at random, it names nothing and was never listed.
NewToolPath(p) ==
    /\ \A g \in Folders : at[g] # PlaceOf[p]
    /\ \A entry \in index : PlaceOf[entry.path] # PlaceOf[p]

\* A new tool at a path nobody uses (new_tool_path, ProductStore::create), or one that the
\* user selects: the host has it open.
Create(h, p, f) ==
    /\ pc[h] = "idle" /\ at[f] = Nowhere /\ NewToolPath(p)
    /\ at' = [at EXCEPT ![f] = PlaceOf[p]] /\ revision' = [revision EXCEPT ![f] = 1]
    /\ Goes(h, "open") /\ path' = [path EXCEPT ![h] = p] /\ store' = [store EXCEPT ![h] = f]
    /\ UNCHANGED <<index, indexLeft, shelf, writer, instance, issued,
                   acknowledged, bounds>>

Select(h, p, f) ==
    /\ pc[h] = "idle" /\ at[f] = PlaceOf[p] /\ revision[f] > 0
    /\ Goes(h, "open") /\ path' = [path EXCEPT ![h] = p] /\ store' = [store EXCEPT ![h] = f]
    /\ UNCHANGED <<disk, writer, instance, issued, acknowledged, bounds>>

Save(h) ==
    /\ pc[h] = "open" /\ Pinned(h) /\ revision[store[h]] < MaxRevision
    /\ revision' = [revision EXCEPT ![store[h]] = @ + 1]
    /\ UNCHANGED <<at, index, indexLeft, shelf, hosts, issued, acknowledged, bounds>>

\* post_save, remember: after an opening or a save, under the index's lock.
Remember(h) ==
    /\ pc[h] = "open" /\ Pinned(h) /\ writer = Nobody
    /\ writer' = h /\ Goes(h, "remembering")
    /\ UNCHANGED <<disk, path, store, instance, issued, acknowledged, bounds>>

\* write: the index is replaced.  It may fail before the rename, or after it.
Writes(h, new, id) ==
    \/ /\ index' = new /\ indexLeft' = {new}
       /\ acknowledged' = acknowledged \cup {id}
    \/ /\ index' \in {index, new} /\ indexLeft' = indexLeft \cup {index'}
       /\ UNCHANGED acknowledged
Appended(h, id) == index \cup {[id |-> id, path |-> path[h]]}

\* The entries whose path opens this folder or is this path; two are a collision.
Matching(h) == {e \in index : e.path = path[h] \/ Names(e, store[h])}
Remembers(h) ==
    /\ pc[h] = "remembering"
    /\ LET matching == Matching(h) IN
       IF ~ Pinned(h) \/ Cardinality(matching) > 1
       THEN Rests(h, "idle") /\ UNCHANGED <<index, indexLeft, issued, acknowledged>>
       ELSE \E id \in Instances :
              /\ IF matching = {} THEN id = issued + 1 /\ issued' = id
                 ELSE id \in {e.id : e \in matching} /\ UNCHANGED issued
              /\ Writes(h, IF matching = {} THEN Appended(h, id) ELSE index, id)
              /\ \/ /\ id \in acknowledged' /\ Goes(h, "capturing") /\ Releases(h)
                    /\ instance' = [instance EXCEPT ![h] = id] /\ UNCHANGED <<path, store>>
                 \/ id \notin acknowledged' /\ Rests(h, "open")
    /\ UNCHANGED <<at, revision, shelf, bounds>>

\* Mutated form of Checkpoint: it is named for the revision the next save will have.
CheckpointOfNext(folder) == [folder |-> folder, revision |-> revision[folder] + 1]

\* name: a checkpoint is of a tool and a revision.
Checkpoint(folder) == [folder |-> folder, revision |-> revision[folder]]

\* capture, publish_backup: the committed snapshot, under a name of its revision and digest.
\* It may fail, with the file there or not.  (One that a power loss takes away is one
\* that was not published, as far as this goes.)
Capture(h) ==
    /\ pc[h] = "capturing" /\ Rests(h, "open")
    /\ LET kept == [shelf EXCEPT ![instance[h]] = @ \cup {Checkpoint(store[h])}] IN
       shelf' \in {shelf, IF Pinned(h) THEN kept ELSE shelf}
    /\ UNCHANGED <<at, revision, index, indexLeft, issued, acknowledged, bounds>>

-----------------------------------------------------------------------------
\* newest_verified: what the shelf offers for a recovery.
Newest(checkpoints) ==
    {c \in checkpoints : \A d \in checkpoints : d.revision <= c.revision}

\* create_and_remember: under the index's lock; the path of a listed instance is not used,
\* whether anything is there or not.
RecoverBegins(h, p) ==
    /\ pc[h] = "idle" /\ writer = Nobody /\ \E i \in Instances : Newest(shelf[i]) # {}
    /\ \A entry \in index : entry.path # p
    /\ writer' = h /\ Goes(h, "making")
    /\ path' = [path EXCEPT ![h] = p]
    /\ UNCHANGED <<disk, store, instance, issued, acknowledged, bounds>>

\* The fresh folder.
Makes(h, f) ==
    /\ pc[h] = "making" /\ at[f] = Nowhere /\ \A g \in Folders : at[g] # PlaceOf[path[h]]
    /\ at' = [at EXCEPT ![f] = PlaceOf[path[h]]] /\ store' = [store EXCEPT ![h] = f]
    /\ Goes(h, "verifying")
    /\ UNCHANGED <<revision, index, indexLeft, shelf, writer, path,
                   instance, issued, acknowledged, bounds>>

\* Mutated form of Verified: the paths were compared, and that is enough.
VerifiedByPath(h) == Pinned(h) /\ \A entry \in index : entry.path # path[h]

\* verify_instance: the folder is not one that an entry names in other letters.
Verified(h) == Pinned(h) /\ \A entry \in index : ~ Names(entry, store[h])

\* before_activate and the pointer: only a folder of its own becomes a tool.
Activates(h) ==
    /\ pc[h] = "verifying"
    /\ IF Verified(h)
       THEN \E i \in Instances : \E c \in Newest(shelf[i]) :
              /\ revision' = [revision EXCEPT ![store[h]] = c.revision]
              /\ Goes(h, "registering") /\ UNCHANGED <<writer, path, store, instance>>
       ELSE Rests(h, "idle") /\ UNCHANGED revision
    /\ UNCHANGED <<at, index, indexLeft, shelf, issued, acknowledged, bounds>>

\* The entry of the recovered tool.  Its failure is a warning: the tool is there.
Registers(h) ==
    /\ pc[h] = "registering" /\ Rests(h, IF Pinned(h) THEN "open" ELSE "idle")
    /\ \/ /\ Verified(h) /\ issued < MaxInstances /\ issued' = issued + 1
          /\ Writes(h, Appended(h, issued'), issued')
       \/ UNCHANGED <<index, indexLeft, issued, acknowledged>>
    /\ UNCHANGED <<at, revision, shelf, bounds>>

-----------------------------------------------------------------------------
\* The user moves a tool's folder, but not over one that is listed: by its path and its
\* identity it would be taken for that instance.
Move(f, place) ==
    /\ moves < MaxMoves /\ moves' = moves + 1
    /\ at[f] # Nowhere /\ \A g \in Folders : at[g] # place
    /\ \A entry \in index : PlaceOf[entry.path] # place
    /\ \A h \in Hosts : pc[h] \in {"making", "remembering"} => PlaceOf[path[h]] # place
    /\ at' = [at EXCEPT ![f] = place]
    /\ UNCHANGED <<revision, index, indexLeft, shelf, hosts, issued, acknowledged,
                   losses>>

Ends(h) ==
    /\ pc[h] # "idle" /\ Rests(h, "idle")
    /\ UNCHANGED <<disk, issued, acknowledged, bounds>>

PowerLoss ==
    /\ losses < MaxLosses /\ losses' = losses + 1
    /\ index' \in indexLeft /\ indexLeft' = {index'}
    /\ writer' = Nobody /\ pc' = [h \in Hosts |-> "idle"]
    /\ path' = [h \in Hosts |-> Nowhere] /\ store' = path'
    /\ instance' = [h \in Hosts |-> 0]
    /\ UNCHANGED <<at, revision, shelf, issued, acknowledged, moves>>

Next ==
    \/ PowerLoss
    \/ \E f \in Folders, place \in Places : Move(f, place)
    \/ \E h \in Hosts :
         \/ \E p \in Paths, f \in Folders : Create(h, p, f) \/ Select(h, p, f)
         \/ \E p \in Paths : RecoverBegins(h, p)
         \/ \E f \in Folders : Makes(h, f)
         \/ Save(h) \/ Remember(h) \/ Remembers(h) \/ Capture(h)
         \/ Activates(h) \/ Registers(h) \/ Ends(h)

Spec == Init /\ [][Next]_toolInstances

-----------------------------------------------------------------------------
Entries == [id : Instances, path : Paths]
Checkpoints == [folder : Folders, revision : 1 .. MaxRevision]

FoldersOK ==
    /\ at \in [Folders -> Places \cup {Nowhere}] /\ revision \in [Folders -> 0 .. MaxRevision]
    /\ shelf \in [Instances -> SUBSET Checkpoints]
IndexOK ==
    /\ \A known \in indexLeft \cup {index} : known \subseteq Entries
    /\ issued \in 0 .. MaxInstances /\ acknowledged \subseteq Instances
HostsOK ==
    /\ writer \in Hosts \cup {Nobody}
    /\ pc \in [Hosts -> {"idle", "open", "remembering", "capturing", "making", "verifying",
                         "registering"}]
    /\ path \in [Hosts -> Paths \cup {Nowhere}] /\ store \in [Hosts -> Folders \cup {Nowhere}]
    /\ instance \in [Hosts -> {0} \cup Instances]

TypeOK ==
    /\ FoldersOK /\ IndexOK /\ HostsOK
    /\ moves \in 0 .. MaxMoves /\ losses \in 0 .. MaxLosses

\* One instance is one folder: no identifier, path or folder is listed twice, and a shelf
\* never holds the checkpoints of two tools, however they were recovered or moved.
InstancesAreApart ==
    /\ \A one, two \in index :
         one # two => one.id # two.id /\ PlaceOf[one.path] # PlaceOf[two.path]
    /\ \A i \in Instances : \A c, d \in shelf[i] : c.folder = d.folder

\* What was acknowledged is kept: an instance stays listed when other hosts write the
\* index, and after every power loss.
RegistrationsAreKept ==
    \A known \in indexLeft : acknowledged \subseteq {entry.id : entry \in known}

RecoveriesAreApart == InstancesAreApart /\ RegistrationsAreKept

\* Why: no two folders are at one place; a host is at work on a folder that is somewhere,
\* and remembers one with saved work; what a power loss may leave of the index agrees; and
\* of the folders with saved work, only the owner of an instance's shelf is at its place.
PlacesAreOwn ==
    \A f, g \in Folders :
        /\ at[f] = at[g] => f = g \/ at[f] = Nowhere
        /\ at[f] = Nowhere => revision[f] = 0
HostsHaveTools ==
    \A h \in Hosts :
        /\ pc[h] # "idle" => path[h] \in Paths
        /\ pc[h] \notin {"idle", "making"} => store[h] \in Folders /\ at[store[h]] # Nowhere
        /\ pc[h] \in {"open", "remembering", "capturing", "registering"} =>
               revision[store[h]] > 0
        /\ pc[h] = "capturing" => instance[h] \in acknowledged
IndexesAgree ==
    /\ index \in indexLeft
    /\ \A known \in indexLeft : \A one \in known :
         /\ one.id <= issued
         /\ \A two \in known : one # two => PlaceOf[one.path] # PlaceOf[two.path]
         /\ \A other \in indexLeft : \A two \in other : one.id = two.id => one = two
Owns(i, f) ==
    \/ \E c \in shelf[i] : c.folder = f
    \/ \E h \in Hosts : pc[h] = "capturing" /\ instance[h] = i /\ store[h] = f
ShelvesAreOwned ==
    \A i \in Instances, f \in Folders : Owns(i, f) =>
        /\ i \in acknowledged
        /\ \A g \in Folders : Owns(i, g) => f = g
        /\ \A entry \in index, g \in Folders :
             entry.id = i /\ at[g] = PlaceOf[entry.path] /\ revision[g] > 0 => g = f

IInv ==
    /\ TypeOK /\ PlacesAreOwn /\ HostsHaveTools /\ IndexesAgree /\ RegistrationsAreKept
    /\ ShelvesAreOwned
=============================================================================
