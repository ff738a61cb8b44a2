----------------------------- MODULE TaskRegistry -----------------------------
(***************************************************************************)
(* The task registry (src/src/tasks.rs): one file that several windows         *)
(* rewrite, each change under the file's lock and on the file as it is then.    *)
(*                                                                         *)
(* What a window believes when it asks for a change is whatever it read        *)
(* before, so any argument may come with any state of the file.               *)
(***************************************************************************)
EXTENDS TaskOrder

CONSTANTS
    Windows,
    MaxTask,            \* bound on the tasks ever recorded
    Urls                \* Urls[t]: the pull requests task t may be linked to

Tasks == 1 .. MaxTask
AllUrls == UNION {Urls[t] : t \in Tasks}
NoSnapshot == [url |-> "none", merged |-> FALSE]

VARIABLES
    registry,           \* tasks.json: a record for each linked task
    recorded,           \* the number of tasks recorded so far
    change              \* the change under way in a window, and the file it loaded

vars == <<registry, recorded, change>>

None == [name |-> "none"]

Init ==
    /\ registry = <<>> /\ recorded = 0
    /\ change = [w \in Windows |-> [asked |-> None, loaded |-> <<>>]]

Record == [deps |-> {}, url |-> "none", snapshot |-> NoSnapshot, cleaned |-> FALSE]

\* Entries with one field of one record set.
With(entries, t, record) == [entries EXCEPT ![t] = record]

-----------------------------------------------------------------------------
(* What each operation makes of the entries it loaded: the entries unchanged when
   it has nothing to change or refuses. *)

AddTask(entries, t) == [s \in Linked(entries) \cup {t} |->
                           IF s = t THEN Record ELSE entries[s]]

Unlink(entries, t) == Restrict(entries, Linked(entries) \ {t})

AddDependency(entries, t, d) ==
    IF {t, d} \subseteq Linked(entries) /\ t # d /\ ~HasDependencyPath(entries, d, t)
    THEN With(entries, t, [entries[t] EXCEPT !.deps = @ \cup {d}])
    ELSE entries

RemoveDependency(entries, t, d) ==
    IF t \in Linked(entries)
    THEN With(entries, t, [entries[t] EXCEPT !.deps = @ \ {d}])
    ELSE entries

\* record_pull_request: a completed task keeps the pull request it was completed by.
RecordPullRequest(entries, t, url) ==
    IF t \in Linked(entries) /\ ~entries[t].cleaned /\ ~SavedMerge(entries[t])
    THEN With(entries, t, [entries[t] EXCEPT !.url = url])
    ELSE entries

\* record_pull_request_snapshot: only for the pull request the task is linked to.
RecordSnapshot(entries, t, snapshot) ==
    IF t \in Linked(entries) /\ entries[t].url = snapshot.url
    THEN With(entries, t, [entries[t] EXCEPT !.snapshot = snapshot])
    ELSE entries

\* mark_worktree_cleanup_completed, for the pull request the cleanup was confirmed for.
MarkCleaned(entries, t, url) ==
    IF /\ t \in Linked(entries) /\ entries[t].url = url
       /\ entries[t].snapshot = [url |-> url, merged |-> TRUE]
    THEN With(entries, t, [entries[t] EXCEPT !.cleaned = TRUE])
    ELSE entries

Applied(asked, entries) ==
    CASE asked.name = "add" -> AddTask(entries, asked.task)
      [] asked.name = "unlink" -> Unlink(entries, asked.task)
      [] asked.name = "depend" -> AddDependency(entries, asked.task, asked.other)
      [] asked.name = "release" -> RemoveDependency(entries, asked.task, asked.other)
      [] asked.name = "request" -> RecordPullRequest(entries, asked.task, asked.url)
      [] asked.name = "snapshot" -> RecordSnapshot(entries, asked.task, asked.snapshot)
      [] asked.name = "cleaned" -> MarkCleaned(entries, asked.task, asked.url)

\* The changes a window may ask for.
Asked ==
    [name : {"unlink"}, task : 1 .. recorded]
    \cup [name : {"depend", "release"}, task : 1 .. recorded, other : 1 .. recorded]
    \cup UNION {    [name : {"request", "cleaned"}, task : {t}, url : Urls[t]]
               \cup [name : {"snapshot"}, task : {t},
                     snapshot : [url : Urls[t], merged : BOOLEAN]] : t \in 1 .. recorded}

-----------------------------------------------------------------------------
\* Mutated form of LockFree: the file's lock is not taken.
Unlocked == TRUE

\* RegistryFileLock: flock on tasks.json.lock, which a dead process no longer holds.
LockFree == \A w \in Windows : change[w].asked = None

\* update_registry, to the entries it loaded under the lock; a change that is refused, or
\* changes nothing, ends here.
Load(w, asked) ==
    /\ change[w].asked = None /\ LockFree
    /\ Applied(asked, registry) # registry
    /\ change' = [change EXCEPT ![w] = [asked |-> asked, loaded |-> registry]]
    /\ UNCHANGED registry

\* A new task gets a number of its own.
Add(w) ==
    /\ recorded < MaxTask /\ recorded' = recorded + 1
    /\ Load(w, [name |-> "add", task |-> recorded + 1])

Ask(w) == \E asked \in Asked : Load(w, asked) /\ UNCHANGED recorded

\* save_registry: a rename, which may fail, or the window dies before it.
Save(w) ==
    /\ change[w].asked # None
    /\ \/ registry' = Applied(change[w].asked, change[w].loaded)
       \/ UNCHANGED registry
    /\ change' = [change EXCEPT ![w] = [asked |-> None, loaded |-> <<>>]]
    /\ UNCHANGED recorded

Next == \E w \in Windows : Add(w) \/ Ask(w) \/ Save(w)

Spec == Init /\ [][Next]_vars

-----------------------------------------------------------------------------
Records == [deps : SUBSET Tasks, url : AllUrls \cup {"none"},
            snapshot : [url : AllUrls \cup {"none"}, merged : BOOLEAN], cleaned : BOOLEAN]

TypeOK ==
    /\ recorded \in 0 .. MaxTask
    /\ Linked(registry) \subseteq 1 .. recorded
    /\ registry \in [Linked(registry) -> Records]
    /\ change = [w \in Windows |-> [asked |-> change[w].asked, loaded |-> change[w].loaded]]
    /\ \A w \in Windows : change[w].asked = None => change[w].loaded = <<>>

\* Whatever two windows record at the same time, no task comes to depend on itself: what
\* a dependency is checked against is what it is added to.
DependenciesAreAcyclic ==
    \A t \in Linked(registry) : \A d \in Resolved(registry, t) : t \notin Below(registry, d)

\* What an order puts before something else, another one does too.
Follows(own, order) ==
    \A i, j \in DOMAIN own : i < j =>
        \E k, l \in DOMAIN order : k < l /\ order[k] = own[i] /\ order[l] = own[j]

\* The order is complete and right: it has every task whose dependencies, and theirs, are
\* all linked, once and after what it depends on; and a selection that is closed under
\* dependencies has the order it has among all tasks, so that a verification which orders
\* the selected records alone does not take an unchanged selection for a changed one.
OrderIsRight ==
    LET order == Ordered(registry)
    IN  /\ Range(order) =
             {t \in Linked(registry) : \A s \in Below(registry, t) : ~Broken(registry, s)}
        /\ IsInjective(order) /\ Accepts(registry, order)
        /\ \A selected \in SUBSET Range(order) :
             (\A t \in selected : registry[t].deps \subseteq selected) =>
                LET own == OrderOfSelected(registry, selected)
                IN  Range(own) = selected /\ Follows(own, order)

\* A task is offered as ready only when every task below it was merged, one that was not
\* cleaned up with its current source.
ReadyMeansMerged ==
    \A shown \in SUBSET {t \in Linked(registry) : SavedMerge(registry[t])} :
        LET state == Readiness(registry, shown)
        IN  \A t \in DOMAIN state : state[t] = "ready" =>
                \E tasks \in SUBSET Linked(registry) :
                    /\ registry[t].deps \subseteq tasks
                    /\ \A s \in tasks : registry[s].cleaned \/ registry[s].deps \subseteq tasks
                    /\ \A s \in tasks : CurrentlyMerged(registry, shown, s)

\* The file changes only by one window's operation on the file as it was, and a task whose
\* worktree was removed for a merged pull request keeps that pull request.
ChangeIsMadeOnTheFile ==
    registry' # registry =>
        /\ \E w \in Windows : /\ change[w].asked # None
                              /\ registry' = Applied(change[w].asked, registry)
        /\ \A t \in Linked(registry) \cap Linked(registry') :
             registry[t].cleaned => /\ registry'[t].cleaned
                                    /\ registry'[t].url = registry[t].url

\* A preview that the review queue offers is not refused for a prerequisite: what the
\* queue calls complete need not, and cannot, be selected.
OfferedIsAccepted ==
    \A selected \in SUBSET Linked(registry) :
        CanPreview(registry, selected) =>
            Accepts(registry, OrderedTasks(registry, selected))

\* What these rest on: a dependency names a task that was recorded, and not one that is yet
\* to be added; and one window at a time changes the file, from what it is, by an
\* operation of the kinds above.
DependenciesAreRecorded ==
    \A t \in Linked(registry) :
        /\ registry[t].deps \subseteq 1 .. recorded
        /\ \A w \in Windows :
             change[w].asked.name = "add" => change[w].asked.task \notin registry[t].deps
ChangesAreOfTheFile ==
    \A w \in Windows : change[w].asked # None =>
        /\ change[w].loaded = registry
        /\ \A u \in Windows : change[u].asked # None => u = w
        /\ change[w].asked \in
             Asked \cup [name : {"add"}, task : (1 .. recorded) \ Linked(registry)]

IInv ==
    /\ TypeOK /\ ChangesAreOfTheFile /\ DependenciesAreRecorded /\ DependenciesAreAcyclic
=============================================================================
