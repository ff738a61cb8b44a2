------------------------------ MODULE TaskOrder ------------------------------
(***************************************************************************)
(* What the registry and the review queue compute from the task records: the  *)
(* dependency order (src/src/tasks.rs), the readiness of a task, and which     *)
(* selections may be previewed (src/src/ui/task_review_queue.rs and             *)
(* src/src/task_merge_preview.rs).                                           *)
(*                                                                         *)
(* The entries are a function on the tasks of one repository that are linked. *)
(* A task is its number in the order of creation; the registry keeps the       *)
(* newest first.  A dependency is the number of a task, linked or not.         *)
(***************************************************************************)
EXTENDS Naturals, Sequences, FiniteSets, FiniteSetsExt, SequencesExt

Linked(entries) == DOMAIN entries

\* resolve_dependency: the dependencies of t that still name a linked task.
Resolved(entries, t) == entries[t].deps \cap Linked(entries)
Broken(entries, t) == entries[t].deps \ Linked(entries) # {}

\* The tasks without an order: a dependency is missing, or one of its own has none. They are
\* the least set to which the loop has nothing to add.
Settled(entries, S) ==
    \A t \in Linked(entries) :
        Broken(entries, t) \/ Resolved(entries, t) \cap S # {} => t \in S
Unavailable(entries) ==
    {t \in Linked(entries) :
        \A S \in SUBSET Linked(entries) : Settled(entries, S) => t \in S}
Free(entries) == Linked(entries) \ Unavailable(entries)

\* Mutated form of Placeable: one dependency that is placed is enough.
PlaceableAny(entries, free, done) ==
    {t \in free \ done : entries[t].deps = {} \/ entries[t].deps \cap done # {}}

\* What may be placed after the tasks that are.
Placeable(entries, free, done) == {t \in free \ done : entries[t].deps \subseteq done}

IsNewest(t, tasks) == t \in tasks /\ \A u \in tasks : u <= t
Placed(order, n) == {order[i] : i \in 1 .. n}

\* dependency_order: the first task in the registry whose dependencies are placed is the
\* next, as long as there is one.
IsOrder(entries, free, order) ==
    /\ \A i \in DOMAIN order :
         IsNewest(order[i], Placeable(entries, free, Placed(order, i - 1)))
    /\ Placeable(entries, free, Range(order)) = {}
Orders(tasks) == UNION {[1 .. n -> tasks] : n \in 0 .. Cardinality(tasks)}
Ordered(entries) ==
    LET free == Free(entries) IN CHOOSE order \in Orders(free) : IsOrder(entries, free, order)

\* has_dependency_path: a search visits the least set that has its start and, with each
\* task, the task's dependencies.
Closed(entries, S) == \A s \in S \cap Linked(entries) : Resolved(entries, s) \subseteq S
Below(entries, t) ==
    {s \in Linked(entries) \cup {t} :
        \A S \in SUBSET (Linked(entries) \cup {t}) : t \in S /\ Closed(entries, S) => s \in S}
HasDependencyPath(entries, from, target) == target \in Below(entries, from)

-----------------------------------------------------------------------------
\* A completed task's own pull request was saved as merged.
SavedMerge(entry) == entry.snapshot.merged /\ entry.snapshot.url = entry.url

\* task_pull_request_is_currently_merged; shown are the tasks whose status view has a
\* merged and current snapshot.
CurrentlyMerged(entries, shown, t) ==
    \/ t \in shown
    \/ entries[t].cleaned /\ SavedMerge(entries[t])

\* task_readiness of a task, where state has that of its dependencies.
StateOf(entries, shown, state, t) ==
    IF entries[t].cleaned /\ CurrentlyMerged(entries, shown, t) THEN "delivered"
    ELSE IF \E d \in entries[t].deps : state[d] # "delivered" THEN "blocked"
    ELSE IF CurrentlyMerged(entries, shown, t) THEN "delivered" ELSE "ready"

\* The readiness of the tasks that have an order.
States(entries) == [Range(Ordered(entries)) -> {"delivered", "blocked", "ready"}]
Readiness(entries, shown) ==
    CHOOSE state \in States(entries) :
        \A t \in DOMAIN state : state[t] = StateOf(entries, shown, state, t)

\* task_has_cleaned_merged_source.
CleanedMerged(entries, t) ==
    t \in Linked(entries) /\ entries[t].cleaned /\ SavedMerge(entries[t])

\* The order the preview offers: a delivered task's own dependencies do not count.
PreviewOrder(entries) ==
    Ordered([t \in Linked(entries) |->
                IF CleanedMerged(entries, t) THEN [entries[t] EXCEPT !.deps = {}]
                ELSE entries[t]])

\* The tasks that are previewed of a selection.
OrderedTasks(entries, selected) ==
    SelectSeq(PreviewOrder(entries), LAMBDA t : t \in selected /\ ~entries[t].cleaned)

\* can_preview, where the base branch is there and nothing runs.
CanPreview(entries, selected) ==
    /\ OrderedTasks(entries, selected) # <<>>
    /\ selected \subseteq Range(PreviewOrder(entries))
    /\ \A t \in selected : ~entries[t].cleaned
    /\ \A t \in selected : \A d \in entries[t].deps \ selected : CleanedMerged(entries, d)

\* run_preview: each dependency is at an earlier position.
Accepts(entries, tasks) ==
    \A i \in DOMAIN tasks : \A d \in entries[tasks[i]].deps :
        \E j \in 1 .. i - 1 : tasks[j] = d

\* check_inputs: the order of the selected records alone.
OrderOfSelected(entries, selected) == Ordered([t \in selected |-> entries[t]])
=============================================================================
