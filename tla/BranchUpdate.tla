---------------------------- MODULE BranchUpdate ----------------------------
(* The changes this program makes to the files, the index and the branches of   *)
(* a repository (git_ops.rs): a checkout and a merge one call at a time, with    *)
(* their rollbacks, a pull, and the operations that are a single call of the Git *)
(* library.  Editors and other Git programs work on the same repository; a call  *)
(* may fail.  A commit is the set of commits its tree was merged from.           *)
EXTENDS Naturals, Sequences, FiniteSets, Functions

CONSTANTS
    Trees,          \* the trees of the commits made before, each a function of the paths
    Below,          \* the commits each of them contains
    Tips,           \* the commit each branch points at to begin with
    MaxElsewhere    \* bound on what other programs do

Paths == DOMAIN Trees[1]
Originals == DOMAIN Trees
Branches == DOMAIN Tips
Edit == 0           \* a local change, in the worktree or staged
NoCommit == {}

VARIABLES
    worktree, index, head, refs, lock,  \* the repository
    stage, op,                          \* the running operation, and what it has read
    elsewhere,                          \* what other programs may still do
    without,                            \* the repository as it would be without it
    raced                               \* whether something happened that it cannot see

repository == <<worktree, index, head, refs, lock>>
branchUpdate == <<repository, stage, op, elsewhere, without, raced>>

Contains(c) == UNION {Below[o] : o \in c}
Merged(ours, theirs) ==
    [p \in Paths |-> IF Trees[theirs][p] # Trees[1][p] THEN Trees[theirs][p]
                     ELSE Trees[ours][p]]
Conflicting(ours, theirs) ==
    \E p \in Paths : /\ Trees[ours][p] # Trees[theirs][p]
                     /\ Trees[1][p] \notin {Trees[ours][p], Trees[theirs][p]}
Original(c) == CHOOSE o \in c : TRUE
Tree(c) ==
    IF Cardinality(c) = 1 THEN Trees[Original(c)]
    ELSE LET o == CHOOSE pair \in c \X c : pair[1] < pair[2] IN Merged(o[1], o[2])

Parents(c) ==
    IF Cardinality(c) > 1 THEN {{o} : o \in c}
    ELSE {{o} : o \in {b \in Contains(c) \ c : Contains(c) \ c \subseteq Below[b]}}

Changed(a, b) == {p \in Paths : Tree(a)[p] # Tree(b)[p]}

NoOp == [kind |-> "none", branch |-> 1, from |-> 1, old |-> NoCommit, new |-> NoCommit,
         index |-> Tree(Tips[1]), clean |-> {}, restore |-> {}, torn |-> FALSE]

Here == [worktree |-> worktree, index |-> index, head |-> head, refs |-> refs]
Untouched ==
    [worktree |-> Tree(Tips[1]), index |-> Tree(Tips[1]), head |-> 1, refs |-> Tips]
NoRace == [edits |-> {}, staged |-> FALSE, moved |-> FALSE]

Init ==
    /\ worktree = Tree(Tips[1]) /\ index = worktree /\ head = 1 /\ refs = Tips
    /\ lock = "free"
    /\ stage = "idle" /\ op = NoOp /\ elsewhere = MaxElsewhere
    /\ without = Untouched /\ raced = NoRace

Ends(outcome) == stage' = outcome
Gives == lock' = IF lock = "ours" THEN "free" ELSE lock

-----------------------------------------------------------------------------
\* The reads of checkout_branch and merge_branch, up to the index.
Begin(kind, b) ==
    /\ stage = "idle" /\ refs[head] # NoCommit /\ refs[b] # NoCommit
    /\ op' = [NoOp EXCEPT !.kind = kind, !.branch = b, !.from = head, !.old = refs[head],
                          !.new = refs[b], !.index = index]
    /\ without' = Here /\ raced' = NoRace

StartCheckout ==
    /\ \E b \in Branches \ {head} : Begin("checkout", b)
    /\ stage' = "inspect"
    /\ UNCHANGED <<repository, elsewhere>>

\* A branch that is integrated already, or conflicts, ends here.
StartMerge(kind) ==
    \E b \in Branches \ {head} :
        LET ours == refs[head]
            theirs == refs[b]
            forward == ours \subseteq Contains(theirs)
        IN  /\ ours # NoCommit
            /\ Cardinality(theirs) = 1 /\ (Cardinality(ours) = 1 \/ forward)
            /\ ~(theirs \subseteq Contains(ours))
            /\ forward \/ ~Conflicting(Original(ours), Original(theirs))
            /\ Begin(kind, b)
            /\ IF forward THEN stage' = (IF kind = "merge" THEN "inspect" ELSE "pull")
               ELSE stage' = (IF kind = "merge" THEN "combine" ELSE "pullMerge")
            /\ UNCHANGED <<repository, elsewhere>>

\* The commit of a merge that is no fast-forward is made before it is checked out.
Combine ==
    /\ stage = "combine" /\ stage' = "inspect"
    /\ op' = [op EXCEPT !.new = op.old \cup op.new]
    /\ UNCHANGED <<repository, elsewhere, without, raced>>

\* clean_paths: what the update changes and the user has not.
Inspect ==
    /\ stage = "inspect"
    /\ op' = [op EXCEPT !.clean =
                  {p \in Changed(op.old, op.new) : worktree[p] = Tree(op.old)[p]}]
    /\ stage' = IF op.kind = "checkout" THEN "lock" ELSE "apply"
    /\ UNCHANGED <<repository, elsewhere, without, raced>>

\* The recheck of the index under its lock.
IndexIsRead == index = op.index

\* IndexLockFile::create, the recheck of the index, and the write of the lock file.
TakeIndexLock ==
    /\ stage = "lock"
    /\ IF lock = "free" /\ IndexIsRead THEN lock' = "ours" /\ Ends("apply")
       ELSE UNCHANGED lock /\ Ends("failed")
    /\ UNCHANGED <<worktree, index, head, refs, op, elsewhere, without, raced>>

\* A safe checkout: paths the user changed are conflicts.  A checkout refuses them, a
\* merge leaves them as they are.  It may fail with some of its files written.
Apply ==
    LET old == Tree(op.old)
        new == Tree(op.new)
        changed == Changed(op.old, op.new)
        conflicts == {p \in changed : worktree[p] \notin {old[p], new[p]}}
        Written(paths) == [p \in Paths |-> IF p \in paths THEN new[p] ELSE worktree[p]]
    IN  /\ stage = "apply"
        /\ \/ /\ op.kind = "merge" \/ conflicts = {}
              /\ worktree' = Written(changed \ conflicts)
              /\ Ends(IF op.kind = "checkout" THEN "head" ELSE "index")
           \/ \E paths \in SUBSET (changed \ conflicts) :
                /\ op.kind = "merge" \/ conflicts = {} \/ paths = {}
                /\ worktree' = Written(paths)
                /\ Ends("rollback")
        /\ UNCHANGED <<index, head, refs, lock, op, elsewhere, without, raced>>

\* set_head
SetHead ==
    /\ stage = "head"
    /\ \/ head' = op.branch /\ Ends("install")
       \/ UNCHANGED head /\ Ends("rollback")
    /\ UNCHANGED <<worktree, index, refs, lock, op, elsewhere, without, raced>>

\* index_bytes_for_tree: the entries of the changed paths come from the new tree.
TargetIndex ==
    [p \in Paths |-> IF p \in Changed(op.old, op.new) THEN Tree(op.new)[p] ELSE op.index[p]]

\* IndexLockFile::install; when it fails HEAD goes back first.
Install ==
    /\ stage = "install"
    /\ \/ /\ index' = TargetIndex /\ lock' = "free" /\ Ends("done")
          /\ UNCHANGED <<head, op>>
       \/ /\ Ends("rollback")
          /\ \/ head' = op.from /\ UNCHANGED op
             \/ op' = [op EXCEPT !.torn = TRUE] /\ UNCHANGED head
          /\ UNCHANGED <<index, lock>>
    /\ UNCHANGED <<worktree, refs, elsewhere, without, raced>>

\* What was staged before a merge stays staged over the merge's tree.
MergedIndex ==
    [p \in Paths |-> IF op.index[p] # Tree(op.old)[p] THEN op.index[p] ELSE Tree(op.new)[p]]

\* sync_index_result
SyncIndex ==
    /\ stage = "index"
    /\ \/ lock = "free" /\ index' = MergedIndex /\ Ends("ref")
       \/ UNCHANGED index /\ Ends("rollback")
    /\ UNCHANGED <<worktree, head, refs, lock, op, elsewhere, without, raced>>

\* Mutated form of HeadIsRead: only the branch is compared.
BranchIsRead == head = op.from

\* HEAD is what it was when the merge began.
HeadIsRead == head = op.from /\ refs[head] = op.old

\* ref_update_result
MoveRef ==
    /\ stage = "ref"
    /\ \/ /\ HeadIsRead /\ refs' = [refs EXCEPT ![op.from] = op.new] /\ Ends("done")
       \/ UNCHANGED refs /\ Ends("rollback")
    /\ UNCHANGED <<worktree, index, head, lock, op, elsewhere, without, raced>>

\* rollback_merge_checkout up to its checkout: what was clean and is now as written.
\* When the worktree cannot be read, everything that was clean is restored.
Rollback ==
    /\ stage = "rollback"
    /\ \/ op' = [op EXCEPT !.restore = {p \in op.clean : worktree[p] = Tree(op.new)[p]}]
       \/ op' = [op EXCEPT !.restore = op.clean, !.torn = TRUE]
    /\ stage' = "restore"
    /\ UNCHANGED <<repository, elsewhere, without, raced>>

\* The forced checkout of the rollback.
Restore ==
    /\ stage = "restore"
    /\ \/ /\ worktree' = [p \in Paths |->
                            IF p \in op.restore THEN Tree(op.old)[p] ELSE worktree[p]]
          /\ UNCHANGED op
       \/ op' = [op EXCEPT !.torn = TRUE] /\ UNCHANGED worktree
    /\ IF op.kind = "checkout" THEN Ends("failed") /\ Gives
       ELSE stage' = "restoreIndex" /\ UNCHANGED lock
    /\ UNCHANGED <<index, head, refs, elsewhere, without, raced>>

\* IndexRestore::Always writes the file itself, whoever holds its lock.
RestoreIndex ==
    /\ stage = "restoreIndex" /\ Ends("failed")
    /\ \/ index' = op.index /\ UNCHANGED op
       \/ op' = [op EXCEPT !.torn = TRUE] /\ UNCHANGED index
    /\ UNCHANGED <<worktree, head, refs, lock, elsewhere, without, raced>>

-----------------------------------------------------------------------------
\* pull has no rollback.  A fast-forward is checked out with its index, and then the branch
\* that HEAD names by now is moved.
PullForward ==
    \/ /\ stage = "pull" /\ lock = "free"
       /\ \A p \in Changed(op.old, op.new) : worktree[p] = Tree(op.old)[p]
       /\ worktree' = [p \in Paths |-> IF p \in Changed(op.old, op.new)
                                       THEN Tree(op.new)[p] ELSE worktree[p]]
       /\ index' = TargetIndex /\ stage' = "pullRef"
       /\ UNCHANGED <<head, refs, lock, op, elsewhere, without, raced>>
    \/ /\ stage \in {"pull", "pullMerge"} /\ Ends("failed")
       /\ UNCHANGED <<repository, op, elsewhere, without, raced>>
    \/ /\ stage = "pullRef"
       /\ \/ refs' = [refs EXCEPT ![head] = op.new] /\ Ends("done")
          \/ UNCHANGED refs /\ Ends("failed")
       /\ UNCHANGED <<worktree, index, head, lock, op, elsewhere, without, raced>>

\* The merge of a pull: a commit on HEAD is refused unless it is still what was merged.
PullMerge ==
    LET new == op.old \cup op.new
        changed == Changed(op.old, new)
    IN  /\ stage = "pullMerge" /\ lock = "free"
        /\ \A p \in changed : worktree[p] = Tree(op.old)[p]
        /\ worktree' = [p \in Paths |-> IF p \in changed THEN Tree(new)[p] ELSE worktree[p]]
        /\ index' = [p \in Paths |-> IF p \in changed THEN Tree(new)[p] ELSE index[p]]
        /\ op' = [op EXCEPT !.new = new] /\ stage' = "pullCommit"
        /\ UNCHANGED <<head, refs, lock, elsewhere, without, raced>>

PullCommit ==
    /\ stage = "pullCommit"
    /\ \/ /\ refs[head] = op.old /\ refs' = [refs EXCEPT ![head] = op.new] /\ Ends("done")
       \/ UNCHANGED refs /\ Ends("failed")
    /\ UNCHANGED <<worktree, index, head, lock, op, elsewhere, without, raced>>

-----------------------------------------------------------------------------
\* The operations that are one call of the library, and change files or the index.
FileOperations ==
    /\ stage = "idle" /\ elsewhere > 0 /\ refs[head] # NoCommit
    /\ LET tip == Tree(refs[head])
       IN  \/ \E p \in Paths : index' = [index EXCEPT ![p] = worktree[p]] /\ UNCHANGED worktree
           \/ \E p \in Paths : index' = [index EXCEPT ![p] = tip[p]] /\ UNCHANGED worktree
           \/ index' = worktree /\ UNCHANGED worktree
           \/ index' = tip /\ UNCHANGED worktree
           \/ \E p \in Paths : worktree' = [worktree EXCEPT ![p] = index[p]] /\ UNCHANGED index
           \/ worktree' = tip /\ index' = tip
    /\ lock = "free" /\ elsewhere' = elsewhere - 1
    /\ UNCHANGED <<head, refs, lock, stage, op, without, raced>>

\* A soft reset to the first parent leaves the files and the index alone.
Uncommit ==
    /\ stage = "idle" /\ elsewhere > 0
    /\ refs[head] # NoCommit
    /\ \E c \in Parents(refs[head]) : refs' = [refs EXCEPT ![head] = c]
    /\ elsewhere' = elsewhere - 1
    /\ UNCHANGED <<worktree, index, head, lock, stage, op, without, raced>>

\* delete_branch refuses the current branch and one that is not merged; forced, the
\* reference of an unmerged one is removed directly, unless a linked worktree has it
\* checked out.
DeleteBranch ==
    /\ stage = "idle" /\ elsewhere > 0
    /\ \E b \in Branches, force \in BOOLEAN :
         /\ refs[b] # NoCommit
         /\ \/ force
            \/ b # head /\ refs[head] # NoCommit /\ refs[b] \subseteq Contains(refs[head])
         /\ refs' = [refs EXCEPT ![b] = NoCommit]
    /\ elsewhere' = elsewhere - 1
    /\ UNCHANGED <<worktree, index, head, lock, stage, op, without, raced>>

Acknowledge ==
    /\ stage \in {"done", "failed"} /\ stage' = "idle" /\ op' = NoOp /\ without' = Untouched
    /\ raced' = NoRace
    /\ UNCHANGED <<repository, elsewhere>>

-----------------------------------------------------------------------------
\* What others do is done to the repository, and would be without the operation.
Also(w) == without' = IF stage = "idle" THEN without ELSE w
Races(r) == raced' = IF stage = "idle" THEN raced ELSE r

EditFile(p) ==
    /\ elsewhere > 0 /\ worktree[p] # Edit
    /\ worktree' = [worktree EXCEPT ![p] = Edit]
    /\ Also([without EXCEPT !.worktree[p] = Edit])
    /\ raced' = IF stage = "restore" THEN [raced EXCEPT !.edits = @ \cup {p}] ELSE raced
    /\ elsewhere' = elsewhere - 1
    /\ UNCHANGED <<index, head, refs, lock, stage, op>>

StageElsewhere ==
    /\ elsewhere > 0 /\ lock = "free"
    /\ \E p \in Paths :
         /\ worktree[p] = Edit /\ index[p] # Edit
         /\ index' = [index EXCEPT ![p] = Edit]
         /\ Also([without EXCEPT !.index[p] = Edit])
    /\ Races([raced EXCEPT !.staged = op.kind # "checkout"])
    /\ elsewhere' = elsewhere - 1
    /\ UNCHANGED <<worktree, head, refs, lock, stage, op>>

\* Another program commits on a branch, or switches to one with the same files.
MoveElsewhere ==
    /\ elsewhere > 0
    /\ \/ \E b \in Branches, o \in Originals :
            /\ refs[b] \subseteq Contains({o}) \ {o} /\ refs[b] # NoCommit
            /\ refs' = [refs EXCEPT ![b] = {o}]
            /\ Also([without EXCEPT !.refs[b] = {o}])
            /\ UNCHANGED head
       \/ \E b \in Branches \ {head} :
            /\ head' = b /\ Also([without EXCEPT !.head = b]) /\ UNCHANGED refs
    /\ Races([raced EXCEPT !.moved = TRUE])
    /\ elsewhere' = elsewhere - 1
    /\ UNCHANGED <<worktree, index, lock, stage, op>>

LockElsewhere ==
    /\ \/ lock = "free" /\ elsewhere > 0 /\ lock' = "other" /\ elsewhere' = elsewhere - 1
       \/ lock = "other" /\ lock' = "free" /\ UNCHANGED elsewhere
    /\ UNCHANGED <<worktree, index, head, refs, stage, op, without, raced>>

Checkout == StartCheckout \/ TakeIndexLock \/ SetHead \/ Install
Merge == StartMerge("merge") \/ Combine \/ SyncIndex \/ MoveRef \/ RestoreIndex
Either == Inspect \/ Apply \/ Rollback \/ Restore
Pull == StartMerge("pull") \/ PullForward \/ PullMerge \/ PullCommit
Single == FileOperations \/ Uncommit \/ DeleteBranch \/ Acknowledge
Elsewhere ==
    (\E p \in Paths : EditFile(p)) \/ StageElsewhere \/ MoveElsewhere \/ LockElsewhere

Next == Checkout \/ Merge \/ Either \/ Pull \/ Single \/ Elsewhere

Spec == Init /\ [][Next]_branchUpdate

-----------------------------------------------------------------------------
Files == [Paths -> Nat]
Commits == SUBSET Originals

Operations ==
    [kind : {"none", "checkout", "merge", "pull"}, branch : Branches, from : Branches,
     old : Commits, new : Commits, index : Files, clean : SUBSET Paths,
     restore : SUBSET Paths, torn : BOOLEAN]

\* The stages of each kind of operation.
StageOK ==
    /\ op.kind = "none" => stage = "idle"
    /\ op.kind = "checkout" =>
         stage \in {"inspect", "lock", "apply", "head", "install", "rollback", "restore",
                    "done", "failed"}
    /\ op.kind = "merge" =>
         stage \in {"combine", "inspect", "apply", "index", "ref", "rollback", "restore",
                    "restoreIndex", "done", "failed"}
    /\ op.kind = "pull" =>
         stage \in {"pull", "pullMerge", "pullRef", "pullCommit", "done", "failed"}

OpOK == op \in Operations

RepositoryOK ==
    /\ worktree \in Files /\ index \in Files
    /\ head \in Branches /\ refs \in [Branches -> Commits]
    /\ lock \in {"free", "ours", "other"} /\ elsewhere \in 0 .. MaxElsewhere
    /\ lock = "ours" =>
         /\ op.kind = "checkout"
         /\ stage \in {"apply", "head", "install", "rollback", "restore"}

WithoutOK ==
    without \in [worktree : Files, index : Files, head : Branches,
                 refs : [Branches -> Commits]]

RacedOK == raced \in [edits : SUBSET Paths, staged : BOOLEAN, moved : BOOLEAN]

TypeOK == StageOK /\ OpOK /\ RepositoryOK /\ WithoutOK /\ RacedOK

\* A failed checkout or merge leaves the repository as it would be without it, with what
\* others did to it in the meantime, unless a restoring call failed too.  What it cannot
\* see is a file edited just before the forced checkout of its rollback, what was staged
\* while a merge was running, and where HEAD went between its two changes of it.
Undone ==
    stage = "failed" /\ op.kind \in {"checkout", "merge"} /\ ~op.torn =>
        /\ \A p \in Paths \ raced.edits : worktree[p] = without.worktree[p]
        /\ raced.staged \/ index = without.index
        /\ refs = without.refs
        /\ raced.moved \/ head = without.head

\* One that succeeds leaves every local change in place, staged or not, and no branch
\* without a commit it had.
LocalWorkIsKept ==
    stage = "done" /\ op.kind \in {"checkout", "merge"} =>
        /\ \A p \in Paths : without.worktree[p] = Edit => worktree[p] = Edit
        /\ \A p \in Paths \ (IF op.kind = "checkout" THEN Changed(op.old, op.new) ELSE {}) :
             without.index[p] = Edit => raced.staged \/ index[p] = Edit
        /\ \A b \in Branches : without.refs[b] \subseteq Contains(refs[b])

UpdateIsWholeOrUndone == Undone /\ LocalWorkIsKept

\* What it rests on, of a running checkout or merge.
Old == Tree(op.old)
New == Tree(op.new)
Updated == Changed(op.old, op.new)
Untried == {"combine", "inspect", "lock", "apply"}
Undoable == op.kind \in {"checkout", "merge"}

\* What was clean still is, or was edited; a merge is of two commits, and its new one has
\* the old one.
InputsAreRead ==
    /\ op.kind # "none" => op.old # NoCommit /\ op.new # NoCommit
    /\ stage \in {"combine", "inspect"} => op.clean = {}
    /\ Undoable => /\ op.clean \subseteq Updated
                   /\ \A p \in op.clean : without.worktree[p] \in {Old[p], Edit}
    /\ op.kind = "merge" /\ stage # "combine" => op.old \subseteq Contains(op.new)

\* A file is as it would be without the operation, or clean and written.
Written(p) == p \in op.clean /\ worktree[p] = New[p] /\ without.worktree[p] = Old[p]

FilesAreWritten ==
    Undoable =>
    /\ stage \in Untried => worktree = without.worktree
    /\ stage \in {"lock", "apply"} => \A p \in Updated \ op.clean : worktree[p] # Old[p]
    /\ stage \in {"head", "install", "index", "ref", "rollback", "done"} =>
         \A p \in Paths : worktree[p] = without.worktree[p] \/ Written(p)
    /\ stage = "restore" /\ ~op.torn =>
         \A p \in Paths \ raced.edits : IF p \in op.restore THEN without.worktree[p] = Old[p]
                                       ELSE worktree[p] = without.worktree[p]
    /\ stage \in {"restoreIndex", "failed"} /\ ~op.torn =>
         \A p \in Paths \ raced.edits : worktree[p] = without.worktree[p]

\* A checkout holds the index from where it compares it to where it replaces it.
IndexIsHeld ==
    op.kind = "checkout" =>
    /\ stage \in {"apply", "head", "install", "rollback", "restore"} => lock = "ours"
    /\ stage \in {"apply", "head", "install"} => index = op.index
    /\ stage # "done" => index = without.index
    /\ stage = "done" =>
         \A p \in Paths \ Updated : without.index[p] = Edit => index[p] = Edit

\* A merge does not, and undoes what it replaced.
IndexIsMerged ==
    op.kind = "merge" /\ ~raced.staged =>
    /\ op.index = without.index
    /\ stage \in Untried \cup {"index"} => index = op.index
    /\ stage \in {"ref", "done"} => index = MergedIndex
    /\ stage = "failed" /\ ~op.torn => index = op.index

HeadIsSet ==
    Undoable /\ ~raced.moved =>
    /\ without.head = op.from
    /\ stage \notin {"install", "done"} /\ ~op.torn => head = without.head

RefsAreMoved ==
    Undoable =>
    /\ stage # "done" => refs = without.refs
    /\ stage = "done" => \A b \in Branches : without.refs[b] \subseteq Contains(refs[b])

IInv ==
    /\ TypeOK /\ InputsAreRead /\ FilesAreWritten /\ IndexIsHeld /\ IndexIsMerged
    /\ HeadIsSet /\ RefsAreMoved
=============================================================================
