# GitManager: a TLA+ specification

GitManager is a desktop program of two halves: a Git client, with tasks that run
in worktrees of their own, and "My tools", small business programs that an
external provider generates from a description and that live in folders on disk.
The modules here model the parts whose correctness rests on the order of steps:
of two windows, of a window and its worker, of a write and the crash after it.
Paths below are relative to `src/src/`; `PROJECT.json` maps every definition to
the lines it stands for, lists the hazards of the code with the properties aimed
at them, and names a mutant of the code for every property.

## 1. Inventory

### Generated tools

| Part | State | Operations | Interacts through |
|---|---|---|---|
| Store (`product_store/`) | a tool folder: content-named snapshot objects, the pointer `CURRENT`, intention objects, a lock file | create, load, apply an input, stage and adopt a change, upgrade | files and an advisory lock, shared by every process |
| Panel (`product_studio.rs`) | page, session, epoch, pending command, kept-back click, closing flag | send a click, poll, cancel, close | two channels of one message, and the gate of a command |
| Worker (`product_studio/worker.rs`, `*_worker.rs`) | the open tool, the page, the restart record, a provider job | one handler per command | channels, gate, store, record, provider job |
| Restart record (`product_studio/journal*.rs`) | `session.json`: unfinished save, provider request, history of recoveries and file attempts | read at start, write, retry, set aside, upgrade | one file, replaced by rename |
| Provider jobs (`product_provider/`) | a job folder: request, receipt, result; a process group; a thread | prepare, disclose, issue, submit, poll, cancel, reconcile, clear | thread, process, files, record |
| Adoption, decisions, discovery (`product_store/scope`, `product_decisions`, `product_discovery`, `product_studio/change*.rs`, `*_flow.rs`) | a tool's layers of changes, binding intentions, the cases under review | stage, rehearse, adopt, withdraw, recover | the store |
| Backups, locations, file attempts (`product_backup.rs`, `product_locations.rs`, `product_studio/local_files*`) | checkpoints, reservations, recent tools, recorded attempts | back up, open verified, export, recover | files, record |
| Task source (`product_sources/`, `product_studio/task_source*`) | a link to a worktree's task, what was handed over | link, poll, hand over, accept | files, external program |
| Runtime and contracts (`product_runtime/`, `product_contract.rs`, ...) | none (pure) | evaluate, validate, encode | called by all of the above |
| Order tool (`tool_*.rs`) | an order-handling tool of an older format, with its store | commit, load, propose, decide | files, a process-wide lock |

### Git client

| Part | State | Operations | Interacts through |
|---|---|---|---|
| Repository operations (`app.rs`, `git_ops.rs`) | repository and operation generations, the operations pending, the confirmation shown, the cleanup in preparation, the lists | open, start, search, clone, preview, confirm, poll, time out, record a cleanup | one channel per thread, git, the task registry |
| Worktree removal (`git_ops.rs`, `app.rs`) | the directory, its staging name, git's `locked` entry and ref locks, the listed identity and commit | list, preview, confirm, lock, rename aside, delete, put back, prune | the file system and git's metadata, shared with editors and other git commands |
| Updater (`updater.rs`, `app.rs`) | update state, request generation, cancel flag | check, dismiss, download, install | threads, shared state |
| Tasks and verification (`tasks.rs`, `task_*.rs`) | registry file and locks, run locks, fingerprints | create, run, record, merge preview, deliver | file, locks, processes |
| Review queue, recent repositories, panels | classification, a bounded list, layout | derive, add, draw | the above |

### What is hard here

* A load takes no lock: it reads `CURRENT` and then the object it names, while
  another process saves.
* A rename may have happened although the call that made it failed, and may be
  lost although the call saw it: every durable write is rename, then directory
  sync, and only the second decides.
* Panel, worker, job thread and provider process run concurrently and may each
  die alone. A save that was sent cannot be unsent, so "cancelled" has to be
  decided by one gate that both sides contend for.
* A worktree is deleted on the strength of what was listed, previewed and
  confirmed, one system call after another, in a directory that editors and git
  commands go on using.
* After a crash only files remain, and they may be older than what was read
  from them before.

What makes each part correct: the store loses no acknowledged save, shows no
partial one, and applies an operation once. The panel has one command at a
time, passes none over, and its answers are true. The record keeps whatever is
of unknown outcome. At most one provider request is alive, and nothing an
abandoned one writes is accepted. A background result is applied to the
repository and request it was started for. A removal deletes only what was
confirmed, respects everybody else's lock, and puts back what it cannot finish.
The registry loses no change of another window, a task passes only on the source
that is shown, and a checkout or merge that fails is undone. An upgrade is whole or
has not happened; a recovered tool is apart from its original; what was written
outside or handed to an author is known or recorded. What the owner decided stays
binding, and a change of some records leaves the others alone. What is left out is
listed in sections 6 and 7.

## 2. Modules

| Module | Models | Extends / instantiates |
|---|---|---|
| `ProductStore` | the store: several handles in several processes, lock, staging, object, pointer, syncs, crash and power loss | |
| `AtomicStore` | what the store promises: one history, grown by whole saves, each operation once | |
| `MCProductStore` | constants and symmetry for TLC | `ProductStore` |
| `StudioSession` | panel, worker, channels, gates, epochs | |
| `CancellableRequests` | what the session promises: a request is answered once, and cancelled means unsaved | |
| `RestartRecord` | one durable file written by rename and sync: disk, what may survive, the writer's memory, blocked | |
| `StudioJournal` | saves and their unfinished associations over crashes | `RestartRecord` |
| `ProviderJob` | a provider request from disclosure to its result | `RestartRecord` |
| `WorktreeRemoval` | a worktree's removal, one system call at a time, beside everybody else | |
| `RepositoryOperations` | the window's background operations, their time-outs and late answers, and a task's cleanup through four of them | |
| `UpdateRequests` | checks, downloads and installations of the program, and the script that replaces it | |
| `TaskOrder` | pure functions: the dependency order, the readiness of tasks, which selections may be previewed | |
| `TaskRegistry` | the registry file: each operation under its lock, on the file as it is | `TaskOrder` |
| `TaskVerification` | a task's verification: run lock, record, fingerprints, process, the result shown | |
| `CombinedVerification` | the merge preview's worker, the verification of its tree, and what a frame keeps of both | |
| `TaskDelivery` | a task's pull request in one window, and the freshness it shows | |
| `BranchUpdate` | checkout and merge with their rollbacks, pull, and operations of a single call | |
| `MCGitClient` | the six modules above as parts of one instance for TLC | instantiates them |
| `JournalUpgrade` | the restart record's upgrade at the start of a host | |
| `FolderUpgrade` | a folder's upgrade, in place or from an old backup, beside hosts that save | |
| `ToolInstances` | recent tools and checkpoint shelves: registering, capturing, recovering, moving | |
| `FileAttempts` | exports, backups and recoveries outside the tool, and their entry in the record | |
| `TaskHandoff` | a task as the source of a tool: link, request, author, completion, review | |
| `OrderStore` | the order tool's folder and the saves its windows retain | |
| `RuleDecisions` | the order tool's rule changes, their scopes and withdrawals | |
| `OrderRecords` | the order tool's records, their histories and scenarios | |
| `ChoiceDiscovery` | which suspicions about an edit become questions | |
| `ScopedChanges` | changes of some records: layers, their populations, compiled programs | |
| `IntentionDecisions` | what the owner decided: scenes, mappings, renames, rehearsals at every adoption | |
| `ToolFiles` | the six modules `JournalUpgrade` to `OrderStore` as parts of one, with what is proved of them | instantiates them |
| `MCToolFiles` | `ToolFiles` and the five modules `RuleDecisions` to `IntentionDecisions` as parts of one instance for TLC | `ToolFiles`, instantiates the others |
| `ProductStoreProofs`, `StudioSessionProofs`, `StudioJournalProofs`, `ProviderJobProofs`, `WorktreeRemovalProofs`, `RepositoryOperationsProofs`, `GitClientProofs`, `ToolFilesProofs` | theorems | the module of that name, or `MCGitClient`, `ToolFiles` |

The union modules run one part in each behaviour: `part` says which, the
variables `v1`, `v2`, ... are those of the part's module in their order, and each
invariant of the union is that of the part that runs. `MCToolFiles` has every
behaviour of `ToolFiles` among its own. The parts share no state in
the code either, or only through the store and the record, which have modules of
their own.

`PROJECT.json` maps definitions to source lines. A helper whose lines are among those
of the definitions that use it is not listed there, nor are types and invariants.

The modules say in comments which function each action is; what follows is how
state and actions correspond to the code.

**ProductStore.** A *handle* is one call into the store in one process; its `pc`
walks the call: lock, read `CURRENT`, read the object, look for the receipt,
compute, publish the object (rename, sync), publish `CURRENT` (rename, sync).
Loads take the same reads without the lock. `files` and `current` are what every
process sees; `disk` is what was synced, and `unsynced` the renames since, of
which a power loss keeps a prefix (`OrderedRenames`) or any subset. A snapshot
is its revision and its receipts: its data are a function of those. Any step may
return an error (`Abort`); a failed sync is an `Abort` after the rename.

**StudioSession.** One action per thing a thread does between two accesses to
shared state. The panel's actions are `issue`, `poll`, `cancel`, `close` and
drop; the worker's are the stations of `run` and of a handler: take, check, run,
gate, commit, apply, verify, finish, answer. The gate's transitions are one
compare-and-exchange each, and its `cancelled` flag is set a step later (`Flag`).
The commands are grouped by what the session can tell apart: one that saves
(`Daily`), one that shows what it opened after its gate is finished (`Open`), one
that shows it before and is cleared on cancellation (`Prepare`), the source poll,
the boot and the close.

**RestartRecord, StudioJournal.** `disk`, `lasting`, `value`, `blocked` are the
file, what a power loss may leave of it, `JournalFile.value` and
`unresolved_write`. `StudioJournal` runs a save through it: record, gate, commit,
read back, take off the record, answer; then the restart, where a recorded save
is only inspected, and the user's retry or set-aside. Another host may save to
the same tool at any time. The sync of any save may fail after its rename
(`product_store/files.rs:347`): the snapshot is then read as it is, a power loss may
take it back (`left`), and `doubted` (a ghost) are the saves of which this is so.

**ProviderJob.** The worker's stations (disclose, issue, submit, poll, join,
reconcile, retain, clear, and check and resolve after a restart), the job's
thread (launch, collect or kill, publish), and the process, which outlives a
crashed host. `receipt` and `stable` are `receipt.json` and what a power loss may
leave of it.

**WorktreeRemoval.** A directory is a number that stands for its file identity
and the link in its `.git` entry; `path` and `staging` are what lies under the
worktree's name and under the name it is renamed to, `linked` the directories
whose entry leads to the worktree's metadata, `edited` those with work not
committed. `listedLink`, `link` and `seen` are the identity and the commit as
they travel from the list through the preview to the command. The thread's
actions follow `remove_worktree_with_identity` and `remove_worktree_directory`
call by call; `attempt`, `held` and `verified` are the locals of the in-place
deletion used where the rename is refused. Each step may fail, and the thread may
be killed before any. `Elsewhere` is everybody else: editors, commits, `git
worktree lock`, `unlock` and `prune`, a directory deleted or put at the path.

**RepositoryOperations.** The window's thread draws a frame in which the user
acts, and then visits what is pending (`process_pending_ops`). `stage` says where
in the frame it is and `visit` which operation it holds. A user's action is one
TLA+ action per method of `App` that starts something (`Opens`, `Mutates`,
`Clones`, `Searches`, `Asks`, the previews, `Confirms`, `Cancels`); a visit is one
action per branch: waiting, a time-out, an answer (`Receives`, then `Succeeds`,
`Fails` or one per kind of result), a worker that died (`Dies`). A *slot* is an
entry of `pending_ops` with the worker's thread behind it: operation, generations
it was started in, elapsed limit, and the result its channel may hold. What one
method does in one call (cancel the dialog, start an operation, take the task's
context) is one step, through the operators named for the calls (`Starts`,
`DropsLaunch`, `TakesContext`). A task has the version that was read, the version
in the registry and the one a context carries; a worktree is there or not, and its
listing is a fact of the moment the worker read it. Other windows and programs
change both at any time (`ChangesWorktree`, `EditsTask`).

**UpdateRequests.** `generation` is the counter a request takes, `thread` what each
request's thread is doing, and `answered` (a ghost) whose answer the window shows;
`archive`, `extracted`, `staged` and `program` are files that a stopped step may
leave `Torn`. The script that replaces the program runs after the window has gone.

**TaskOrder, TaskRegistry.** A record is its task's dependencies, link, cleanup and
pull request. Each operation is one step on the file as it is, which is what its
lock makes of it; `recorded` and `change` remember the step before, so that an
action property can compare them. What a loop or a search of the code computes is
stated by what it ends with: the order is the one sequence in which each next task is
the newest of those that may be placed (`IsOrder`), the tasks below a task are the
least set the search is closed in (`Below`), and the readiness is the function that
agrees with its own equation (`StateOf`).

**TaskVerification.** `holder` is the run lock and `runs` the number of runs so
far; `run`, `reading`, `outcome` and `process` follow a worker from its lock to its
result; `probe` is a window's reading of the fingerprint, `own` the run it started.
A source is the contents of its parts (files, index, HEAD), and a fingerprint is
those contents, each part as it was at some moment of the read: it says nothing of
when. An edit may change a part or put it back to what it was, and then the
fingerprint is the earlier one again. `came` (a ghost) are the parts that were put
back to what the run is bound to.

**CombinedVerification, TaskDelivery.** A worker's reads are one step each, and
base, sources and tasks change between them, to new contents or back to earlier
ones; a frame compares the contents it keeps with those it sees. The selection in
dependency order is its tasks and which of them is before which; `left` holds the
reads a check has still to make, and `held` (a ghost) those that would have agreed at
some moment since the last command ended. A source is one part here, read at once.
A worktree's tree is a number, odd when it has uncommitted changes; a fingerprint
whose thread ran beside an edit may be of any tree. `reads` (a ghost) says whether
a snapshot's thread found the source where its fingerprint says, or elsewhere, or
elsewhere with those contents put back since.

**BranchUpdate.** Files, index, HEAD and branches are functions on two paths and
three commits; `stage` is the next call of a checkout or merge, `op` what it has
read, and `without` (a ghost) what the repository would be had the operation never
begun, with everything that editors and other programs do meanwhile.

**JournalUpgrade, FolderUpgrade.** A name on disk is what every host sees, and what
a power loss may leave of it (`recordLasting`, `left`, `lasting`). A host walks the
stages under the lock of the folder and may end, fail or lose power at each.

**ToolInstances.** `index` is `recent-tools.json`, `shelf` the checkpoints of each
instance, `at` where each folder is: the user moves folders, and two spellings may
name one place. Identifiers are drawn in order and never twice.

**FileAttempts, TaskHandoff.** `record`, `recordLeft`, `value` and `blocked` are the
restart record as in `RestartRecord`, cut to the part they are about. The one
follows an export, a backup or a recovery through staging, gate, last check, rename
and readback; the other a request from consent to its author's completion, with the
author's command in another process and a `fate` (a ghost) for each request. That
process outlives a host that is started again, but not a power loss, which may take
any file of a job folder whose directory was not synced, `complete.json` alone
(`product_sources/handoff.rs:249`) or the folder with it (`Lasting`); `submitted` (a
ghost) is what was published last for a request.

**OrderStore, RuleDecisions, OrderRecords.** `OrderStore` walks the publication of a
project and of its saves call by call; in the other two a save is one step.
`RuleDecisions` follows a preview to its confirmation while other windows save;
`OrderRecords` computes a record's state in the three ways the code does.

**ChoiceDiscovery.** A search takes suspicions in turn, runs the programs on their
scenes within a budget, and makes the difference smaller before it is asked.

**ScopedChanges, IntentionDecisions.** A layer is a rule with its population at one
slot of the program; a decision is a set of scenes with what was seen, and the
mappings of later adoptions. One action prepares an adoption, another adopts what
was prepared, and the tool may have been changed between the two.

## 3. Runs

| Run | Question | Bounds |
|---|---|---|
| `store_saves` | two processes save and adopt with a power loss: one history, each operation once, acknowledged saves kept, activated snapshots whole; refines `AtomicStore` | 2 handles, 2 operations, 2 revisions |
| `store_unordered` | the same, on a file system that reorders renames between syncs: violated | as above |
| `session_requests` | one command at a time, none passed over, each answered while the worker lives, closed stays closed; refines `CancellableRequests` | 4 commands with the boot, 1 close, worker may panic |
| `journal_restarts` | the record is coherent and keeps what is unknown; answers are true across restarts | 2 saves of any kind, 2 boots, 2 retries, 3 revisions |
| `provider_ends` | one live request, recorded; nothing late, nothing cancelled accepted; a sent request ends | 2 requests of any kind, any number of crashes and power losses |
| `provider_cancelled` | accepted cancellation wins, as its README says: violated | 1 change request |
| `worktree_removal` | only what was previewed is deleted, only the commit shown is pruned, locks are respected, failures put back | 2 directories, 1 commit, 2 removals, both builds |
| `worktree_edits` | a regular removal discards no uncommitted work, as its comment says: violated | 1 directory, 1 removal |
| `repository_operations` | one operation at a time, what is shown and confirmed is current, searches in order, cleanups recorded only when true, and each that was asked for comes to its dialog or ends | 2 operations at once, 2 repositories opened, 2 search requests, 2 versions of the task |
| `git_client` | updates, registry, verification, preview and combined verification, delivery, checkout and merge, one in each behaviour | 2 windows, 2 releases, 3 requests, 3 tasks, 2 runs on a source of 2 parts, 2 edits |
| `task_preview` | the queue offers only previews that are not refused for what it shows, as its text says: violated | 3 tasks |
| `tool_files` | the eleven parts of `MCToolFiles`, one in each behaviour; those with several bounds as several parts | 2 hosts, 2 folders, 1 or 2 power losses; the rest in the module and its cfg |

Why the bounds are enough to be of interest. Two handles are the two sides of
every race in the store; two operations allow a retry beside a competing save,
and two revisions a save that meets another one. Four commands let a click be
kept back behind a poll, cancelled, closed over and followed by another. Two
saves, two boots and two retries reach an unfinished save that another save has
overtaken, a retry of it, and a crash in that retry. Two directories are a worktree
and what replaces it, and two removals a failed or killed one and its repetition
over what that left. Two operations at once are an operation beside a search, or a
search beside the one that replaces it; a second repository is what a late answer
can be wrong for. Three update requests are one that downloads, one that is late
and one that is current; three tasks a prerequisite, its dependent and a bystander.
Two edits are one that is made and put back, or one before and one after a check;
two parts are one that changes beside one that does not. In the registry two of the
tasks may be linked to pull requests of their own; in the combined verification the
records have two versions.
Two power losses let an upgrade fail in the recovery from a failure. Two folders, two
spellings of one path and two instances are a tool and its recovered copy where a
moved folder was; two attempts are one of unknown outcome and the next; two
versions of a worktree one that is submitted and one that is not. In the parts on
rules, scopes and intentions, two changes are what it takes for one to be
superseded, withdrawn or carried to another program by the other, and each
instance varies one thing more: fields, slots, days, renames, scopes, windows.

Deadlock is not checked in `worktree_removal` (a removed worktree whose path stays
empty has nothing left to happen to it), nor in the two unions, whose bounds stop
them. The theorems below do not depend on the values of the bounds.

**Fairness.** `StudioSession.FairSpec` assumes that the worker's thread runs and
that the panel polls, which `repaint_after` requests while a command is pending.
`ProviderJob.FairSpec` assumes that the worker and the job's thread run and that
the deadlines of the process runner and of the waiting worker pass; nothing is
assumed of the provider. `RepositoryOperations.FairSpec` assumes that frames
follow one another, which the repaint requested while an operation is pending
justifies, and that a worker which only reads the local repository ends; nothing
is assumed of the network or the user. The session's and the provider's liveness
properties except what the code does not recover from: a worker that panics
leaves its panel busy, because the panel reads a disconnected channel as an empty one.

**The four violations** are disagreements of the code with its own text, quoted
in `PROJECT.json` under `findings`. A save that finds its object already there
does not sync the directory before it renames `CURRENT`. A cancellation of a
provider's request is accepted although the receipt it lost to has been renamed, if
the sync after that rename failed; the next check of the request takes the answer. A
regular removal looks for uncommitted work before it renames the directory and not
after: what an editor saves in between is deleted with it; what does hold
(`GuardedWorkIsKept`) is that work which was there when the removal took its lock
is never deleted. And the review queue lets a merged and cleaned-up prerequisite be
left out of a selection, which the preview then refuses because it is missing.

## 4. Proofs

Each theorem holds for all values of the constants that satisfy the module's
`ConstantsAssumption` or `BoundsAssumption`, and all rest on one inductive invariant
per component, named `IInv` and proved in three parts (initially, preserved by each
action, implies the property).

| Theorem | Says |
|---|---|
| `ProductStoreProofs!TypeCorrect`, `ViewsCorrect`, `AtMostOnceCorrect`, `SavesCorrect`, `AcknowledgedCorrect`, `ActivationCorrect` | every property of `store_saves`, for any number of processes, operations and revisions |
| `ProductStoreProofs!Refinement` | the store implements `AtomicStore` |
| `StudioSessionProofs!TypeCorrect`, `OneAtATimeCorrect`, `NothingSkippedCorrect`, `CancelledCorrect`, `AnswersCorrect`, `ClosedCorrect`, `IdleCorrect`, `AgreementCorrect` | the session's invariants, for any number of commands and closes |
| `StudioSessionProofs!Refinement` | the session implements `CancellableRequests` |
| `StudioJournalProofs!TypeCorrect`, `CoherenceCorrect`, `RecordedCorrect`, `RecordCorrect`, `AnswersCorrect` | every property of `journal_restarts`, for any number of saves and restarts |
| `ProviderJobProofs!TypeCorrect`, `AccountedCorrect`, `NotSentAgain` | the safety of `provider_ends`, for any number of requests, crashes and power losses; and that no request is sent twice |
| `WorktreeRemovalProofs!TypeCorrect`, `GuardedCorrect`, `RestoresCorrect`, `PreviewedCorrect`, `PrunedCorrect`, `LocksCorrect`, `RegisteredCorrect`, `KeptCorrect`, `AsShownCorrect`, `OwnLockCorrect` | every property of `worktree_removal`, invariants and action properties, for any number of directories, commits and removals |
| `RepositoryOperationsProofs!TypeCorrect`, `OneAtATimeCorrect`, `DialogCorrect`, `CurrentCorrect`, `ContextCorrect`, `DialogStaysTrueCorrect`, `SearchesCorrect`, `CleanedCorrect`, `LaunchesCorrect`, `TrackedCorrect`, `NothingReplacedCorrect` | the safety of `repository_operations`, for any number of slots, repositories, requests and versions |
| `GitClientProofs!UpdatesCorrect`, `ChangesCorrect`, `PassedCorrect`, `CurrentCorrect`, `UpdateCorrect` | the properties of `git_client` on updates, registry, verification, delivery, checkout and merge, for any number of windows, releases, requests, runs and edits |
| `GitClientProofs!OrderCorrect` | the dependencies of the registry's tasks, their order and their readiness, for any number of windows and tasks |
| `GitClientProofs!CombinedCorrect`, `TypeCorrect` | the combined verification, for any number of edits and the two versions of the records in `MCGitClient`; the types of all its parts |
| `ToolFilesProofs!FilesTypeCorrect`, `UpgradesCorrect`, `RecoveriesCorrect`, `OutcomesCorrect` | the types of the six parts of `ToolFiles`, and the properties of `tool_files` on upgrades, recent tools, file attempts, the hand-over of tasks and the order tool's saves, for any number of hosts, folders, revisions, operations, attempts, requests, moves and power losses |

*ProductStore.* The properties speak of what is visible; they are kept because
of what each call holds in its hands. `IInv` adds that whoever is past the lock
holds it, that its basis is `CURRENT`'s snapshot and its next snapshot that
basis's successor, and that `CURRENT`, every pointer a power loss may bring back,
every view and every load in progress are linear and prefixes of one another.
That an acknowledged save is kept follows from where its snapshot is when the call
returns; that an activated snapshot is whole, from what a writer has synced before
it renames `CURRENT`, and this needs renames that last in order.

*StudioSession.* The answers are true because gate, store and worker agree: `IInv`
ties each station of the worker to the state of its command's gate and to
whether it is saved (`Gates`, `Handling`), the two channels and the panel's
pending slot to each other (`Slots`, `Sending`), and the page on screen to the
worker's (`Views`).

*StudioJournal.* `IInv` adds where an operation handed to the store is recorded
at each station (`Working`, `Launched`), which is what makes "unfinished" survive
a crash at that station, and that an answer about to be given is what the store
holds.

*ProviderJob.* A process is accounted for because the record is written before it
is started and cleared only when the job has ended: `IInv` ties the worker's
station, the thread, the process and the gate of one request to the record and to
what may be left of it.

*WorktreeRemoval.* Each property holds because of what the thread knows at the
station where it could break, and `IInv` says what that is: from the comparison
to the prune the ref locks are held and `HEAD` is as shown (`Shown`); the `locked`
entry is the removal's own, and the metadata kept, from the moment it is made
(`Holding`); no directory is at both names and a deleted one at neither
(`Places`); past the second look for changes, the work that was there when the
entry was made is in no directory that may be deleted (`Unguarded`); and at every
station what still has to be put back or unlocked is known to the thread (`Owed`).

*RepositoryOperations.* No property is inductive, because what a frame does with
an answer depends on what was pending when it was asked. `IInv` says which slots
may be occupied together (`Alone`: besides one operation only searches), how
slots, numbers and answers fit (`Pending`, `Answers`: an answer is of the kind
its operation asks for, and no number is ahead of the window's), that a
confirmation excludes what would change its subject (`Modal`), and how far a
cleanup is on its way from the request to the record: a launch that is ready has
the list it waited for, and a task's context is there only beside its removal
(`Cleanups`, `ContextHasRemoval`). That a recorded cleanup is a true one follows
at the two steps that record it, with `Answers` for what a success can mean.

*GitClient.* Updates: the request that downloads is the last one, and its state is
shown (`DownloadIsLast`), so an older thread can neither write the archive nor move
the state; no file but a stopped script's copy is torn (`FilesAreWhole`).
Verification: a worker from its lock to its result holds the run lock
(`WorkersAreHeld`); a part that is as it was when the run was bound, and has not been
put back to that since, has been nothing else for the run (`RunsAreOfTheirTime`), and
so it is with a part that a probe has seen that way (`ProbesAreOfTheirTime`). A
fingerprint that agrees speaks for every part but those put back. Delivery: a
fingerprint that counts is of the source as it is, unless a change is still to be
reported (`FingerprintsCount`), and a snapshot that says "current" was compared with
the source it was asked for, unless its thread found that source elsewhere
(`SnapshotsAreCompared`), which a fingerprint that counts denies as long as nothing
is put back. Checkout and
merge: at each stage, files, index, HEAD and branches are what was read or what the
stage before wrote, except where somebody else has written since. Registry: no
dependency is on a task that is yet to be added, and none closes a cycle
(`DependenciesAreRecorded`, `DependenciesAreAcyclic`): one is added only to the file it
was checked against, since one window at a time changes it (`ChangesAreOfTheFile`).
That the order is complete and right follows from this alone. It is found, because a
sequence of tasks without repetition is no longer than their number; if it left a task
out, one of those with the fewest tasks below it would still be placeable; and of what
is placed at any moment, the part in a selection is what is placed of the selection. Combined
verification: what differed from the captured inputs when the last command ended,
and has not been put back since, is among the reads the last check has still to make
(`ChangesAreFound`), so that a check which finds no difference has seen every input as
captured at some moment after that command (`SentIsReal`). For the records this needs
that no two of their versions agree in what is compared; the theorem is about the two
versions `MCGitClient` gives, which differ in order, links and commands.

*ToolFiles.* The record's upgrade: the backup lasts before anything but the original
may be left in the record's place (`BackupIsFirst`), which the lock makes true from
the backup's verification to the conversion's readback (`LockIsHeld`). The folder's:
what a stage is past lasts (`StagesLast`), and the pointer an upgrade or a save
replaces is the one it was begun on (`PointersAreExpected`). Recent tools: the index
and all that a power loss may leave of it agree about every identifier
(`IndexesAgree`), and of the folders with saved work only the owner of an instance's
shelf can be at that instance's place (`ShelvesAreOwned`); a lock is not needed for
this. File attempts: an attempt begins on a record without one, is all that lasts of
the record from its staging on (`AttemptsAreStaged`), and the host's copy of the
record is always one that may last (`CopyMayLast`). Hand-over: a request is asked
before it is anything else and registered once (`RequestsAreAsked`), a what the record calls completed is what the started author published last
(`SubmissionsAreKept`), and what the worker holds is what it registered, issued or was
submitted (`OperandsAreRight`). That a power loss which takes `complete.json` alone
lets nobody publish another source for a request already taken in is
`CompletionsStand`: from the moment a request may be called completed, no command of
its author is on its way, and its completion is in place for as long as the record
may still hold the request as pending, so the ticket is not issued anew. Order
tool: what `CURRENT` may name after a power loss is a past of what it names
(`HistoriesGrow`); from its snapshot's publication to the switch the writer holds the
lock and its save is the project's next one (`LockIsHeld`, `CandidatesAreNext`), so
histories are only extended. A retained save is one window's and of one folder
(`OperationsAreOwn`, `CallsAreRetained`): a repetition finds it where it may have
been saved, and one that was refused is nowhere.

## 5. What is only model-checked

* Liveness (`EveryCommandIsAnswered`, `CloseIsIssued`, `EverySentRequestEnds`,
  `EveryPreviewEnds`): the prover handles neither fairness nor `ENABLED`.
* Of `tool_files`: `OrderToolIsKept`, `ChoicesAreReal`, `IntentionsAreKept`,
  `ScopesHold`, and `TypeOK` as a whole (of the six parts of `ToolFiles` it is
  `FilesTypeCorrect`). The order tool's records and the discovery's search fold over
  sequences; the other parts compile programs from layers and mappings, where what
  is checked is again what a fold computes, an induction over data.

## 6. Abstractions

* Session: a session has one tool shown at a time, numbered by the operation that
  brought it; the check of unfinished work after a restart is `StudioJournal`'s,
  and the daily clock tick is a save like any other. Epochs do not wrap.
* Journal: tools are not told apart, one revision counter stands for the open
  one; a commit is one step that happens or not, as `ProductStore`'s refinement
  shows, and its sync may fail. A save whose own directory sync failed is read back
  through its receipt, answered "saved" and taken off the record
  (`worker.rs:1417`, `1492`, `1720`; `product_backup.rs:378` reads without a sync),
  and a power loss may take it back: `AnswersAreTrue` speaks of every answered save
  but these (`doubted`). A boot that fails leaves the host
  unable to write and is the same as one that did not happen. Closing a tool
  is left out; the format upgrade and the file attempts in the same record are
  `JournalUpgrade` and `FileAttempts`. A save that lost its gate and whose record
  could not be taken off again is answered "not saved" and reappears as unfinished
  after a restart; the check of it then finds it unsaved.
* Provider: a new-design or reconciliation request behaves as a generation; the
  failures of a request are one state; consent's expiry and the probes are a
  refusal at any time, deadlines a `Withdraw` at any time, and a cancelled consent
  closes the disclosure. Killing a process group always succeeds: if it does not
  (`product_provider/process.rs:423`), the code ends the job as a provider error,
  which clears the request, and a process may still run beside the next one. The
  orphan of a killed window may also run beside a new run. What a power loss leaves
  of a result matters only under a validated receipt. Unfinished saves share the
  record with requests in the code and are modelled apart.
* Worktree: a directory and its `.git` entry are replaced together. A directory
  that is not linked cannot be told from another such one, as in the code, where
  it has no link identity. The listing in the background and the dialog it opens
  are one step, the lock files of `HEAD` and its branch one variable. A deletion
  that fails half way may take the `.git` entry or leave it. A killed removal
  leaves the ref locks behind, and later ones fail until somebody deletes them.
  `PrunedAsShown` does not speak of a Windows build, which gives the ref locks
  back before it prunes (`git_ops.rs:3117`). The window between the identity check
  of the in-place deletion and the deletion itself is modelled (`Guard`, `Burn`);
  `OnlyPreviewedIsDeleted` speaks of the staging path only, since the check cannot
  bind what is deleted there.
* Operations: every git command is "it changed what it changed, or failed, or
  never answers"; only the removal of a worktree is told apart. The further checks
  that may refuse a preview or a confirmation (paths, branch, the main worktree, a
  verification that runs) are a refusal at any time. A frame visits the pending
  operations in any order, not in that of `swap_remove`. The text of a search is
  identified with its request, and `MaxRequests` excludes a user who never stops
  typing. Status messages, form submissions, the task diff, the busy flags of
  verifications and the registry entries that a failed reload clears are left
  out; results that only fill a view are one kind. A search that fails takes the
  context of a pending removal with it, as in the code, so that a successful
  removal may go unrecorded; a later preview finds the worktree absent and records
  it then.
* Store: a creation's last check before it activates (`product_store/mod.rs:431`: the
  destination, and the archive of intentions a recovery restores, which the model has
  not) is a refusal at any time.
* Verification, preview, delivery: the code compares contents, so what is edited and
  put back is not detected, and the properties except just that. `PassedMeansRun` says
  nothing of a part put back, since the run was bound, to what it was bound to:
  a run on other contents may then be shown as passed. `CombinedPassIsReal` says of
  each input that it was as captured at some moment between the last command and the
  last check, not that it never changed in between. `CurrentIsCurrent` excepts a
  source that was elsewhere while the snapshot's thread read it and has been put
  back since, and a change the watcher has not yet reported. Of a snapshot that is
  not current only what is shown of it is kept.
* Updater: one update script at a time; nobody tampers with the files between the
  digest's check and the installation, which does not check again.
* Checkout, merge, pull: a pull has no rollback, and its fast-forward moves the
  branch HEAD names by then; the model says so (`Undoable` leaves it out).
* Upgrades: the contents of records and objects are versions. The backups of a
  record have one name for one content.
* Recent tools: the user does not move a folder over a listed path, where the code
  would take it for the listed instance. Checkpoints that a power loss takes away
  are not told from ones that were not published.
* Hand-over: a completion that was reported to its author's command may be lost with
  the power until the host has taken it in; the author may then submit another, which
  counts in its place. A capture of the source is of one moment, because it compares the
  fingerprints before and after; the watcher's polling is a choice of moments.
* Order store: a save or a creation that is answered by replaying its receipt is not
  synced again, so that a power loss may take it back; a rejected retry after the
  folder was moved may be saved in the moved folder; a creation whose parent's sync
  failed may lose its folder after its replay was acknowledged. The properties
  except these.
* Rules: when one decision superseded another and is withdrawn, the earlier one's
  rule governs again while it stays superseded, so that no active decision guards
  it; the model follows the code in this. Commands' times are the panel's clock, now
  or a moment ago; a scenario copies a project with at most `MaxBase` events.
* Discovery: a scene is an input with the moments it observes, and hidden channels
  stand for material that no predicate names. Minimizing reduces to the target's
  moment; comparisons under the budget come in any order; a cancellation between
  the replays of one step is one before it. A pending decision whose saved scene has
  another input leaves a witness unverified, as in the code.
* Scopes: one entity, and slots for view columns and fields of updates only. A value
  tells its rule, facts and day. What is held back of a change is one layer for all
  records; a retry is answered from its operation's identifier without a step. Only
  active layers can be withdrawn; an evolution's rule takes no effect where every
  layer is withdrawn.
* Decisions: a program is what its actions show (0 for what cannot be observed). A
  rename to a name that an accepted source still has is refused, even if that source
  is retired. Rehearsed choices, the scenes of discoveries, stale runtime versions
  and several renames in one change are left out.
* Bytes: digests, canonical encodings and validation are identities, justified
  where snapshots and requests are compared only for equality.

## 7. Plan

Models to come: the history of recoveries in the restart record, a folder that is
replaced under an open handle, and the pages' own steps in the change flow.

Not modelled, with reasons, is everything `PROJECT.json` lists as such: the
providers' command lines, whole-program evaluation, validation and encodings, which
are large pure functions of data; drawing, the list of recent repositories, logging,
the entry point and the build.
