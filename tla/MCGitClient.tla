---------------------------- MODULE MCGitClient -----------------------------
(* Small instances, for TLC, of the components of the Git client, which share  *)
(* nothing while they work: in each behaviour one part of the program runs.    *)
EXTENDS Naturals, TLC

CONSTANTS w1, w2, Windows, MaxRelease, MaxRequest, MaxTask, Parts, MaxSource, MaxRun,
          MaxEdit, MaxElsewhere

VARIABLES
    part,   \* the part of the program that runs
    v1, v2, v3, v4, v5, v6, v7, v8, v9, v10, v11, v12, v13, v14, v15, v16

\* A string names no window.
ASSUME BoundsAssumption ==
    /\ {MaxRelease, MaxRequest, MaxTask, MaxSource, MaxRun, MaxEdit, MaxElsewhere} \subseteq Nat
    /\ Parts # {} /\ "nobody" \notin Windows

\* The first two tasks may be linked to a pull request of their own.
Urls == <<{"a", "b"}, {"c"}, {}>>

\* Two versions of two tasks' records: their order, commands and links.
Configs ==
    <<[command |-> [t \in {"p", "q"} |-> IF t = "p" THEN "a" ELSE "b"],
       order |-> {<<"p", "q">>}, links |-> {}],
      [command |-> [t \in {"p", "q"} |-> IF t = "p" THEN "a" ELSE "none"],
       order |-> {<<"q", "p">>}, links |-> {<<"p", "q">>}]>>

\* A branch with two files, and two branches that change one each.
Trees == <<[f |-> 1, g |-> 1], [f |-> 2, g |-> 1], [f |-> 1, g |-> 2]>>
Below == <<{1}, {1, 2}, {1, 3}>>
Tips == <<{1}, {2}, {3}>>

Updates == INSTANCE UpdateRequests WITH
    latest <- v1, status <- v2, release <- v3, answered <- v4, generation <- v5,
    thread <- v6, asset <- v7, reporter <- v8, show <- v9, dismissed <- v10, archive <- v11,
    extracted <- v12, staged <- v13, script <- v14, program <- v15, running <- v16
Registry == INSTANCE TaskRegistry WITH
    registry <- v1, recorded <- v2, change <- v3
Verification == INSTANCE TaskVerification WITH
    source <- v1, edits <- v15, result <- v2, holder <- v3, runs <- v4, pc <- v5, run <- v6,
    reading <- v7, outcome <- v8, cancelled <- v9, process <- v10, ran <- v11, probe <- v12,
    own <- v13, came <- v14
Combined == INSTANCE CombinedVerification WITH
    base <- v1, sources <- v2, saved <- v3, entries <- v4, selected <- v5, preview <- v6,
    capture <- v7, verified <- v8, check <- v9, edits <- v10
Delivery == INSTANCE TaskDelivery WITH
    tree <- v1, delivered <- v2, request <- v3, invalidated <- v4, fingerprint <- v5,
    reader <- v6, record <- v7, action <- v8, worker <- v9, snapshot <- v10, error <- v11,
    edits <- v12
Branch == INSTANCE BranchUpdate WITH
    worktree <- v1, index <- v2, head <- v3, refs <- v4, lock <- v5, stage <- v6, op <- v7,
    elsewhere <- v8, without <- v9, raced <- v10

vars ==
    <<part, v1, v2, v3, v4, v5, v6, v7, v8, v9, v10, v11, v12, v13, v14, v15, v16>>

\* A part uses as many of the variables as its module has; the others stay 0.
Init ==
    \/ part = "updates" /\ Updates!Init
    \/ part = "registry" /\ Registry!Init
       /\ v4 = 0 /\ v5 = 0 /\ v6 = 0 /\ v7 = 0 /\ v8 = 0 /\ v9 = 0 /\ v10 = 0 /\ v11 = 0
       /\ v12 = 0 /\ v13 = 0 /\ v14 = 0 /\ v15 = 0 /\ v16 = 0
    \/ part = "verification" /\ Verification!Init
       /\ v16 = 0
    \/ part = "combined" /\ Combined!Init
       /\ v11 = 0 /\ v12 = 0 /\ v13 = 0 /\ v14 = 0 /\ v15 = 0 /\ v16 = 0
    \/ part = "delivery" /\ Delivery!Init
       /\ v13 = 0 /\ v14 = 0 /\ v15 = 0 /\ v16 = 0
    \/ part = "branch" /\ Branch!Init
       /\ v11 = 0 /\ v12 = 0 /\ v13 = 0 /\ v14 = 0 /\ v15 = 0 /\ v16 = 0

Next ==
    \/ part = "updates" /\ Updates!Next
       /\ UNCHANGED <<part>>
    \/ part = "registry" /\ Registry!Next
       /\ UNCHANGED <<part, v4, v5, v6, v7, v8, v9, v10, v11, v12, v13, v14, v15, v16>>
    \/ part = "verification" /\ Verification!Next
       /\ UNCHANGED <<part, v16>>
    \/ part = "combined" /\ Combined!Next
       /\ UNCHANGED <<part, v11, v12, v13, v14, v15, v16>>
    \/ part = "delivery" /\ Delivery!Next
       /\ UNCHANGED <<part, v13, v14, v15, v16>>
    \/ part = "branch" /\ Branch!Next
       /\ UNCHANGED <<part, v11, v12, v13, v14, v15, v16>>

Spec == Init /\ [][Next]_vars

Symmetry == Permutations({w1, w2})

-----------------------------------------------------------------------------
\* The variables of the part that runs keep their types.
TypeOK ==
    /\ part = "updates" => Updates!TypeOK
    /\ part = "registry" => Registry!TypeOK
    /\ part = "verification" => Verification!TypeOK
    /\ part = "combined" => Combined!TypeOK
    /\ part = "delivery" => Delivery!TypeOK
    /\ part = "branch" => Branch!TypeOK

\* The window shows the answer to what it asked last, and the program is one whole release
\* at every moment; see UpdateRequests.
UpdatesAreRight ==
    /\ part = "updates" => Updates!UpdateIsCurrent
    /\ part = "updates" => Updates!ProgramIsWhole

\* No task depends on itself, the order is complete and right, and a task is called ready
\* only when what it depends on was merged; see TaskRegistry.
OrderIsRight ==
    part = "registry" =>
        /\ Registry!DependenciesAreAcyclic
        /\ Registry!OrderIsRight
        /\ Registry!ReadyMeansMerged

\* The registry changes only by one window's operation on the file as it was, and a task
\* that was cleaned up keeps its pull request; see TaskRegistry.
ChangesAreMadeOnTheFile == [][part = "registry" => Registry!ChangeIsMadeOnTheFile]_vars

\* A preview that the review queue offers is not refused for a prerequisite; see
\* TaskRegistry.
OfferedIsAccepted == part = "registry" => Registry!OfferedIsAccepted

\* A run shown as passed ran on the source that is shown, and the record of a run agrees
\* with its process; see TaskVerification.
PassedMeansRun ==
    part = "verification" =>
        /\ Verification!PassedMeansRun
        /\ Verification!RunsAreRecorded

\* A combined result shown as passed is of the preview's tree and of every command; see
\* CombinedVerification.
CombinedPassIsReal == part = "combined" => Combined!CombinedPassIsReal

\* A pull request shown as current is about the source as it is; see TaskDelivery.
CurrentIsCurrent == part = "delivery" => Delivery!CurrentIsCurrent

\* A checkout or merge that fails is undone, and one that succeeds keeps local work; see
\* BranchUpdate.
UpdateIsWholeOrUndone == part = "branch" => Branch!UpdateIsWholeOrUndone
=============================================================================
