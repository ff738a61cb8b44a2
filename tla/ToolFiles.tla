----------------------------- MODULE ToolFiles ------------------------------
(* The components of the generated-tool panel that keep their promises in      *)
(* files, side by side: in each behaviour one of them runs.                    *)
EXTENDS Naturals

CONSTANTS Hosts, Directories, PlaceOf, MaxVersion, MaxRevision, MaxLosses, MaxInstance,
          MaxSaved, MaxMove, MaxAttempt, MaxBasis, MaxSource, MaxRequest, MaxTask, MaxLoss,
          MaxFolder, MaxOperation

VARIABLES
    part,   \* the part of the program that runs
    v1, v2, v3, v4, v5, v6, v7, v8, v9, v10, v11, v12, v13, v14, v15, v16, v17, v18, v19,
    v20, v21, v22, v23

\* Strings name no host and no place.
ASSUME BoundsAssumption ==
    /\ {MaxVersion, MaxRevision, MaxSaved, MaxBasis, MaxSource, MaxTask} \subseteq Nat \ {0}
    /\ {MaxLosses, MaxInstance, MaxMove, MaxAttempt, MaxRequest, MaxLoss, MaxFolder,
      MaxOperation} \subseteq Nat
    /\ "nobody" \notin Hosts
    /\ \A p \in DOMAIN PlaceOf : PlaceOf[p] # "nowhere"

Upgrade == INSTANCE JournalUpgrade WITH
    Windows <- Hosts, MaxVersion <- MaxVersion, MaxLosses <- MaxLosses, before <- v1,
    record <- v2, recordLasting <- v3, backup <- v4, backupLasting <- v5, writer <- v6,
    pc <- v7, activated <- v8, losses <- v9
Folder == INSTANCE FolderUpgrade WITH
    MaxRevision <- MaxRevision, MaxLosses <- MaxLosses, origin <- v1, files <- v2,
    lasting <- v3, current <- v4, left <- v5, writer <- v6, pc <- v7, seen <- v8,
    acknowledged <- v9, losses <- v10
Instances == INSTANCE ToolInstances WITH
    Folders <- Directories, Paths <- DOMAIN PlaceOf,
    Places <- {PlaceOf[p] : p \in DOMAIN PlaceOf}, MaxInstances <- MaxInstance,
    MaxRevision <- MaxSaved, MaxMoves <- MaxMove, MaxLosses <- MaxLoss, at <- v1,
    revision <- v2, index <- v3, indexLeft <- v4, shelf <- v5, writer <- v6, pc <- v7,
    path <- v8, store <- v9, instance <- v10, issued <- v11, acknowledged <- v12,
    moves <- v13, losses <- v14
Attempts == INSTANCE FileAttempts WITH
    Destinations <- Directories, MaxAttempts <- MaxAttempt, MaxBasis <- MaxBasis,
    MaxLosses <- MaxLoss, record <- v1, recordLeft <- v2, value <- v3, blocked <- v4,
    file <- v5, fileLeft <- v6, tool <- v7, page <- v8, held <- v9, pc <- v10, kind <- v11,
    operation <- v12, basis <- v13, destination <- v14, gate <- v15, status <- v16,
    report <- v17, unresolved <- v18, reconciled <- v19, losses <- v20
Handoff == INSTANCE TaskHandoff WITH
    MaxSource <- MaxSource, MaxRequest <- MaxRequest, MaxBasis <- MaxBasis,
    MaxTask <- MaxTask, MaxLosses <- MaxLoss, record <- v1, recordLeft <- v2, value <- v3,
    blocked <- v4, job <- v5, completion <- v6, source <- v7, task <- v8, registered <- v9,
    tool <- v10, shown <- v11, flow <- v12, asked <- v13, ready <- v14, queued <- v15,
    done <- v16, pc <- v17, operand <- v18, author <- v19, launched <- v20, fate <- v21,
    submitted <- v22, losses <- v23
Orders == INSTANCE OrderStore WITH
    Windows <- Hosts, MaxFolders <- MaxFolder, MaxOperations <- MaxOperation,
    MaxMoves <- MaxMove, MaxLosses <- MaxLoss, at <- v1, atLeft <- v2, snapshots <- v3,
    kept <- v4, current <- v5, currentLeft <- v6, writer <- v7, pc <- v8, store <- v9,
    view <- v10, pending <- v11, base <- v12, issued <- v13, acknowledged <- v14,
    refused <- v15, moves <- v16, losses <- v17

vars ==
    <<part, v1, v2, v3, v4, v5, v6, v7, v8, v9, v10, v11, v12, v13, v14, v15, v16, v17,
      v18, v19, v20, v21, v22, v23>>

\* A part uses as many of the variables as its module has; the others stay 0.
FilesInit ==
    \/ part = "journal" /\ Upgrade!Init
       /\ v10 = 0 /\ v11 = 0 /\ v12 = 0 /\ v13 = 0 /\ v14 = 0 /\ v15 = 0 /\ v16 = 0 /\ v17 = 0
       /\ v18 = 0 /\ v19 = 0 /\ v20 = 0 /\ v21 = 0 /\ v22 = 0 /\ v23 = 0
    \/ part = "folder" /\ Folder!Init
       /\ v11 = 0 /\ v12 = 0 /\ v13 = 0 /\ v14 = 0 /\ v15 = 0 /\ v16 = 0 /\ v17 = 0 /\ v18 = 0
       /\ v19 = 0 /\ v20 = 0 /\ v21 = 0 /\ v22 = 0 /\ v23 = 0
    \/ part = "instances" /\ Instances!Init
       /\ v15 = 0 /\ v16 = 0 /\ v17 = 0 /\ v18 = 0 /\ v19 = 0 /\ v20 = 0 /\ v21 = 0 /\ v22 = 0
       /\ v23 = 0
    \/ part = "attempts" /\ Attempts!Init
       /\ v21 = 0 /\ v22 = 0 /\ v23 = 0
    \/ part = "handoff" /\ Handoff!Init
    \/ part = "orders" /\ Orders!Init
       /\ v18 = 0 /\ v19 = 0 /\ v20 = 0 /\ v21 = 0 /\ v22 = 0 /\ v23 = 0

FilesNext ==
    \/ part = "journal" /\ Upgrade!Next
       /\ UNCHANGED << part, v10, v11, v12, v13, v14, v15, v16, v17, v18, v19, v20, v21,
                      v22, v23>>
    \/ part = "folder" /\ Folder!Next
       /\ UNCHANGED <<part, v11, v12, v13, v14, v15, v16, v17, v18, v19, v20, v21, v22, v23>>
    \/ part = "instances" /\ Instances!Next
       /\ UNCHANGED <<part, v15, v16, v17, v18, v19, v20, v21, v22, v23>>
    \/ part = "attempts" /\ Attempts!Next
       /\ UNCHANGED <<part, v21, v22, v23>>
    \/ part = "handoff" /\ Handoff!Next
       /\ UNCHANGED <<part>>
    \/ part = "orders" /\ Orders!Next
       /\ UNCHANGED <<part, v18, v19, v20, v21, v22, v23>>

FilesSpec == FilesInit /\ [][FilesNext]_vars

-----------------------------------------------------------------------------
\* The variables of the part that runs keep their types.
FilesTypeOK ==
    /\ part = "journal" => Upgrade!TypeOK
    /\ part = "folder" => Folder!TypeOK
    /\ part = "instances" => Instances!TypeOK
    /\ part = "attempts" => Attempts!TypeOK
    /\ part = "handoff" => Handoff!TypeOK
    /\ part = "orders" => Orders!TypeOK

\* An upgrade, of the restart record or of a tool's folder, is whole or has not happened;
\* see JournalUpgrade and FolderUpgrade.
UpgradesSurvive ==
    /\ part = "journal" => Upgrade!RecordSurvivesUpgrade
    /\ part = "folder" => Folder!FolderSurvivesUpgrade

\* Every listed tool has an entry and a shelf of its own; see ToolInstances.
RecoveriesAreApart == part = "instances" => Instances!RecoveriesAreApart

\* What may have been done although its call failed is known, or kept until it is: a file
\* written outside the tool, an author's start and result, a save of the order tool; see
\* FileAttempts, TaskHandoff and OrderStore.
OutcomesAreKept ==
    /\ part = "attempts" => Attempts!FileAttemptsAreKept
    /\ part = "handoff" => Handoff!HandoffIsKept
    /\ part = "orders" => Orders!OrdersAreKept
=============================================================================
