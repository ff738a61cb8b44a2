---------------------------- MODULE MCToolFiles -----------------------------
(* Small instances, for TLC, of the components of the generated-tool panel: in *)
(* each behaviour one of them runs.                                            *)
EXTENDS ToolFiles, TLC

CONSTANTS h1, h2, f1, f2

\* Two spellings of one path, and another path.
Spellings == "p1" :> "a" @@ "p1x" :> "a" @@ "p2" :> "b"

\* Two candidate rules: another delivery day, and both rules changed.
Candidate(keys, due, reminder) ==
    [keys |-> keys, policy |-> ("due" :> due @@ "reminder" :> reminder)]
Candidates == {Candidate({"due"}, 2, 1), Candidate({"due", "reminder"}, 2, 2)}
AllScopes == {"SingleRecord", "FutureRecords", "IncompleteAndFuture", "AllExistingAndFuture"}

\* What executions show: one value at each of two moments, and a hidden one.
Execution(ok, first, second) == [ok |-> ok, at |-> <<first, second>>, hidden |-> 1]
Sooner == {Execution(TRUE, 1, 1), Execution(TRUE, 2, 1)}
Later == {Execution(TRUE, 1, 1), Execution(TRUE, 1, 2)}
SomeFail == {Execution(TRUE, 1, 1), Execution(TRUE, 2, 2), Execution(FALSE, 1, 1)}
Unusual ==
    {"PossibleDefect", "substituted", "feature", "required", "unreached", "changed"}

\* Decisions about all records or some, and how they bind.
Everywhere(action) == [operations |-> {action}, all |-> TRUE]
Narrow(action) == [operations |-> {action}, all |-> FALSE]
Outcome == [bound |-> TRUE, obligations |-> {}]
SomeBind ==
    {Outcome, [bound |-> FALSE, obligations |-> {{1, 2}}], [bound |-> TRUE, obligations |-> {{1}}]}
SomeRows == {{"inside"}, {"outside"}, {"inside", "outside"}, {"inside", "unseen"}}

Rules == INSTANCE RuleDecisions WITH
    Scopes <- AllScopes, MaxRecords <- 2, MaxRevisions <- 5, MaxSaves <- 3, project <- v1,
    seen <- v2, preview <- v3
Undo == INSTANCE RuleDecisions WITH
    Scopes <- {"IncompleteAndFuture"}, MaxRecords <- 1, MaxRevisions <- 5, MaxSaves <- 4,
    project <- v1, seen <- v2, preview <- v3
History == INSTANCE OrderRecords WITH
    Offset <- 1, Starts <- {1}, MaxNow <- 2, MaxRecords <- 1, MaxEvents <- 3, MaxBase <- 1,
    now <- v1, project <- v2, copy <- v3
Choices == INSTANCE ChoiceDiscovery WITH
    Alternatives <- {"other"}, Outcomes <- Later, Inputs <- {1}, Groups <- {"g"},
    Hypotheses <- 1, Verdicts <- {"pending", "chosen"}, Conditions <- {}, Replays <- 40,
    Comparisons <- 2, study <- v1, cancelled <- v2, replays <- v3, comparisons <- v4,
    stage <- v5, work <- v6, report <- v7
Cards == INSTANCE ChoiceDiscovery WITH
    Alternatives <- {"other"}, Outcomes <- Sooner, Inputs <- {1, 2}, Groups <- {"g", "k"},
    Hypotheses <- 2, Verdicts <- {}, Conditions <- {}, Replays <- 40, Comparisons <- 4,
    study <- v1, cancelled <- v2, replays <- v3, comparisons <- v4, stage <- v5, work <- v6,
    report <- v7
Odd == INSTANCE ChoiceDiscovery WITH
    Alternatives <- {"other"}, Outcomes <- SomeFail, Inputs <- {1}, Groups <- {"g"},
    Hypotheses <- 1, Verdicts <- {"pending"}, Conditions <- Unusual, Replays <- 40,
    Comparisons <- 1, study <- v1, cancelled <- v2, replays <- v3, comparisons <- v4,
    stage <- v5, work <- v6, report <- v7
Scoped == INSTANCE ScopedChanges WITH
    Columns <- {"c"}, Fields <- {}, MaxRows <- 2, MaxEvents <- 3, MaxChanges <- 2,
    MaxDay <- 0, project <- v1, held <- v2, stuck <- v3
Stored == INSTANCE ScopedChanges WITH
    Columns <- {"c"}, Fields <- {"f"}, MaxRows <- 1, MaxEvents <- 2, MaxChanges <- 2,
    MaxDay <- 0, project <- v1, held <- v2, stuck <- v3
Moves == INSTANCE ScopedChanges WITH
    Columns <- {"c", "d"}, Fields <- {}, MaxRows <- 1, MaxEvents <- 2, MaxChanges <- 2,
    MaxDay <- 0, project <- v1, held <- v2, stuck <- v3
Days == INSTANCE ScopedChanges WITH
    Columns <- {"c"}, Fields <- {}, MaxRows <- 1, MaxEvents <- 2, MaxChanges <- 2,
    MaxDay <- 1, project <- v1, held <- v2, stuck <- v3
Renamed == INSTANCE IntentionDecisions WITH
    Windows <- {h1}, Names <- {"a", "b", "c"}, Values <- {1}, Scopes <- {Everywhere("a")},
    Rows <- {{"inside"}}, Promises <- {Outcome}, Kinds <- {"choice", "change"},
    MaxAdded <- 1, MaxDecisions <- 1, MaxAdoptions <- 3, MaxSaves <- 0, active <- v1,
    programs <- v2, graph <- v3, adoptions <- v4, saves <- v5, held <- v6
Evolved == INSTANCE IntentionDecisions WITH
    Windows <- {h1}, Names <- {"a", "b"}, Values <- {1, 2}, Scopes <- {Everywhere("a")},
    Rows <- {{"inside"}}, Promises <- {Outcome}, Kinds <- {"choice", "evolution"},
    MaxAdded <- 1, MaxDecisions <- 2, MaxAdoptions <- 2, MaxSaves <- 0, active <- v1,
    programs <- v2, graph <- v3, adoptions <- v4, saves <- v5, held <- v6
Promised == INSTANCE IntentionDecisions WITH
    Windows <- {h1}, Names <- {"a"}, Values <- {0, 1, 2},
    Scopes <- {Everywhere("a"), Narrow("a")}, Rows <- SomeRows, Promises <- SomeBind,
    Kinds <- {"choice", "change"}, MaxAdded <- 1, MaxDecisions <- 1, MaxAdoptions <- 2,
    MaxSaves <- 0, active <- v1, programs <- v2, graph <- v3, adoptions <- v4, saves <- v5,
    held <- v6
Together == INSTANCE IntentionDecisions WITH
    Windows <- Hosts, Names <- {"a"}, Values <- {1, 2}, Scopes <- {Everywhere("a")},
    Rows <- {{"inside"}}, Promises <- {Outcome},
    Kinds <- {"choice", "recovery", "withdrawal"}, MaxAdded <- 0, MaxDecisions <- 2,
    MaxAdoptions <- 2, MaxSaves <- 1, active <- v1, programs <- v2, graph <- v3,
    adoptions <- v4, saves <- v5, held <- v6

\* A part uses as many of the variables as its module has; the others stay 0.
Init ==
    \/ FilesInit
    \/ part = "rules" /\ Rules!Init
       /\ v4 = 0 /\ v5 = 0 /\ v6 = 0 /\ v7 = 0 /\ v8 = 0 /\ v9 = 0 /\ v10 = 0 /\ v11 = 0
       /\ v12 = 0 /\ v13 = 0 /\ v14 = 0 /\ v15 = 0 /\ v16 = 0 /\ v17 = 0 /\ v18 = 0 /\ v19 = 0
       /\ v20 = 0 /\ v21 = 0 /\ v22 = 0 /\ v23 = 0
    \/ part = "undo" /\ Undo!Init
       /\ v4 = 0 /\ v5 = 0 /\ v6 = 0 /\ v7 = 0 /\ v8 = 0 /\ v9 = 0 /\ v10 = 0 /\ v11 = 0
       /\ v12 = 0 /\ v13 = 0 /\ v14 = 0 /\ v15 = 0 /\ v16 = 0 /\ v17 = 0 /\ v18 = 0 /\ v19 = 0
       /\ v20 = 0 /\ v21 = 0 /\ v22 = 0 /\ v23 = 0
    \/ part = "records" /\ History!Init
       /\ v4 = 0 /\ v5 = 0 /\ v6 = 0 /\ v7 = 0 /\ v8 = 0 /\ v9 = 0 /\ v10 = 0 /\ v11 = 0
       /\ v12 = 0 /\ v13 = 0 /\ v14 = 0 /\ v15 = 0 /\ v16 = 0 /\ v17 = 0 /\ v18 = 0 /\ v19 = 0
       /\ v20 = 0 /\ v21 = 0 /\ v22 = 0 /\ v23 = 0
    \/ part = "choices" /\ Choices!Init
       /\ v8 = 0 /\ v9 = 0 /\ v10 = 0 /\ v11 = 0 /\ v12 = 0 /\ v13 = 0 /\ v14 = 0 /\ v15 = 0
       /\ v16 = 0 /\ v17 = 0 /\ v18 = 0 /\ v19 = 0 /\ v20 = 0 /\ v21 = 0 /\ v22 = 0 /\ v23 = 0
    \/ part = "cards" /\ Cards!Init
       /\ v8 = 0 /\ v9 = 0 /\ v10 = 0 /\ v11 = 0 /\ v12 = 0 /\ v13 = 0 /\ v14 = 0 /\ v15 = 0
       /\ v16 = 0 /\ v17 = 0 /\ v18 = 0 /\ v19 = 0 /\ v20 = 0 /\ v21 = 0 /\ v22 = 0 /\ v23 = 0
    \/ part = "unusual" /\ Odd!Init
       /\ v8 = 0 /\ v9 = 0 /\ v10 = 0 /\ v11 = 0 /\ v12 = 0 /\ v13 = 0 /\ v14 = 0 /\ v15 = 0
       /\ v16 = 0 /\ v17 = 0 /\ v18 = 0 /\ v19 = 0 /\ v20 = 0 /\ v21 = 0 /\ v22 = 0 /\ v23 = 0
    \/ part = "rows" /\ Scoped!Init
       /\ v4 = 0 /\ v5 = 0 /\ v6 = 0 /\ v7 = 0 /\ v8 = 0 /\ v9 = 0 /\ v10 = 0 /\ v11 = 0
       /\ v12 = 0 /\ v13 = 0 /\ v14 = 0 /\ v15 = 0 /\ v16 = 0 /\ v17 = 0 /\ v18 = 0 /\ v19 = 0
       /\ v20 = 0 /\ v21 = 0 /\ v22 = 0 /\ v23 = 0
    \/ part = "fields" /\ Stored!Init
       /\ v4 = 0 /\ v5 = 0 /\ v6 = 0 /\ v7 = 0 /\ v8 = 0 /\ v9 = 0 /\ v10 = 0 /\ v11 = 0
       /\ v12 = 0 /\ v13 = 0 /\ v14 = 0 /\ v15 = 0 /\ v16 = 0 /\ v17 = 0 /\ v18 = 0 /\ v19 = 0
       /\ v20 = 0 /\ v21 = 0 /\ v22 = 0 /\ v23 = 0
    \/ part = "moves" /\ Moves!Init
       /\ v4 = 0 /\ v5 = 0 /\ v6 = 0 /\ v7 = 0 /\ v8 = 0 /\ v9 = 0 /\ v10 = 0 /\ v11 = 0
       /\ v12 = 0 /\ v13 = 0 /\ v14 = 0 /\ v15 = 0 /\ v16 = 0 /\ v17 = 0 /\ v18 = 0 /\ v19 = 0
       /\ v20 = 0 /\ v21 = 0 /\ v22 = 0 /\ v23 = 0
    \/ part = "days" /\ Days!Init
       /\ v4 = 0 /\ v5 = 0 /\ v6 = 0 /\ v7 = 0 /\ v8 = 0 /\ v9 = 0 /\ v10 = 0 /\ v11 = 0
       /\ v12 = 0 /\ v13 = 0 /\ v14 = 0 /\ v15 = 0 /\ v16 = 0 /\ v17 = 0 /\ v18 = 0 /\ v19 = 0
       /\ v20 = 0 /\ v21 = 0 /\ v22 = 0 /\ v23 = 0
    \/ part = "renames" /\ Renamed!Init
       /\ v7 = 0 /\ v8 = 0 /\ v9 = 0 /\ v10 = 0 /\ v11 = 0 /\ v12 = 0 /\ v13 = 0 /\ v14 = 0
       /\ v15 = 0 /\ v16 = 0 /\ v17 = 0 /\ v18 = 0 /\ v19 = 0 /\ v20 = 0 /\ v21 = 0 /\ v22 = 0
       /\ v23 = 0
    \/ part = "evolutions" /\ Evolved!Init
       /\ v7 = 0 /\ v8 = 0 /\ v9 = 0 /\ v10 = 0 /\ v11 = 0 /\ v12 = 0 /\ v13 = 0 /\ v14 = 0
       /\ v15 = 0 /\ v16 = 0 /\ v17 = 0 /\ v18 = 0 /\ v19 = 0 /\ v20 = 0 /\ v21 = 0 /\ v22 = 0
       /\ v23 = 0
    \/ part = "promises" /\ Promised!Init
       /\ v7 = 0 /\ v8 = 0 /\ v9 = 0 /\ v10 = 0 /\ v11 = 0 /\ v12 = 0 /\ v13 = 0 /\ v14 = 0
       /\ v15 = 0 /\ v16 = 0 /\ v17 = 0 /\ v18 = 0 /\ v19 = 0 /\ v20 = 0 /\ v21 = 0 /\ v22 = 0
       /\ v23 = 0
    \/ part = "together" /\ Together!Init
       /\ v7 = 0 /\ v8 = 0 /\ v9 = 0 /\ v10 = 0 /\ v11 = 0 /\ v12 = 0 /\ v13 = 0 /\ v14 = 0
       /\ v15 = 0 /\ v16 = 0 /\ v17 = 0 /\ v18 = 0 /\ v19 = 0 /\ v20 = 0 /\ v21 = 0 /\ v22 = 0
       /\ v23 = 0

Next ==
    \/ FilesNext
    \/ part = "rules" /\ Rules!Next
       /\ UNCHANGED << part, v4, v5, v6, v7, v8, v9, v10, v11, v12, v13, v14, v15, v16, v17,
                      v18, v19, v20, v21, v22, v23>>
    \/ part = "undo" /\ Undo!Next
       /\ UNCHANGED << part, v4, v5, v6, v7, v8, v9, v10, v11, v12, v13, v14, v15, v16, v17,
                      v18, v19, v20, v21, v22, v23>>
    \/ part = "records" /\ History!Next
       /\ UNCHANGED << part, v4, v5, v6, v7, v8, v9, v10, v11, v12, v13, v14, v15, v16, v17,
                      v18, v19, v20, v21, v22, v23>>
    \/ part = "choices" /\ Choices!Next
       /\ UNCHANGED << part, v8, v9, v10, v11, v12, v13, v14, v15, v16, v17, v18, v19, v20,
                      v21, v22, v23>>
    \/ part = "cards" /\ Cards!Next
       /\ UNCHANGED << part, v8, v9, v10, v11, v12, v13, v14, v15, v16, v17, v18, v19, v20,
                      v21, v22, v23>>
    \/ part = "unusual" /\ Odd!Next
       /\ UNCHANGED << part, v8, v9, v10, v11, v12, v13, v14, v15, v16, v17, v18, v19, v20,
                      v21, v22, v23>>
    \/ part = "rows" /\ Scoped!Next
       /\ UNCHANGED << part, v4, v5, v6, v7, v8, v9, v10, v11, v12, v13, v14, v15, v16, v17,
                      v18, v19, v20, v21, v22, v23>>
    \/ part = "fields" /\ Stored!Next
       /\ UNCHANGED << part, v4, v5, v6, v7, v8, v9, v10, v11, v12, v13, v14, v15, v16, v17,
                      v18, v19, v20, v21, v22, v23>>
    \/ part = "moves" /\ Moves!Next
       /\ UNCHANGED << part, v4, v5, v6, v7, v8, v9, v10, v11, v12, v13, v14, v15, v16, v17,
                      v18, v19, v20, v21, v22, v23>>
    \/ part = "days" /\ Days!Next
       /\ UNCHANGED << part, v4, v5, v6, v7, v8, v9, v10, v11, v12, v13, v14, v15, v16, v17,
                      v18, v19, v20, v21, v22, v23>>
    \/ part = "renames" /\ Renamed!Next
       /\ UNCHANGED << part, v7, v8, v9, v10, v11, v12, v13, v14, v15, v16, v17, v18, v19,
                      v20, v21, v22, v23>>
    \/ part = "evolutions" /\ Evolved!Next
       /\ UNCHANGED << part, v7, v8, v9, v10, v11, v12, v13, v14, v15, v16, v17, v18, v19,
                      v20, v21, v22, v23>>
    \/ part = "promises" /\ Promised!Next
       /\ UNCHANGED << part, v7, v8, v9, v10, v11, v12, v13, v14, v15, v16, v17, v18, v19,
                      v20, v21, v22, v23>>
    \/ part = "together" /\ Together!Next
       /\ UNCHANGED << part, v7, v8, v9, v10, v11, v12, v13, v14, v15, v16, v17, v18, v19,
                      v20, v21, v22, v23>>

Spec == Init /\ [][Next]_vars

Symmetry == Permutations({h1, h2}) \cup Permutations({f1, f2})

-----------------------------------------------------------------------------
\* The variables of the part that runs keep their types.
TypeOK ==
    /\ FilesTypeOK
    /\ part = "rules" => Rules!TypeOK
    /\ part = "undo" => Undo!TypeOK
    /\ part = "records" => History!TypeOK
    /\ part = "choices" => Choices!TypeOK
    /\ part = "cards" => Cards!TypeOK
    /\ part = "unusual" => Odd!TypeOK
    /\ part = "rows" => Scoped!TypeOK
    /\ part = "fields" => Stored!TypeOK
    /\ part = "moves" => Moves!TypeOK
    /\ part = "days" => Days!TypeOK
    /\ part = "renames" => Renamed!TypeOK
    /\ part = "evolutions" => Evolved!TypeOK
    /\ part = "promises" => Promised!TypeOK
    /\ part = "together" => Together!TypeOK

\* The order tool's rules apply to the records their previews named until they are
\* withdrawn for good, and the readings of a record's history agree; see RuleDecisions and
\* OrderRecords.
OrderToolIsKept ==
    /\ part = "rules" => Rules!RulesAreKept
    /\ part = "undo" => Undo!RulesAreKept
    /\ part = "records" => History!HistoryIsRead

\* What a discovery asks the owner is open, whole and passes nothing over; see
\* ChoiceDiscovery.
ChoicesAreReal ==
    /\ part = "choices" => Choices!ChoicesAreReal
    /\ part = "cards" => Cards!ChoicesAreReal
    /\ part = "unusual" => Odd!ChoicesAreReal

\* What the owner decided stays binding across changes, recoveries and withdrawals; see
\* IntentionDecisions.
IntentionsAreKept ==
    /\ part = "renames" => Renamed!IntentionsAreKept
    /\ part = "evolutions" => Evolved!IntentionsAreKept
    /\ part = "promises" => Promised!IntentionsAreKept
    /\ part = "together" => Together!IntentionsAreKept

\* Changes that apply to some records only apply to those, and finished work keeps its
\* results; see ScopedChanges.
ScopesHold ==
    [][/\ part = "rows" => Scoped!ScopesHold
       /\ part = "fields" => Stored!ScopesHold
       /\ part = "moves" => Moves!ScopesHold
       /\ part = "days" => Days!ScopesHold]_vars
=============================================================================
