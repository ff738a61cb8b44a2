------------------------- MODULE IntentionDecisions -------------------------
(* What the owner of a generated tool has decided, and how it stays binding    *)
(* (product_decisions). A decision keeps scenes: inputs that were run on a     *)
(* program, and what was seen. Before another program or another graph of      *)
(* decisions is adopted, every scene of every active decision is run again on  *)
(* the program to come, through the renames and replaced inputs that earlier   *)
(* adoptions recorded; and all of it once more when the adoption is saved.     *)
(*                                                                             *)
(* A program gives, for each of its actions, the value that is seen after it;  *)
(* 0 stands for a value that cannot be observed. A scene runs one action, on   *)
(* records inside or outside of a narrow scope, or on none that is known.      *)
(* Changes of some records only are in ScopedChanges.                          *)
EXTENDS Naturals, FiniteSetsExt, SequencesExt

CONSTANTS
    Windows,
    Names,          \* of actions
    Values,         \* that may be seen
    Scopes,         \* of decisions: operations, and whether of all records or of some
    Rows,           \* where a decision's scenes are run: sets of "inside", "outside", "unseen"
    Promises,       \* how a decision binds: by the outcome seen, or by predicates
    Kinds,          \* of changes that are prepared
    MaxAdded,       \* renames that one change adds
    MaxDecisions, MaxAdoptions, MaxSaves

Programs == UNION {[names -> Values] : names \in SUBSET Names \ {{}}}

VARIABLES
    active,         \* the program that runs
    programs,       \* the retained programs
    graph,          \* the DecisionGraph
    adoptions,      \* the AdoptionReceipts
    saves,          \* other saves of the project
    held            \* a VerifiedChange or a ReconciliationRequest in each window's hands

project == <<active, programs, graph, adoptions, saves>>
intentions == <<active, programs, graph, adoptions, saves, held>>

None == [kind |-> "none"]
Empty == [x \in {} |-> x]

\* Mutated form of Revision: adoptions do not count.
RevisionOfSaves == <<0, saves>>

\* The revision of the project: any save changes it.
Revision == <<Len(adoptions), saves>>

Count == Len(graph.decisions)
WithStatus(g, statuses) == {i \in DOMAIN g.decisions : g.decisions[i].status \in statuses}
ActiveIds(g) == WithStatus(g, {"Active"})
ScenesOf(g, ids) == UNION {g.decisions[i].scenes : i \in ids}

\* accepted_sources: of all decisions, retired ones included.
Sources(g) == {scene.program : scene \in ScenesOf(g, DOMAIN g.decisions)}

Input(scene) == [action |-> scene.action, place |-> scene.place]

\* execute_admitted: what a run of an action shows at the moment it is observed.
Shows(program, action) == program[action]
Seen(scene) == Shows(scene.program, scene.action)

-----------------------------------------------------------------------------
\* Scopes and mappings.

\* DecisionScope::matches, of the one context that a scene gives.
Matches(scope, scene) ==
    IF scene.action \notin scope.operations THEN "Outside"
    ELSE IF scope.all \/ scene.place = "inside" THEN "Applies"
    ELSE IF scene.place = "outside" THEN "Outside" ELSE "Unknown"
Applying(decision) == {s \in decision.scenes : Matches(decision.scope, s) = "Applies"}
Exercised(decision) == {s.action : s \in Applying(decision)}

\* Mapping::id, of an action.
Named(renames, name) == IF name \in DOMAIN renames THEN renames[name] ELSE name

\* Mapping::new: nothing is renamed twice, or to the name of something else.
IsMapping(source, target, renames) ==
    /\ DOMAIN renames \subseteq DOMAIN source /\ Range(renames) \subseteq DOMAIN target
    /\ IsInjective(renames)
    /\ IsInjective([name \in DOMAIN source |-> Named(renames, name)])

\* The mappings of an adoption have, for each accepted source, its renames, and the actions
\* that replace inputs of scenes.
Mapped(mappings, source) ==
    IF source \in DOMAIN mappings THEN mappings[source]
    ELSE [renames |-> Empty, inputs |-> Empty]
Trim(mappings) ==
    Restrict(mappings, {s \in DOMAIN mappings :
                          mappings[s].renames # Empty \/ mappings[s].inputs # Empty})

\* mappings_for: the receipt of the last adoption of this program.
MappingsFor(target) ==
    LET of == {k \in DOMAIN adoptions : adoptions[k].target = target}
    IN IF of = {} THEN Empty ELSE adoptions[Max(of)].mappings

\* replacement, scenario: the action that a scene runs in the target.
RunsAs(mapped, scene) ==
    IF Input(scene) \in DOMAIN mapped.inputs THEN mapped.inputs[Input(scene)]
    ELSE Named(mapped.renames, scene.action)

-----------------------------------------------------------------------------
\* Checking.

\* same_outcome: what was seen is seen again. What was not observed may be anything.
SameOutcome(old, new) == old \in {0, new}

\* AcceptedProperty::evaluate: every predicate holds of what is seen.
Demonstrated(obligations, seen) == \A holds \in obligations : seen \in holds

Kept(decision, old, new) ==
    /\ decision.bound \/ decision.obligations = {} => SameOutcome(old, new)
    /\ Demonstrated(decision.obligations, new)

\* check_scene
Passes(decision, scene, target, mappings) ==
    LET mapped == IF scene.program = target THEN Mapped(Empty, target)
                  ELSE Mapped(mappings, scene.program)
        action == RunsAs(mapped, scene)
    IN \/ Matches(decision.scope, scene) = "Outside"
       \/ /\ Matches(decision.scope, scene) = "Applies"
          /\ action \in DOMAIN target /\ Kept(decision, Seen(scene), Shows(target, action))

\* DecisionGraph::validate
ValidGraph(g) ==
    \A i \in DOMAIN g.decisions :
        LET d == g.decisions[i] IN
        /\ \A prior \in d.supersedes :
             g.decisions[prior].status = "Superseded" /\ g.decisions[prior].by = i
        /\ d.status = "Superseded" => i \in g.decisions[d.by].supersedes

\* check_bound: what the mappings must be, and then each scene of each active decision; and
\* each operation of its scope must have run.
Bound(g, target, mappings) ==
    \A source \in DOMAIN mappings :
        /\ source \in Sources(g) /\ IsMapping(source, target, mappings[source].renames)
        /\ \A input \in DOMAIN mappings[source].inputs :
             \E scene \in ScenesOf(g, DOMAIN g.decisions) :
                 scene.program = source /\ Input(scene) = input
Ready(g, target, mappings) ==
    /\ ValidGraph(g) /\ Bound(g, target, mappings)
    /\ \A i \in ActiveIds(g) :
         LET d == g.decisions[i] IN
         /\ \A scene \in d.scenes : Passes(d, scene, target, mappings)
         /\ d.scope.operations \subseteq Exercised(d)

\* validate_withdrawal_history: withdrawn decisions have the receipt of their withdrawal.
HistoryIsValid ==
    \A i \in WithStatus(graph, {"Withdrawn"}) :
        LET by == graph.decisions[i].by IN
        /\ adoptions[by].retire = {j \in WithStatus(graph, {"Withdrawn"}) : graph.decisions[j].by = by}
        /\ adoptions[by].retire \cap adoptions[by].required = {}

\* validate_withdrawal_delta
DeltaIsValid(next, retire) ==
    LET withdrawn == {i \in 1 .. Count : /\ next.decisions[i].status = "Withdrawn"
                                         /\ graph.decisions[i].status # "Withdrawn"}
    IN /\ \A i \in DOMAIN next.decisions : i > Count => next.decisions[i].status # "Withdrawn"
       /\ \A i \in WithStatus(graph, {"Withdrawn"}) : next.decisions[i] = graph.decisions[i]
       /\ \A i \in withdrawn :
            next.decisions[i] = [graph.decisions[i] EXCEPT !.status = "Withdrawn", !.revision = @ + 1,
                                                           !.by = Len(adoptions) + 1]
       /\ withdrawn # {} => withdrawn = retire

\* prepare: replaced inputs that no longer run in the target are left out of the receipt.
Recorded(target, mappings) ==
    Trim([source \in DOMAIN mappings |->
            [mappings[source] EXCEPT !.inputs =
               Restrict(@, {input \in DOMAIN @ : @[input] \in DOMAIN target})]])
Prepare(w, next, target, mappings, retire) ==
    /\ Len(adoptions) < MaxAdoptions /\ Len(next.decisions) <= MaxDecisions
    /\ HistoryIsValid /\ Ready(next, target, mappings) /\ DeltaIsValid(next, retire)
    /\ held' = [held EXCEPT ![w] =
         [kind |-> "prepared", basis |-> Revision, target |-> target, next |-> next,
          retire |-> retire, mappings |-> Recorded(target, mappings)]]
    /\ UNCHANGED project

-----------------------------------------------------------------------------
\* What is prepared.

Retired(decision, status, by) ==
    [decision EXCEPT !.status = status, !.by = by, !.revision = @ + 1]
Decision(scope, outcome, promise, scenes, supersedes) ==
    [scope |-> scope, outcome |-> outcome, bound |-> promise.bound,
     obligations |-> promise.obligations, scenes |-> scenes, supersedes |-> supersedes,
     status |-> IF outcome = "open" THEN "Pending" ELSE "Active", by |-> 0, revision |-> 1]

\* The scenes that a choice may bring: of the program that is chosen, or of the current one
\* and an alternative when the choice is left open.
ChosenScenes(outcome, target, names) ==
    LET Run(p, name, place) == [program |-> p, action |-> name, place |-> place] IN
    IF outcome = "open"
    THEN {{Run(p, name, place) : p \in {active, other}, name \in names, place \in places} :
            places \in Rows, other \in {p \in Programs : names \subseteq DOMAIN p}}
    ELSE {{Run(target, name, place) : name \in names, place \in places} : places \in Rows}

\* prepare_choice_resolving
Choose(w) ==
    /\ "choice" \in Kinds
    /\ \E outcome \in {"accept", "keep", "open"}, target \in Programs, scope \in Scopes,
          promise \in Promises, resolves \in SUBSET WithStatus(graph, {"Pending"}) :
         /\ outcome # "accept" => target = active
         /\ scope.operations \subseteq DOMAIN active \cap DOMAIN target
         /\ \E scenes \in ChosenScenes(outcome, target, scope.operations) :
              LET d == Decision(scope, outcome, promise, scenes, resolves)
                  next == [revision |-> graph.revision + 1, decisions |->
                             Append([i \in 1 .. Count |->
                                       IF i \in resolves
                                       THEN Retired(graph.decisions[i], "Superseded", Count + 1)
                                       ELSE graph.decisions[i]], d)]
              IN /\ d.bound \/ (d.obligations # {} /\ Applying(d) # {})
                 /\ \A s \in Applying(d) : Demonstrated(d.obligations, Seen(s))
                 /\ Prepare(w, next, target, MappingsFor(active), resolves)

\* Mutated form of Renames: what was renamed before is not renamed on.
RenamesOnce(source, current, target, old, added) ==
    LET all == [name \in DOMAIN old \cup (DOMAIN added \cap DOMAIN source) |->
                  IF name \in DOMAIN old THEN old[name] ELSE added[name]]
    IN Restrict(all, {name \in DOMAIN all : all[name] # name /\ all[name] \in DOMAIN target})

\* compose_sources: what was renamed before is renamed on, and what is renamed now is renamed
\* for the sources that have it, unless they know it by another name.
Renames(source, current, target, old, added) ==
    LET moved == [name \in DOMAIN old |-> Named(added, old[name])]
        taken == {name \in DOMAIN added \cap DOMAIN source :
                    source = current \/ name \notin DOMAIN current \/ name \notin DOMAIN old}
        all == [name \in DOMAIN old \cup taken |->
                  IF name \in taken THEN added[name] ELSE moved[name]]
    IN Restrict(all, {name \in DOMAIN all : all[name] # name /\ all[name] \in DOMAIN target})

\* The replaced inputs that scenes still need, by the names of the target.
Bridge(added) == Restrict(added, DOMAIN added \cap DOMAIN active)
Required(needs) ==
    UNION {Applying(graph.decisions[i]) : i \in ActiveIds(graph) \cup needs}
Inputs(source, old, added, needs) ==
    LET kept == {input \in DOMAIN old :
                   \E s \in Required(needs) : s.program = source /\ Input(s) = input}
    IN [input \in kept |-> Named(Bridge(added), old[input])]
Compose(target, added, needs) ==
    Trim([source \in Sources(graph) \ {target} |->
            LET old == Mapped(MappingsFor(active), source)
            IN [renames |-> Renames(source, active, target, old.renames, added),
                inputs |-> Inputs(source, old.inputs, added, needs)]])
CanCompose(target, added, needs) ==
    /\ Range(added) \subseteq DOMAIN target
    /\ DOMAIN added \subseteq UNION {DOMAIN p : p \in Sources(graph) \cup {active}}
    /\ \A source \in Sources(graph) \ {target} :
         Inputs(source, Mapped(MappingsFor(active), source).inputs, added, needs) # Empty
           => IsMapping(active, target, Bridge(added))

Additions ==
    UNION {{f \in [from -> Names] : \A name \in from : f[name] # name} :
             from \in {names \in SUBSET Names : Cardinality(names) <= MaxAdded}}

\* prepare_change
Change(w) ==
    /\ "change" \in Kinds
    /\ \E target \in Programs \ {active}, added \in Additions :
         /\ CanCompose(target, added, {})
         /\ Prepare(w, graph, target, Compose(target, added, {}), {})

\* prepare_recovery, prepare_withdrawal
Recover(w) ==
    /\ "recovery" \in Kinds
    /\ \E target \in programs \ {active} : Prepare(w, graph, target, MappingsFor(target), {})
Withdraw(w) ==
    /\ "withdrawal" \in Kinds
    /\ \E target \in programs, withdraw \in SUBSET ActiveIds(graph) \ {{}} :
         Prepare(w, [revision |-> graph.revision + 1, decisions |->
                       [i \in 1 .. Count |->
                          IF i \in withdraw
                          THEN Retired(graph.decisions[i], "Withdrawn", Len(adoptions) + 1)
                          ELSE graph.decisions[i]]],
                 target, MappingsFor(target), withdraw)

-----------------------------------------------------------------------------
\* Evolutions: a program is developed that serves several needs.

Relevant == ScenesOf(graph, WithStatus(graph, {"Active", "Pending"}))

\* inherit_request: the request carries the decisions' scenes, and as they run now.
Inherits ==
    \A source \in DOMAIN MappingsFor(active) \cap {s.program : s \in Relevant} :
        LET mapped == MappingsFor(active)[source] IN
        /\ IsMapping(source, active, mapped.renames)
        /\ \A s \in {r \in Relevant : r.program = source} :
             Input(s) \in DOMAIN mapped.inputs => mapped.inputs[Input(s)] \in DOMAIN active

\* reconciliation_request
Ask(w) ==
    /\ "evolution" \in Kinds
    /\ \E needs \in SUBSET WithStatus(graph, {"Active", "Pending"}) \ {{}} :
         /\ MapThenSumSet(LAMBDA i : Cardinality(graph.decisions[i].scenes), needs) >= 2
         /\ Inherits
         /\ held' = [held EXCEPT ![w] = [kind |-> "asked", basis |-> Revision, needs |-> needs]]
    /\ UNCHANGED project

\* The inputs that the provider replaces: of scenes that bind, or are needed.
Replacements(candidate, needs) ==
    {Empty} \cup {(<<s.program, Input(s)>> :> action) :
                    s \in ScenesOf(graph, ActiveIds(graph) \cup needs), action \in DOMAIN candidate}
WithInputs(mappings, replaced) ==
    [source \in DOMAIN mappings \cup {r[1] : r \in DOMAIN replaced} |->
       LET mapped == Mapped(mappings, source)
           of == {r \in DOMAIN replaced : r[1] = source}
       IN [mapped EXCEPT !.inputs = [input \in {r[2] : r \in of} |-> replaced[<<source, input>>]] @@ @]]

\* resolve_evolution: each need is run on the candidate, and becomes a decision about it.
Successor(decision, candidate, mappings, supersedes) ==
    LET scenes == {[program |-> candidate, place |-> s.place,
                    action |-> RunsAs(Mapped(mappings, s.program), s)] : s \in Applying(decision)}
    IN [Decision([decision.scope EXCEPT !.operations = {s.action : s \in scenes}], "accept",
                 [bound |-> decision.bound, obligations |-> decision.obligations],
                 scenes, supersedes) EXCEPT !.revision = 1]
Serves(decision, candidate, mappings) ==
    /\ \A s \in decision.scenes : Matches(decision.scope, s) # "Unknown"
    /\ Exercised(decision) = decision.scope.operations
    /\ \A s \in Applying(decision) :
         LET mapped == Mapped(mappings, s.program)
             action == RunsAs(mapped, s)
         IN /\ IsMapping(s.program, candidate, mapped.renames)
            /\ action \in DOMAIN candidate /\ Kept(decision, Seen(s), Shows(candidate, action))
Suppressed(needs) ==
    [graph EXCEPT !.decisions = [i \in 1 .. Count |->
        IF i \in needs THEN [@[i] EXCEPT !.status = "Pending"] ELSE @[i]]]

\* prepare_evolution: a successor for every need; those that are retired are superseded.
Evolved(needs, retire, candidate, mappings) ==
    LET order == SetToSortSeq(needs, <)
        place == [i \in needs |-> Count + (CHOOSE k \in DOMAIN order : order[k] = i)]
    IN [revision |-> graph.revision + 1, decisions |->
          [i \in 1 .. Count |-> IF i \in retire THEN Retired(graph.decisions[i], "Superseded", place[i])
                                ELSE graph.decisions[i]]
          \o [k \in DOMAIN order |->
                Successor(graph.decisions[order[k]], candidate, mappings, {order[k]} \cap retire)]]
Develop(w) ==
    /\ held[w].kind = "asked" /\ held[w].basis = Revision
    /\ \E candidate \in Programs \ {active}, added \in Additions, retire \in SUBSET held[w].needs :
         LET needs == held[w].needs
             decisions == [i \in needs |-> graph.decisions[i]]
         IN \E replaced \in Replacements(candidate, needs) :
              LET mappings == WithInputs(Compose(candidate, added, needs), replaced) IN
              /\ CanCompose(candidate, added, needs)
              /\ \A r \in DOMAIN replaced :
                   IsMapping(r[1], candidate, Mapped(mappings, r[1]).renames)
              /\ \A i \in needs : Serves(decisions[i], candidate, mappings)
              /\ MapThenSumSet(LAMBDA i : Cardinality(Applying(decisions[i])), needs) >= 2
              /\ Ready(Suppressed(needs), candidate, mappings)
              /\ Prepare(w, Evolved(needs, retire, candidate, mappings), candidate, mappings, retire)

-----------------------------------------------------------------------------
\* Adoption.

\* adopt, adopt_verified_inner: everything is checked again, on the project as it is then.
Adopt(w) ==
    /\ held[w].kind = "prepared"
    /\ held' = [held EXCEPT ![w] = None]
    /\ LET change == held[w]
           next == change.next
           receipt == [target |-> change.target, previous |-> active, retire |-> change.retire,
                       required |-> ActiveIds(next), mappings |-> change.mappings, before |-> graph]
       IN IF /\ change.basis = Revision
             /\ Ready(next, change.target, change.mappings)
          THEN /\ active' = change.target /\ programs' = programs \cup {change.target}
               /\ graph' = next /\ adoptions' = Append(adoptions, receipt)
               /\ UNCHANGED saves
          ELSE UNCHANGED project

\* Any other save: entries are made, the day is advanced.
Save ==
    /\ saves < MaxSaves /\ saves' = saves + 1
    /\ UNCHANGED <<active, programs, graph, adoptions, held>>

Init ==
    /\ active \in Programs /\ programs = {active}
    /\ graph = [revision |-> 0, decisions |-> <<>>] /\ adoptions = <<>> /\ saves = 0
    /\ held = [w \in Windows |-> None]
Next ==
    \/ \E w \in Windows : \/ Choose(w) \/ Change(w) \/ Recover(w) \/ Withdraw(w)
                          \/ Ask(w) \/ Develop(w) \/ Adopt(w)
    \/ Save
Spec == Init /\ [][Next]_intentions

\* The values of the variables are of their kinds; the rest of what a decision holds is
\* given by the operators that make it.
TypeOK ==
    /\ active \in programs /\ programs \subseteq Programs
    /\ \A i \in 1 .. Count : graph.decisions[i].status \in {"Active", "Pending", "Superseded", "Withdrawn"}
    /\ \A w \in Windows : held[w].kind \in {"none", "asked", "prepared"}
    /\ saves \in 0 .. MaxSaves

\* check_current: what is decided holds for the program that runs.
DecisionsHold == HistoryIsValid /\ Ready(graph, active, MappingsFor(active))

\* A change that gives an action a new name can always be adopted.
Renamed(old, new) == [name \in (DOMAIN active \ {old}) \cup {new} |->
                        active[IF name = new THEN old ELSE name]]
Fresh == Names \ UNION {DOMAIN p : p \in Sources(graph) \cup {active}}
RenamesStayPossible ==
    \A old \in DOMAIN active, new \in Fresh :
        LET target == Renamed(old, new)
            added == (old :> new)
        IN CanCompose(target, added, {}) /\ Ready(graph, target, Compose(target, added, {}))

\* The request for an evolution can always be made.
ContextCanBeGiven == Inherits

\* validate_bundle
BundleIsValid ==
    \A k \in DOMAIN adoptions :
        /\ adoptions[k].target \in programs
        /\ Bound(graph, adoptions[k].target, adoptions[k].mappings)
        /\ \A source \in DOMAIN adoptions[k].mappings :
             Range(adoptions[k].mappings[source].inputs) \subseteq DOMAIN adoptions[k].target

\* decision_births: from the graph as it is, every adoption's graph is found again.
Restored(receipt, g) ==
    [revision |-> g.revision - 1, decisions |->
       [i \in DOMAIN g.decisions |->
          IF i \in receipt.retire
          THEN [g.decisions[i] EXCEPT !.by = 0, !.revision = @ - 1,
                                      !.status = IF g.decisions[i].outcome = "open"
                                                 THEN "Pending" ELSE "Active"]
          ELSE g.decisions[i]]]
Undoes(k, after) ==
    LET receipt == adoptions[k]
        restored == Restored(receipt, after).decisions
        prior == Len(receipt.before.decisions)
    IN /\ receipt.required = ActiveIds(after)
       /\ IF after = receipt.before THEN receipt.retire = {}
          ELSE /\ receipt.before.revision = after.revision - 1
               /\ prior <= Len(restored) /\ SubSeq(restored, 1, prior) = receipt.before.decisions
               /\ \A i \in receipt.retire :
                    LET d == after.decisions[i]
                    IN d.status = "Superseded" \/ (d.status = "Withdrawn" /\ d.by = k)
               /\ \A i \in prior + 1 .. Len(restored) :
                    /\ i \notin receipt.retire /\ restored[i].revision = 1
                    /\ restored[i].status \in {"Active", "Pending"}
               /\ ValidGraph(receipt.before)
HistoryCanBeWalked ==
    LET graphs == [k \in DOMAIN adoptions |-> adoptions[k].before] \o <<graph>>
    IN /\ graphs[1] = [revision |-> 0, decisions |-> <<>>]
       /\ \A k \in DOMAIN adoptions : Undoes(k, graphs[k + 1])

\* What a retired decision had shown its successor shows.
SuccessorsKeep ==
    \A i \in WithStatus(graph, {"Superseded"}) :
        LET old == graph.decisions[i]
            new == graph.decisions[old.by]
            values(d) == {Seen(s) : s \in Applying(d)}
        IN old.outcome # "open" =>
             /\ new.obligations = old.obligations
             /\ old.bound \/ old.obligations = {} => values(old) \ {0} \subseteq values(new)

\* What the owner decided stays binding: it holds for the program that runs, after every
\* adoption, recovery and withdrawal; no decision makes a mere renaming impossible, or the
\* request for a program that serves several of them; the folder's bundle stays valid and
\* its history can be walked back; and a decision that replaces another keeps what it had
\* shown.
IntentionsAreKept ==
    /\ DecisionsHold
    /\ RenamesStayPossible
    /\ ContextCanBeGiven
    /\ BundleIsValid
    /\ HistoryCanBeWalked
    /\ SuccessorsKeep
=============================================================================
