--------------------------- MODULE RuleDecisions ---------------------------
(* Rule changes of the order tool (tool_decisions.rs): each is previewed on    *)
(* copied records, confirmed for a frozen scope, and can be withdrawn.         *)
(*                                                                             *)
(* Bindings are an append-only overlay on the first behavior: for a record, or *)
(* for the records to come, the latest one that applies governs each rule.     *)
(* One window is modelled step by step; the others save between its steps, and *)
(* each save is one step (OrderStore shows how it becomes one).                *)
EXTENDS Naturals, SequencesExt

CONSTANTS
    Candidates, Scopes,                 \* the rules and scopes that are proposed
    MaxRecords, MaxRevisions, MaxSaves  \* bounds: records, revisions, saves

\* RuleKey; the timer rule is independent of the others.
Keys == {"due", "reminder"}
Policies == [Keys -> 1 .. 2]
\* ScopeKind: "SingleRecord", "FutureRecords", "IncompleteAndFuture" or
\* "AllExistingAndFuture".

VARIABLES
    project,    \* the saved project
    seen,       \* the project the window shows
    preview     \* the window's last preview

rules == <<project, seen, preview>>

Future == 0     \* the target that stands for the records to come
None == [kind |-> "none"]

\* ProjectSnapshot::new, and a first record: the first revision is the fallback.
Created ==
    [generation |-> 0, sequence |-> 1, records |-> <<[created |-> 1, terminal |-> FALSE]>>,
     revisions |-> <<[k \in Keys |-> 1]>>, bindings |-> <<>>,
     decisions |-> <<>>]

Init == project = Created /\ seen = Created /\ preview = None

Records(p) == DOMAIN p.records
Targets(p) == Records(p) \cup {Future}
Incomplete(p) == {r \in Records(p) : ~ p.records[r].terminal}

-----------------------------------------------------------------------------
FreezeScope(p, kind, record) ==
    [kind |-> kind,
     ids |-> CASE kind = "SingleRecord" -> {record}
               [] kind = "FutureRecords" -> {}
               [] kind = "IncompleteAndFuture" -> Incomplete(p)
               [] kind = "AllExistingAndFuture" -> Records(p),
     future |-> kind # "SingleRecord",
     from |-> p.sequence + 1, generation |-> p.generation]

\* Whether a record is in a scope: frozen in it, or created since.
InScope(p, scope, r) == r \in scope.ids \/ (scope.future /\ p.records[r].created >= scope.from)

Applies(p, binding, target) ==
    IF target = Future
    THEN binding.record = Future /\ binding.scope.future
    ELSE binding.record \in {Future, target} /\ InScope(p, binding.scope, target)

\* The bindings, among the first n, that apply to a target for a rule.
Applying(p, n, key, target) ==
    {i \in 1 .. n : p.bindings[i].key = key /\ Applies(p, p.bindings[i], target)}

LatestBinding(p, n, key, target) ==
    LET all == Applying(p, n, key, target) IN IF all = {} THEN 0 ELSE Max(all)

RevisionOf(p, i) == IF i = 0 THEN 1 ELSE p.bindings[i].revision

\* resolved_policy_from: each rule from its own latest binding.
PolicyAt(p, n, target) ==
    [key \in Keys |-> p.revisions[RevisionOf(p, LatestBinding(p, n, key, target))][key]]
Policy(p, target) == PolicyAt(p, Len(p.bindings), target)

\* What an example that has waited shows: its delivery day, and its reminder, which
\* counts to that day.
Observed(policy) ==
    [key \in Keys |-> IF key = "due" THEN <<policy["due"]>>
                                     ELSE <<policy["due"], policy["reminder"]>>]

\* A confirmed outcome differs, for some target of the decision's scope, from what it was
\* under the bindings the decision was adopted with.
Differs(p, d) ==
    \E target \in {r \in Records(p) : InScope(p, d.scope, r)}
                    \cup (IF d.scope.future THEN {Future} ELSE {}) :
        \E key \in d.keys :
            Observed(Policy(p, target))[key]
              # Observed(PolicyAt(p, d.baseline, target))[key]

\* check_decisions: the active decisions a candidate would contradict.
Conflicts(p, excluded) ==
    {i \in DOMAIN p.decisions \ excluded :
        p.decisions[i].status = "Active" /\ Differs(p, p.decisions[i])}

-----------------------------------------------------------------------------
\* append_binding.
Binding(key, target, revision, scope) ==
    [key |-> key, record |-> target, revision |-> revision, scope |-> scope]

\* bind_change: the new revision, bound for each chosen rule.
Bind(p, q) ==
    LET target == IF q.scope.kind = "SingleRecord" THEN CHOOSE r \in q.scope.ids : TRUE ELSE Future
        Bound(key) == Binding(key, target, Len(p.revisions) + 1, q.scope)
    IN [p EXCEPT !.revisions = Append(@, q.policy),
                 !.bindings = @ \o SetToSeq({Bound(key) : key \in q.keys})]

\* validate_request; the panel always compares the delivery rule.
Replaceable(p) == {i \in DOMAIN p.decisions : p.decisions[i].status \in {"Active", "Pending"}}

\* change_request: a record's copy is the example; where the record itself is not in the
\* scope, it stands for the records to come.
Request(p, record, kind, candidate, supersedes) ==
    LET scope == FreezeScope(p, kind, record)
    IN [keys |-> candidate.keys, policy |-> candidate.policy, scope |-> scope,
        supersedes |-> supersedes, target |-> IF record \in scope.ids THEN record ELSE Future]

Requests(p) ==
    {Request(p, r, kind, candidate, supersedes) :
        r \in Records(p), kind \in Scopes, candidate \in Candidates,
        supersedes \in {{}} \cup {{i} : i \in Replaceable(p)}}

Decision(p, q, status, revision) ==
    [status |-> status, keys |-> q.keys, revision |-> revision, scope |-> q.scope,
     target |-> q.target, baseline |-> Len(p.bindings),
     supersedes |-> q.supersedes, withdraws |-> 0]

Marked(decisions, which, status) ==
    [i \in DOMAIN decisions |->
        IF i \in which THEN [decisions[i] EXCEPT !.status = status] ELSE decisions[i]]

\* prepare_adoption: the decision is active, those it replaces are superseded.
Adopted(p, q) ==
    LET bound == Bind(p, q)
    IN [bound EXCEPT !.decisions =
            Append(Marked(@, q.supersedes, "Superseded"),
                   Decision(bound, q, "Active", Len(bound.revisions)))]

\* prepare_unresolved: both, neither or defer; no rule changes.
Unresolved(p, q) == [p EXCEPT !.decisions = Append(@, Decision(p, q, "Pending", 0))]

Withdrawn(p) == {p.decisions[i].withdraws : i \in DOMAIN p.decisions} \ {0}
Adopting(p, revision) == {i \in DOMAIN p.decisions : p.decisions[i].revision = revision}
Withdrawable(p) ==
    {v \in 2 .. Len(p.revisions) : v \notin Withdrawn(p) /\ Adopting(p, v) # {}}

\* The predecessor whose rule returns: the latest that is not withdrawn, else the first.
Restored(p, i, key, target, withdrawn) ==
    LET before == {j \in Applying(p, i - 1, key, target) :
                     p.bindings[j].revision \notin withdrawn}
    IN RevisionOf(p, IF before = {} THEN 0 ELSE Max(before))

\* rehearse_withdrawal: where the revision governs, the predecessor is bound anew; a later
\* choice stays.
Compensations(p, revision) ==
    LET Latest(x) == LatestBinding(p, Len(p.bindings), x.key, x.target)
        Governed == {x \in [target : Targets(p), key : Keys] :
                       Latest(x) # 0 /\ p.bindings[Latest(x)].revision = revision}
        ScopeOf(target) ==
            FreezeScope(p, IF target = Future THEN "FutureRecords" ELSE "SingleRecord", target)
    IN {Binding(x.key, x.target,
                Restored(p, Latest(x), x.key, x.target, Withdrawn(p) \cup {revision}),
                ScopeOf(x.target)) : x \in Governed}

\* The compensating revision records the policy that the records to come then have.
WithdrawnCandidate(p, revision) ==
    LET bound == [p EXCEPT !.bindings = @ \o SetToSeq(Compensations(p, revision))]
        active == {i \in Adopting(p, revision) : p.decisions[i].status = "Active"}
        receipt == [status |-> "Withdrawn", keys |-> {}, revision |-> 0,
                    scope |-> FreezeScope(p, "FutureRecords", Future),
                    target |-> Future, baseline |-> Len(bound.bindings),
                    supersedes |-> {}, withdraws |-> revision]
    IN [bound EXCEPT !.revisions = Append(@, Policy(bound, Future)),
                     !.decisions = Append(Marked(@, active, "Withdrawn"), receipt)]

-----------------------------------------------------------------------------
\* scope_matches_confirmation and binding_scope_matches_target.
ScopeMatches(p, scope) ==
    /\ scope.generation = p.generation
    /\ CASE scope.kind = "SingleRecord" -> \E r \in Records(p) : scope.ids = {r}
         [] scope.kind = "FutureRecords" -> scope.ids = {}
         [] scope.kind = "IncompleteAndFuture" -> scope.ids = Incomplete(p)
         [] scope.kind = "AllExistingAndFuture" -> scope.ids = Records(p)

BindingMatches(binding) ==
    IF binding.scope.kind = "SingleRecord" THEN binding.scope.ids = {binding.record}
                                           ELSE binding.record = Future

\* ScopeSelection::validate, and the records it names.
ValidScope(p, scope) ==
    /\ scope.ids \subseteq Records(p) /\ scope.future = (scope.kind # "SingleRecord")
    /\ scope.kind = "SingleRecord" => \E r \in scope.ids : scope.ids = {r}
    /\ scope.kind = "FutureRecords" => scope.ids = {}

\* The bindings and the decisions of ProjectSnapshot::validate.
ValidBindings(p) ==
    \A i \in DOMAIN p.bindings :
        /\ p.bindings[i].revision \in DOMAIN p.revisions
        /\ p.bindings[i].record \in Targets(p) /\ ValidScope(p, p.bindings[i].scope)
ValidDecisions(p) ==
    \A i \in DOMAIN p.decisions :
        ValidScope(p, p.decisions[i].scope) /\ p.decisions[i].supersedes \subseteq 1 .. i - 1

Changes == {<<"Pending", "Active">>, <<"Pending", "Superseded">>, <<"Pending", "Withdrawn">>,
            <<"Active", "Superseded">>, <<"Active", "Withdrawn">>}

\* decisions_preserved: only the status changes, and a superseded decision has a
\* replacement among the new ones.
DecisionsPreserved(old, new) ==
    LET appended == DOMAIN new \ DOMAIN old IN
    /\ \A i \in DOMAIN old :
         /\ [new[i] EXCEPT !.status = old[i].status] = old[i]
         /\ new[i].status # old[i].status => <<old[i].status, new[i].status>> \in Changes
         /\ new[i].status = "Superseded" /\ old[i].status # "Superseded" =>
              \E j \in appended : i \in new[j].supersedes
    /\ \A j \in appended : \A i \in new[j].supersedes : new[i].status = "Superseded"

\* validate_append_only, before a candidate becomes the project.
AppendOnly(p, candidate) ==
    /\ IsPrefix(p.bindings, candidate.bindings) /\ IsPrefix(p.revisions, candidate.revisions)
    /\ DecisionsPreserved(p.decisions, candidate.decisions)
    /\ \A i \in DOMAIN candidate.bindings \ DOMAIN p.bindings :
         /\ ScopeMatches(p, candidate.bindings[i].scope) /\ BindingMatches(candidate.bindings[i])
    /\ \A i \in DOMAIN candidate.decisions \ DOMAIN p.decisions :
         ScopeMatches(p, candidate.decisions[i].scope)

Storable(p, candidate) ==
    AppendOnly(p, candidate) /\ ValidBindings(candidate) /\ ValidDecisions(candidate)

\* The store's commit: refused when the project has moved on, and then read again.
Commit(candidate) ==
    IF candidate.generation = project.generation
    THEN /\ Storable(project, candidate)
         /\ project' = [candidate EXCEPT !.generation = @ + 1] /\ seen' = project'
    ELSE project' = project /\ seen' = project

-----------------------------------------------------------------------------
\* apply_command: a record takes the next sequence number; an edit, or the last stage.
WithRecord(p) ==
    [p EXCEPT !.sequence = @ + 1,
              !.records = Append(@, [created |-> p.sequence + 1, terminal |-> FALSE])]
WithCompletion(p, r) ==
    [p EXCEPT !.sequence = @ + 1, !.records[r].terminal = TRUE]

RecordChanges(p) ==
    (IF Len(p.records) < MaxRecords THEN {WithRecord(p)} ELSE {})
      \cup {WithCompletion(p, r) : r \in Incomplete(p)}

Room(p) == Len(p.revisions) < MaxRevisions
Withdrawals(p) ==
    IF ~ Room(p) THEN {}
    ELSE {WithdrawnCandidate(p, v) :
            v \in {x \in Withdrawable(p) :
                     Conflicts(WithdrawnCandidate(p, x), Adopting(p, x)) = {}}}
Unanswered(p) ==
    IF \E i \in DOMAIN p.decisions : p.decisions[i].status = "Pending" THEN {}
    ELSE {Unresolved(p, q) : q \in {x \in Requests(p) :
            x.supersedes = {} /\ x.keys = {"due"}}}

Saves(p) == p.generation < MaxSaves

\* A record is added or completed in the window; the preview is not fresh any more.
ChangeRecord ==
    /\ Saves(seen) /\ \E candidate \in RecordChanges(seen) : Commit(candidate)
    /\ UNCHANGED preview

\* What the preview shows: the rules of the affected records, and of the records to come.
Shown(candidate, ids) == [target \in ids \cup {Future} |-> Policy(candidate, target)]

\* rehearse_change.
Rehearse ==
    /\ Saves(seen) /\ Room(seen) /\ preview = None
    /\ \E q \in Requests(seen) :
         preview' = [kind |-> "change", generation |-> seen.generation, request |-> q,
                     shown |-> Shown(Bind(seen, q), q.scope.ids)]
    /\ UNCHANGED <<project, seen>>

RehearseWithdrawal ==
    /\ Saves(seen) /\ Room(seen) /\ preview = None
    /\ \E v \in Withdrawable(seen) :
         preview' = [kind |-> "withdrawal", generation |-> seen.generation, revision |-> v,
                     shown |-> Shown(WithdrawnCandidate(seen, v),
                                     {b.record : b \in Compensations(seen, v)} \ {Future})]
    /\ UNCHANGED <<project, seen>>

\* same_input_context, and the comparison with a rehearsal made anew.
Fresh == preview # None /\ preview.generation = seen.generation

\* What the window would save for its preview, when nothing speaks against it.
Prepared ==
    IF ~ Fresh THEN {}
    ELSE IF preview.kind = "change"
    THEN LET q == preview.request
         IN IF Conflicts(Bind(seen, q), q.supersedes) = {} THEN {Adopted(seen, q)} ELSE {}
    ELSE LET candidate == WithdrawnCandidate(seen, preview.revision)
         IN IF Conflicts(candidate, Adopting(seen, preview.revision)) = {} THEN {candidate}
            ELSE {}

\* SaveDecision and ConfirmWithdrawal.
SavePreview ==
    /\ \E candidate \in Prepared : Commit(candidate)
    /\ preview' = None

\* A preview that cannot be saved is made again, or left.
Dismiss == preview # None /\ preview' = None /\ UNCHANGED <<project, seen>>

\* The choice is put off.
SaveUnresolved ==
    /\ Saves(seen) /\ preview = None /\ \E candidate \in Unanswered(seen) : Commit(candidate)
    /\ UNCHANGED preview

\* Another window saves, always on the project as it is, as this one could have.
OtherSaves ==
    /\ Saves(project) /\ seen = project /\ preview # None
    /\ \E candidate \in RecordChanges(project) \cup Withdrawals(project) :
         Storable(project, candidate)
           /\ project' = [candidate EXCEPT !.generation = @ + 1]
    /\ UNCHANGED <<seen, preview>>

Reopen == seen # project /\ seen' = project /\ UNCHANGED <<project, preview>>

Next ==
    \/ ChangeRecord \/ Rehearse \/ RehearseWithdrawal \/ SavePreview \/ Dismiss
    \/ SaveUnresolved \/ OtherSaves \/ Reopen

Spec == Init /\ [][Next]_rules

-----------------------------------------------------------------------------
Statuses == {"Active", "Pending", "Superseded", "Withdrawn"}

\* The project, and the project shown, have the form of a project.
IsProject(p) ==
    /\ p.generation \in 0 .. MaxSaves /\ p.sequence \in Nat
    /\ \A r \in Records(p) : p.records[r].created \in 1 .. p.sequence
    /\ \A v \in DOMAIN p.revisions : p.revisions[v] \in Policies
    /\ \A i \in DOMAIN p.bindings : p.bindings[i].revision \in DOMAIN p.revisions
    /\ \A i \in DOMAIN p.decisions : p.decisions[i].status \in Statuses

TypeOK ==
    /\ IsProject(project) /\ IsProject(seen)
    /\ preview.kind \in {"none", "change", "withdrawal"}

\* A revision that was withdrawn governs no record, and none to come, ever again.
WithdrawnIsGone ==
    \A target \in Targets(project), key \in Keys :
        RevisionOf(project, LatestBinding(project, Len(project.bindings), key, target))
          \notin Withdrawn(project)

\* Whatever is adopted, withdrawn or added later, each active decision still shows its
\* confirmed outcomes for every record of its scope and for those to come.
DecisionsHold == Conflicts(project, {}) = {}

\* A record that is added is governed by what the future default was.
NewRecordsFollow ==
    Policy(WithRecord(project), Len(project.records) + 1) = Policy(project, Future)

\* A save that is not refused changes the rules shown in its preview, to what was shown,
\* and no others.
PreviewIsKept ==
    \A candidate \in Prepared : seen = project =>
        \A target \in Targets(project) :
            Policy(candidate, target) =
              IF target \in DOMAIN preview.shown THEN preview.shown[target]
                                                 ELSE Policy(project, target)

\* The store refuses nothing that was prepared on the project as it is.
PreparedIsStorable ==
    \A candidate \in Prepared : seen = project => Storable(project, candidate)

\* Rule changes do what their previews said, for the records they said, until they are
\* withdrawn for good.
RulesAreKept ==
    WithdrawnIsGone /\ DecisionsHold /\ NewRecordsFollow /\ PreviewIsKept
      /\ PreparedIsStorable
=============================================================================
