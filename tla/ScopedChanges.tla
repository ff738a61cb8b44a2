---------------------------- MODULE ScopedChanges ----------------------------
(* Changes of a generated tool that apply to some of its records only          *)
(* (product_store/scope). A change is a layer over the tool's own program: its *)
(* rules hold for the records of its population, as of its adoption, and a     *)
(* record that is completed keeps the results it had, whatever is adopted,     *)
(* withdrawn or redesigned later. The program that runs is compiled from the   *)
(* layers, and every save checks the layers, the programs and the records'     *)
(* protected cells again, from the beginning.                                  *)
(*                                                                             *)
(* One entity is modelled. A rule is a number; on a record it gives a value    *)
(* that tells which rule, on which facts, on which day. What one window has    *)
(* prepared may be stale when it is adopted: the other window goes on working. *)
EXTENDS Naturals, FiniteSetsExt, SequencesExt

CONSTANTS
    Columns,        \* view columns: a completed record's value is saved
    Fields,         \* stored fields: a completed record's value is not rewritten
    MaxRows, MaxEvents, MaxChanges, MaxDay

Slots == Columns \cup Fields
Population == {"All", "FutureWork", "SelectedUnfinished"}

VARIABLES
    project,        \* the ProjectSnapshot on disk
    held,           \* PreparedScopedChanges in a window's hands, not yet adopted
    stuck           \* ghost: a save of a legal step was refused by the checks

scoped == <<project, held, stuck>>

-----------------------------------------------------------------------------
\* The compiled program (compiler.rs). A composition has the rules of its own program, how
\* many layers there are, which are active, and for each layer's patch, named by the slot it
\* was made for, the slot where it is now and the rule that it puts there.

\* The composition of the active program: each adoption adds one.
Active(s) == Last(s.manifests)

\* own_row: an effect reads nothing but its own record and the day.
Value(rule, row, d) == [rule |-> rule, of |-> row.facts, day |-> d]

\* effective_patch: the layers that have a patch at the slot now, and the patch.
Covering(m, slot) == {k \in 1 .. m.layers : \E p \in DOMAIN m.slot[k] : m.slot[k][p] = slot}
Patch(m, k, slot) == CHOOSE p \in DOMAIN m.slot[k] : m.slot[k][p] = slot

\* A shared slot is reset once, to its earliest retained meaning.
Base(s, m, slot) ==
    IF Covering(m, slot) = {} THEN m.business[slot]
    ELSE LET k == Min(Covering(m, slot)) IN s.layers[k].before[Patch(m, k, slot)]

\* envelope_app: the layers wrap the slot in their order. A completed record keeps its saved
\* value, or what is stored; a member of an active layer has the layer's rule.
Live(s, m, row, slot, d) ==
    LET Wrapped(old, k) ==
          LET cell == row.cells[k]
              p == Patch(m, k, slot)
          IN IF cell.sealed THEN (IF slot \in Columns THEN cell.saved[p] ELSE row.stored[slot])
             ELSE IF k \in m.active /\ cell.member THEN Value(m.after[k][p], row, d)
             ELSE old
        Wrap(old, k) == IF k \in Covering(m, slot) THEN Wrapped(old, k) ELSE old
    IN FoldLeft(Wrap, Value(Base(s, m, slot), row, d), [k \in 1 .. m.layers |-> k])

\* business_program: the rules that an author is shown and edits.
BusinessProgram(s, m) ==
    [slot \in Slots |->
        LET live == Covering(m, slot) \cap m.active
        IN IF live = {} THEN Base(s, m, slot)
           ELSE LET k == Max(live) IN m.after[k][Patch(m, k, slot)]]

Forward(layer) == layer.population \in {"All", "FutureWork"}

Unsealed(member) ==
    [member |-> member, sealed |-> FALSE, saved |-> <<>>, day |-> 0, origin |-> "none"]

\* instrument: a new record is stamped by every layer there is.
Stamped(s, m) == [k \in 1 .. m.layers |-> Unsealed(k \in m.active /\ Forward(s.layers[k]))]

\* The assignments of one pass: the results shown, the day and where they are from.
Captured(s, m, k, row, d, origin) ==
    [row.cells[k] EXCEPT
        !.sealed = TRUE, !.day = d, !.origin = origin,
        !.saved = [p \in DOMAIN m.slot[k] \cap Columns |-> Live(s, m, row, m.slot[k][p], d)]]

\* sealing_passes: one pass for each layer, in their order, over what is not sealed yet.
Seals(s, m, row, d, origin) ==
    LET Pass(r, k) ==
          IF r.cells[k].sealed THEN r
          ELSE [r EXCEPT !.cells[k] = Captured(s, m, k, r, d, origin)]
    IN FoldLeft(Pass, row, [k \in 1 .. m.layers |-> k])

-----------------------------------------------------------------------------
\* A layer and its first cells (history.rs).

Terminal(row) == row.done \/ row.archived

\* initial_member.
InitialMember(layer, i) ==
    /\ i \notin layer.excluded
    /\ \/ layer.population = "All"
       \/ layer.population = "SelectedUnfinished" /\ i \in layer.records

\* initialize_frame: a record that is completed when the layer is adopted keeps what the
\* program before the layer shows of it.
Initialized(s, layer, i) ==
    LET row == layer.basis.rows[i]
        m == s.manifests[layer.basis.active]
        member == InitialMember(layer, i)
    IN IF ~Terminal(row) THEN Unsealed(member)
       ELSE [member |-> member, sealed |-> TRUE, day |-> layer.basis.day,
             origin |-> "CapturedAtAdoption",
             saved |-> [p \in DOMAIN layer.before \cap Columns |->
                            Live(s, m, row, p, layer.basis.day)]]

\* FrozenBasis: what a change was prepared from.
Basis(s) ==
    [rows |-> s.rows, events |-> s.events, day |-> s.day, revision |-> s.revision,
     active |-> Len(s.manifests)]

\* request_valid: selected records are unfinished and not excluded.
RequestValid(layer) ==
    /\ layer.excluded \subseteq DOMAIN layer.basis.rows
    /\ layer.population = "SelectedUnfinished" =>
          /\ layer.records # {} /\ layer.records \cap layer.excluded = {}
          /\ \A i \in layer.records : ~Terminal(layer.basis.rows[i])

\* validate_mappings: every patch has one slot of its kind, and no two patches the same; a
\* stored field stays itself.
MappingsValid(m, to) ==
    LET patches == {<<k, p>> : k \in 1 .. m.layers, p \in Slots} IN
    LET mapped == {q \in patches : q[2] \in DOMAIN m.slot[q[1]]} IN
    /\ \A q \in mapped : q[2] \in Fields => to[q[1]][q[2]] = q[2]
    /\ \A q \in mapped : q[2] \in Columns => to[q[1]][q[2]] \in Columns
    /\ \A q, r \in mapped : to[q[1]][q[2]] = to[r[1]][r[2]] => q = r

-----------------------------------------------------------------------------
\* The checks of a save (verify.rs, history.rs, rehearsal.rs).

\* verify::validate: a layer's request, its patches and its receipt regenerate.
LayersRegenerate(s) ==
    \A k \in DOMAIN s.layers :
        LET layer == s.layers[k]
            business == BusinessProgram(s, s.manifests[layer.basis.active])
        IN /\ RequestValid(layer)
           /\ \A p \in DOMAIN layer.before : layer.before[p] = business[p]
           /\ layer.basis.revision < s.revision

\* verify::validate: every composition is the one before it, changed as its transition may.
FollowsFrom(m, prior, layers) ==
    CASE m.transition = "Adoption" ->
           /\ m.layers = prior.layers + 1 /\ m.active = prior.active \cup {m.layers}
           /\ \A k \in 1 .. prior.layers :
                 m.slot[k] = prior.slot[k] /\ m.after[k] = prior.after[k]
           /\ layers[m.layers].basis = m.basis
      [] m.transition = "Withdrawal" ->
           /\ m.layers = prior.layers /\ m.slot = prior.slot /\ m.after = prior.after
           /\ m.business = prior.business
           /\ m.active \subseteq prior.active /\ m.active # prior.active
      [] m.transition = "Evolution" ->
           /\ m.layers = prior.layers /\ m.active = prior.active
           /\ MappingsValid(prior, m.slot)

\* adoption_history: the receipts lead from the first program to the active one, each made
\* from exactly the state that it was adopted on.
ReceiptsLink(s) ==
    \A n \in 2 .. Len(s.manifests) :
        LET m == s.manifests[n] IN
        /\ m.basis.active = n - 1 /\ m.adopted = m.basis.revision + 1
        /\ FollowsFrom(m, s.manifests[n - 1], s.layers)

\* rehearsal::validate: a recorded proof follows from its own basis, and is never active.
RehearsalsRegenerate(s) ==
    \A proof \in s.rehearsals :
        /\ proof.manifest.transition # "Withdrawal"
        /\ proof.manifest.adopted = proof.manifest.basis.revision + 1
        /\ proof.manifest.adopted <= s.revision
        /\ FollowsFrom(proof.manifest, s.manifests[proof.manifest.basis.active], proof.layers)
        /\ proof.manifest \notin ToSet(s.manifests)

\* The facts of a record that are not protected cells.
Business(row) ==
    [facts |-> row.facts, done |-> row.done, archived |-> row.archived, stored |-> row.stored,
     born |-> row.born]

\* verify_history_frames, for one event of a record: its cell of layer k before and after.
EventHolds(s, k, e, old, new) ==
    LET m == s.manifests[e.program]
        unsealed == [e.after EXCEPT !.cells = [j \in DOMAIN @ |->
            IF e.born \/ ~e.before.cells[j].sealed THEN Unsealed(@[j].member) ELSE @[j]]]
    IN /\ new.member = old.member
       /\ Terminal(e.after) => new.sealed
       /\ (old.sealed \/ ~new.sealed) => new = old
       /\ old.sealed => \A p \in DOMAIN m.slot[k] \cap Fields :
                            e.after.stored[p] = e.before.stored[p]
       /\ (new.sealed /\ ~old.sealed) =>
             /\ new.day = e.day
             /\ \/ new.origin = "ObservedAtArchive" /\ e.after.archived
                \/ new.origin = "ObservedAtCompletion" /\ e.after.done
             /\ new.saved = [p \in DOMAIN m.slot[k] \cap Columns |->
                                Live(s, m, unsealed, m.slot[k][p], e.day)]

\* verify_history_frames: the cells of layer k follow from its adoption, or from the record's
\* birth, through the recorded events to what is stored now.
RecordHolds(s, k, i) ==
    LET layer == s.layers[k]
        row == s.rows[i]
        was == i \in DOMAIN layer.basis.rows
        later == SubSeq(s.events, Len(layer.basis.events) + 1, Len(s.events))
        own == SelectSeq(later, LAMBDA e : e.row = i)
        Cell(j) ==
            IF j > 0 THEN own[j].after.cells[k]
            ELSE IF was THEN Initialized(s, layer, i)
            ELSE Stamped(s, s.manifests[own[1].program])[k]
        Facts(j) == Business(IF j > 0 THEN own[j].after ELSE layer.basis.rows[i])
    IN /\ was \/ own # <<>>
       /\ \A j \in DOMAIN own :
             /\ own[j].born <=> ~was /\ j = 1
             /\ own[j].born => own[j].after.born = own[j].program
             /\ ~own[j].born =>
                   /\ Business(own[j].before) = Facts(j - 1) /\ ~own[j].before.archived
                   /\ own[j].before.cells[k] = Cell(j - 1)
             /\ EventHolds(s, k, own[j], Cell(j - 1), Cell(j))
       /\ Business(row) = Facts(Len(own)) /\ row.cells[k] = Cell(Len(own))
       /\ row.cells[k].sealed <=> Terminal(row)

\* verify_history.
HistoryHolds(s) ==
    \A k \in DOMAIN s.layers :
        /\ IsPrefix(s.layers[k].basis.events, s.events)
        /\ Len(s.layers[k].basis.rows) <= Len(s.rows)
        /\ \A i \in DOMAIN s.rows : RecordHolds(s, k, i)

\* verify_snapshot.
Valid(s) ==
    /\ LayersRegenerate(s) /\ ReceiptsLink(s) /\ RehearsalsRegenerate(s)
    /\ HistoryHolds(s)

\* A save is refused when the checks do not hold.
Save(s) ==
    IF Valid(s) THEN project' = s /\ stuck' = stuck
    ELSE stuck' = TRUE /\ project' = project

-----------------------------------------------------------------------------
Init ==
    /\ project = [day |-> 0, rows |-> <<>>, events |-> <<>>, layers |-> <<>>,
                  rehearsals |-> {}, revision |-> 0,
                  manifests |-> <<[transition |-> "none", layers |-> 0, active |-> {},
                                   business |-> [slot \in Slots |-> 0], slot |-> <<>>,
                                   after |-> <<>>, basis |-> <<>>, adopted |-> 0]>>]
    /\ held = {} /\ stuck = FALSE

\* apply: an action of the compiled program ends with a sealing pass over what is completed,
\* and with the constraint that a protected result is of a completed record.
Apply(i, born, before, after) ==
    LET m == Active(project)
        row == IF after.done /\ ~after.archived
               THEN Seals(project, m, after, project.day, "ObservedAtCompletion") ELSE after
    IN /\ Len(project.events) < MaxEvents
       /\ \A k \in 1 .. m.layers : row.cells[k].sealed => Terminal(row)
       /\ Save([project EXCEPT
                   !.rows = IF born THEN Append(@, row) ELSE [@ EXCEPT ![i] = row],
                   !.events = Append(@, [row |-> i, born |-> born, before |-> before,
                                         after |-> row, program |-> Len(project.manifests),
                                         day |-> project.day]),
                   !.revision = @ + 1])
       /\ UNCHANGED held

\* A record is created.
Create ==
    LET row == [facts |-> 0, done |-> FALSE, archived |-> FALSE, born |-> Len(project.manifests),
                stored |-> [f \in Fields |-> [rule |-> 0, of |-> 0, day |-> 0]],
                cells |-> Stamped(project, Active(project))]
    IN Len(project.rows) < MaxRows /\ Apply(Len(project.rows) + 1, TRUE, row, row)

Change(i, after) == after # project.rows[i] /\ Apply(i, FALSE, project.rows[i], after)

\* Work on a record: facts are edited, a derived field is written, the work is completed or
\* opened again.
Edit(i) == Change(i, [project.rows[i] EXCEPT !.facts = 1 - @])
Assign(i, f) ==
    Change(i, [project.rows[i] EXCEPT !.stored[f] =
                  Live(project, Active(project), project.rows[i], f, project.day)])
Finish(i) == Change(i, [project.rows[i] EXCEPT !.done = ~@])

\* A record is archived: what is not sealed is sealed first.
Archive(i) ==
    Change(i, [Seals(project, Active(project), project.rows[i], project.day,
                     "ObservedAtArchive") EXCEPT !.archived = TRUE])

Work ==
    \/ Create
    \/ \E i \in DOMAIN project.rows :
          /\ ~project.rows[i].archived
          /\ \/ Edit(i) \/ Finish(i) \/ Archive(i)
             \/ \E f \in Fields : Assign(i, f)

\* The project's day.
DayPasses ==
    /\ project.day < MaxDay
    /\ Save([project EXCEPT !.day = @ + 1, !.revision = @ + 1])
    /\ UNCHANGED held

-----------------------------------------------------------------------------
\* Changes: prepared from a loaded project, adopted if the project is still that one.

\* The rule numbers of a change: no two changes have the same.
NewRule(s) == Len(s.manifests)

Installed(s, m) ==
    [s EXCEPT !.manifests = Append(@, [m EXCEPT !.basis = Basis(s), !.adopted = s.revision + 1]),
              !.revision = @ + 1]

\* prepare: a new layer. The candidate is the program an author is shown, with other rules at
\* the patches' slots.
NewLayer(s, population, records, excluded, patches) ==
    LET m == Active(s)
        business == BusinessProgram(s, m)
        rule == [p \in patches |-> NewRule(s)]
        layer == [population |-> population, records |-> records, excluded |-> excluded,
                  before |-> [p \in patches |-> business[p]], basis |-> Basis(s)]
        installed == Installed(s,
            [m EXCEPT !.transition = "Adoption", !.layers = @ + 1,
                      !.active = @ \cup {m.layers + 1},
                      !.business = [slot \in Slots |-> IF slot \in patches THEN NewRule(s)
                                                       ELSE business[slot]],
                      !.slot = Append(@, [p \in patches |-> p]), !.after = Append(@, rule)])
    IN [installed EXCEPT
           !.layers = Append(@, layer),
           !.rows = [i \in DOMAIN @ |->
                        [@[i] EXCEPT !.cells = Append(@, Initialized(s, layer, i))]]]

\* prepare_withdrawal: layers stop; their records keep their cells.
Withdrawn(s, ks) ==
    Installed(s, [Active(s) EXCEPT !.transition = "Withdrawal", !.active = @ \ ks])

\* prepare_evolution: a redesign of the whole program; each patch is given its new slot, and
\* puts there what the redesign has at that slot.
Evolved(s, to, changed) ==
    LET m == Active(s)
        business == BusinessProgram(s, m)
        candidate == [slot \in Slots |-> IF slot \in changed THEN NewRule(s) ELSE business[slot]]
    IN Installed(s, [m EXCEPT !.transition = "Evolution", !.business = candidate, !.slot = to,
                              !.after = [k \in DOMAIN @ |->
                                  [p \in DOMAIN @[k] |-> candidate[to[k][p]]]]])

\* The slots a redesign may give the patches.
Targets(m) ==
    LET Of(k) == [DOMAIN m.slot[k] -> Slots]
    IN {to \in [1 .. m.layers -> UNION {Of(k) : k \in 1 .. m.layers}] :
           /\ \A k \in 1 .. m.layers : to[k] \in Of(k)
           /\ MappingsValid(m, to)}

Changes(s) == Len(s.manifests) - 1 + Cardinality(s.rehearsals)

\* Mutated form of Adopt: what was prepared from an older project is installed.
AdoptAnyway(next) ==
    Save([next EXCEPT !.revision = project.revision + 1,
                      !.manifests[Len(next.manifests)].adopted = project.revision + 1])

\* adopt_scoped_inner: what was prepared is installed if it is regenerated exactly from the
\* project as it is now.
Adopt(next) ==
    /\ Last(next.manifests).basis = Basis(project)
    /\ Save([next EXCEPT !.revision = project.revision + 1,
                         !.manifests[Len(next.manifests)].adopted = project.revision + 1])

\* A change is prepared and adopted before anything else happens.
AdoptLayer ==
    \E population \in Population, patches \in SUBSET Slots \ {{}} :
    \E records, excluded \in SUBSET (DOMAIN project.rows) :
        LET next == NewLayer(project, population, records, excluded, patches) IN
        /\ population # "SelectedUnfinished" => records = {}
        /\ RequestValid(Last(next.layers))
        /\ Adopt(next)
Withdraw ==
    \E ks \in SUBSET Active(project).active \ {{}} : Adopt(Withdrawn(project, ks))
Evolve ==
    /\ Active(project).layers > 0
    /\ \E to \in Targets(Active(project)), changed \in SUBSET Slots :
          /\ changed # {} \/ to # Active(project).slot
          /\ Adopt(Evolved(project, to, changed))

\* retain_rehearsal: what was prepared is recorded beside a pending decision; nothing that
\* runs changes.
Recorded(next) ==
    Save([project EXCEPT
             !.rehearsals = @ \cup {[manifest |-> Last(next.manifests), layers |-> next.layers]},
             !.revision = @ + 1])
Record ==
    \/ Recorded(NewLayer(project, "All", {}, {}, Slots))
    \/ /\ Active(project).layers > 0
       /\ \E to \in Targets(Active(project)) : Recorded(Evolved(project, to, Slots))

\* A change stays in a window's hands while the other window works; whether it is stale then
\* does not depend on what it asks.
Hold ==
    /\ held = {} /\ held' = {NewLayer(project, "All", {}, {}, Slots)}
    /\ UNCHANGED <<project, stuck>>
AdoptHeld == \E next \in held : Adopt(next) /\ held' = {}

Next ==
    \/ Work \/ DayPasses
    \/ /\ Changes(project) < MaxChanges
       /\ \/ (AdoptLayer \/ Withdraw \/ Evolve \/ Record) /\ UNCHANGED held
          \/ Hold \/ AdoptHeld

Spec == Init /\ [][Next]_scoped

-----------------------------------------------------------------------------
\* The shape of the state.
TypeOK ==
    /\ project.day \in 0 .. MaxDay
    /\ \A i \in DOMAIN project.rows :
          /\ Len(project.rows[i].cells) = Len(project.layers)
          /\ project.rows[i].born \in DOMAIN project.manifests
    /\ Active(project).layers = Len(project.layers)
    /\ Cardinality(held) <= 1 /\ stuck \in BOOLEAN

\* A layer's population, told from its request and the record's birth, not from the cells.
Covers(s, k, i) ==
    IF i \in DOMAIN s.layers[k].basis.rows
    THEN i \in (IF s.layers[k].population = "All" THEN DOMAIN s.layers[k].basis.rows
                ELSE s.layers[k].records) \ s.layers[k].excluded
    ELSE k \in s.manifests[s.rows[i].born].active /\ Forward(s.layers[k])

Shown(s, i, slot) == Live(s, Active(s), s.rows[i], slot, s.day)

\* Every unfinished record has the rule of the last active layer whose population it is in,
\* and otherwise the rule that was there before any layer.
ScopesAreKept ==
    \A i \in DOMAIN project.rows, slot \in Slots :
        LET m == Active(project)
            on == {k \in Covering(m, slot) \cap m.active : Covers(project, k, i)}
            rule == IF on = {} THEN Base(project, m, slot)
                    ELSE m.after[Max(on)][Patch(m, Max(on), slot)]
        IN ~Terminal(project.rows[i]) =>
              Shown(project, i, slot) = Value(rule, project.rows[i], project.day)

\* A preserved result is traced to what made it: the adoption that found the record finished,
\* or the first event that finished it.
ResultsAreTraced ==
    \A i \in DOMAIN project.rows, k \in DOMAIN project.layers :
        LET cell == project.rows[i].cells[k]
            basis == project.layers[k].basis
            sealing == {e \in ToSet(project.events) :
                           /\ e.row = i /\ k <= Len(e.after.cells) /\ e.after.cells[k].sealed
                           /\ e.born \/ ~e.before.cells[k].sealed}
        IN cell.sealed =>
              IF cell.origin = "CapturedAtAdoption"
              THEN sealing = {} /\ Terminal(basis.rows[i]) /\ cell.day = basis.day
              ELSE \E e \in sealing : /\ sealing = {e} /\ cell.day = e.day
                                      /\ Terminal(e.after) /\ ~Terminal(e.before)

\* The checks of a save never refuse the step of a legal action, or an adoption.
NothingIsStuck == ~stuck

\* While there is a layer, finished work stays finished, and keeps what was shown and stored
\* of it in every slot that a layer covers, wherever a redesign moves the slot.
ResultsStay(s, t) ==
    LET m == Active(s)
        n == Active(t)
        Was(k, p) == IF k <= m.layers THEN m.slot[k][p] ELSE p
    IN \A i \in DOMAIN s.rows : Terminal(s.rows[i]) =>
          /\ m.layers > 0 => Terminal(t.rows[i])
          /\ \A k \in 1 .. n.layers : \A p \in DOMAIN n.slot[k] :
                IF p \in Fields THEN k <= m.layers => t.rows[i].stored[p] = s.rows[i].stored[p]
                ELSE Shown(t, i, n.slot[k][p]) = Shown(s, i, Was(k, p))

\* Adopting or withdrawing layers changes nothing of a record that is not in their population
\* or is finished.
OthersStay(s, t) ==
    LET m == Active(s)
        n == Active(t)
        changed == (n.active \ m.active) \cup (m.active \ n.active)
        Other(i, slot) ==
            IF Terminal(s.rows[i]) THEN slot \in Columns
            ELSE \A k \in changed : ~Covers(t, k, i)
    IN changed # {} =>
          \A i \in DOMAIN s.rows, slot \in Slots :
              Other(i, slot) => Shown(t, i, slot) = Shown(s, i, slot)

\* After an adoption or a redesign an author is shown the program that was adopted; only at a
\* slot where every layer is withdrawn the rule from before the layers stays.
AuthorsGetWhatTheyGave(s, t) ==
    LET n == Active(t) IN
    n.adopted # Active(s).adopted /\ n.transition # "Withdrawal" =>
       \A slot \in Slots :
           \/ BusinessProgram(t, n)[slot] = n.business[slot]
           \/ /\ Covering(n, slot) # {} /\ Covering(n, slot) \cap n.active = {}
              /\ n.transition = "Evolution"

\* A step keeps the promise of layers, to apply to their population and to nothing else: after
\* it the unfinished
\* records have the rules of their layers and the results of the others are traced; and it
\* touches no result or record that it should not, gives no author another program than was
\* adopted, and is not refused by the checks.
ScopesHold ==
    /\ (ScopesAreKept /\ ResultsAreTraced /\ NothingIsStuck)'
    /\ ResultsStay(project, project') /\ OthersStay(project, project')
    /\ AuthorsGetWhatTheyGave(project, project')
=============================================================================
