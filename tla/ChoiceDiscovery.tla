--------------------------- MODULE ChoiceDiscovery --------------------------
(* Which of an author's suspicions about an edit become questions to the user  *)
(* (product_discovery): the saved program, the edited one and the alternatives *)
(* are run on the suspected scenes, and only an outcome that was seen to       *)
(* differ, that nothing required rules out and that no saved comparison has    *)
(* already shown, is asked about.                                              *)
(*                                                                             *)
(* An execution of an input shows a value at each of two moments, and hidden   *)
(* channels no predicate can name. A scene is an input with the moments it     *)
(* observes. Only the cancellation comes from another thread.                  *)
EXTENDS Naturals, FiniteSetsExt, SequencesExt

CONSTANTS
    Alternatives,   \* the competing programs
    Outcomes,       \* what an execution may show
    Inputs,         \* the inputs of scenes
    Groups,         \* the actions with their observables
    Hypotheses,     \* how many hypotheses the author may send
    Verdicts,       \* the kinds of saved decision: "chosen", "pending"
    Conditions,     \* the unusual conditions that may hold
    Replays, Comparisons    \* the budgets: max_precheck_replays, max_comparisons

Moments == {1, 2}
Programs == {"before", "candidate"} \cup Alternatives

\* An execution that completed, and one that did not.
Shows(first, second, hidden) == [ok |-> TRUE, at |-> <<first, second>>, hidden |-> hidden]
Fails == [ok |-> FALSE, at |-> <<1, 1>>, hidden |-> 1]

Scene(input, sees) == [input |-> input, sees |-> sees]
Scenes == [input : Inputs, sees : SUBSET Moments \ {{}}]

VARIABLES
    study,      \* the request, the author's result and the policy, fixed
    cancelled,  \* the user has cancelled
    replays, comparisons,   \* what is left of the budgets
    stage,      \* where discover stands
    work,       \* the hypothesis at hand
    report      \* DiscoveryReport: defects, blocked, questions and the log

discovery == <<study, cancelled, replays, comparisons, stage, work, report>>

Run(program, scene) == study.outcome[program][scene.input]

\* same_outcomes: everything observed is the same, hidden channels too.
SameOutcomes(a, b, sees) ==
    a.ok /\ b.ok /\ a.hidden = b.hidden /\ \A m \in sees : a.at[m] = b.at[m]

\* Budgets: a replay that is cancelled or not paid for is unavailable.
Affords(n) == ~ cancelled /\ replays >= n
Spent(n) == IF cancelled THEN replays ELSE Max({replays - n, 0})

-----------------------------------------------------------------------------
\* What discover is given. A decision was taken on a scene where two programs differed;
\* a chosen one accepts the first outcome, or only predicates of it.
Decisions ==
    [verdict : Verdicts,
     scene : Scenes,
     saved : {p \in (Outcomes \ {Fails}) \X (Outcomes \ {Fails}) : p[1] # p[2]},
     concrete : IF "predicates" \in Conditions THEN BOOLEAN ELSE {TRUE},
     scope : {"Applies"} \cup ({"Unknown", "Outside"} \cap Conditions)]

Hypothesis ==
    [group : Groups,
     kind : {"UnresolvedChoice"}
              \cup ({"PossibleDefect", "RequestedChange"} \cap Conditions),
     scene : Scenes,
     exact : {"substituted" \notin Conditions, TRUE}]

\* The candidate's values are called 1. The new action, if there is one, is performed by
\* the first input, and the saved program has no such action.
Executions(feature) ==
    {o \in [Programs -> [Inputs -> Outcomes]] :
        /\ \A i \in Inputs : o["candidate"][i] \in {Shows(1, 1, 1), Fails}
        /\ feature => o["before"][Min(Inputs)] = Fails}

\* A required outcome of the first input at the first moment, or 0.
Study(feature) ==
    [outcome : Executions(feature),
     decisions : UNION {[1 .. n -> Decisions] : n \in 0 .. Cardinality(Verdicts)},
     hypotheses : [1 .. Hypotheses -> Hypothesis],
     required : IF "required" \in Conditions THEN 0 .. 2 ELSE {0},
     feature : {feature},
     unreached : SUBSET (IF "unreached" \in Conditions THEN Inputs ELSE {}),
     changed : {FALSE, "changed" \in Conditions},
     store : {TRUE, "witnesses" \notin Conditions}]
Studies == UNION {Study(feature) : feature \in {FALSE, "feature" \in Conditions}}

Idle == [scenes |-> {}, left |-> {}, found |-> {}, unknowns |-> {}, doubt |-> FALSE,
         ruled |-> FALSE, exhausted |-> FALSE, compared |-> FALSE, unavailable |-> FALSE,
         pairs |-> {}, matched |-> {}, replaced |-> {}, settled |-> {}]

Init ==
    /\ study \in Studies
    /\ cancelled = FALSE
    /\ replays = Replays /\ comparisons = Comparisons
    /\ stage = "gate"
    /\ work = Idle
    /\ report = [defects |-> FALSE, blocked |-> FALSE, questions |-> <<>>, log |-> <<>>]

Chosen == {i \in DOMAIN study.decisions : study.decisions[i].verdict = "chosen"}
Pending ==
    {i \in DOMAIN study.decisions :
        study.decisions[i].verdict = "pending" /\ study.decisions[i].scope = "Applies"}

-----------------------------------------------------------------------------
\* check_requirements: each required property is executed on the program.
Meets(program) ==
    LET run == study.outcome[program][Min(Inputs)]
    IN CASE study.required = 0 -> "met"
         [] ~ Affords(1) \/ ~ run.ok -> "unknown"
         [] run.at[1] = study.required -> "met"
         [] OTHER -> "violated"

\* A new action needs a requirement that exercises it.
FeatureIsCovered == study.feature => study.required # 0

\* check_chosen, for one decision: the program, on the accepted scene, must show the
\* accepted outcome, or satisfy the accepted predicates, here on the first moment seen.
Satisfies(program, d) ==
    LET run == Run(program, d.scene)
        first == Min(d.scene.sees)
    IN CASE d.scope = "Outside" -> "met"
         [] d.scope = "Unknown" \/ ~ run.ok -> "unknown"
         [] IF d.concrete THEN SameOutcomes(run, d.saved[1], d.scene.sees)
                          ELSE run.at[first] = d.saved[1].at[first] -> "met"
         [] OTHER -> "violated"

\* VerifiedRetainedHistory::check, all of whose replays are reserved before.
Approved(program) ==
    LET verdicts == {Satisfies(program, study.decisions[i]) : i \in Chosen}
    IN CASE ~ Affords(3 * Cardinality(Chosen)) -> "unknown"
         [] "violated" \in verdicts -> "violated"
         [] "unknown" \in verdicts -> "unknown"
         [] OTHER -> "met"

\* Without the store's history: each decision with its own witness, whose source is replayed
\* with the program, as long as the budget lasts.
OneByOne(program) ==
    LET Verdict(i) ==
          IF Affords(2 * i) THEN Satisfies(program, study.decisions[i]) ELSE "unknown"
        verdicts == {Verdict(i) : i \in Chosen}
    IN CASE "violated" \in verdicts -> "violated"
         [] "unknown" \in verdicts -> "unknown"
         [] OTHER -> "met"

Kept(program) == IF study.store THEN Approved(program) ELSE OneByOne(program)
Cost == (IF study.store THEN 3 ELSE 2) * Cardinality(Chosen) + 1

\* VerifiedRetainedHistory::verify: the saved revision is the one the history was read at.
Verified == study.store => ~ study.changed /\ Affords(2 * Len(study.decisions))

\* The candidate's own checks, before any hypothesis is tried.
Gate ==
    /\ stage = "gate"
    /\ LET kept == IF Verified THEN Kept("candidate") ELSE "unknown"
           met == Meets("candidate")
       IN report' = [report EXCEPT
                        !.defects = kept = "violated" \/ met = "violated",
                        !.blocked = "unknown" \in {kept, met} \/ ~ FeatureIsCovered]
    /\ replays' = IF Verified
                  THEN Spent((IF study.store THEN 2 * Len(study.decisions) ELSE 0) + Cost)
                  ELSE replays
    /\ stage' = "take"
    /\ UNCHANGED <<study, cancelled, comparisons, work>>

-----------------------------------------------------------------------------
Number == Len(report.log) + 1
Current == study.hypotheses[Number]

Entry(disposition, found) ==
    [disposition |-> disposition, found |-> found]

\* The hypothesis gets its line in the log, and the next one is taken.
Logged(disposition) ==
    /\ report' = [report EXCEPT !.log = Append(@, Entry(disposition, {}))]
    /\ stage' = IF Number = Hypotheses THEN "done" ELSE "take"
    /\ work' = Idle
    /\ UNCHANGED <<study, cancelled>>

\* The gates of a hypothesis, in their order.
TakeDisposition ==
    CASE cancelled -> "Unverified"
      [] report.defects -> "Defect"
      [] report.blocked -> "Unverified"
      [] ~ Current.exact -> "Unverified"
      [] OTHER -> "none"

Take ==
    /\ stage = "take"
    /\ UNCHANGED <<replays, comparisons>>
    /\ IF TakeDisposition # "none"
       THEN Logged(TakeDisposition)
       ELSE stage' = "capture" /\ UNCHANGED <<study, cancelled, work, report>>

\* Mutated form of SourceScenes: only the scene the author gave.
SourceScenesGiven == {Current.scene}

\* The author's scene, and those of the saved comparisons: an author cannot hide what
\* they show by observing less.
SourceScenes == {Current.scene} \cup {study.decisions[i].scene : i \in Pending}

\* source::relevant: the scene reaches a changed part of the source.
Relevant == {s \in SourceScenes : s.input \notin study.unreached}

NewFeature(scene) == study.feature /\ scene.input = Min(Inputs)

Unchanged(scene) == SameOutcomes(Run("before", scene), Run("candidate", scene), scene.sees)

\* Linked to the edit: both programs ran and differ, or the new action ran.
Captured(scene) ==
    /\ Run("candidate", scene).ok
    /\ Run("before", scene).ok \/ NewFeature(scene)
    /\ ~ Unchanged(scene)

\* Differences in channels no predicate names, by the pair of programs and the scene.
Unrepresented(program, scene) ==
    IF Run(program, scene).ok /\ Run("candidate", scene).ok
         /\ Run(program, scene).hidden # Run("candidate", scene).hidden
    THEN {<<program, scene>>} ELSE {}

Capture ==
    /\ stage = "capture"
    /\ replays' = Spent(2 * Cardinality(Relevant))
    /\ UNCHANGED comparisons
    /\ LET available == \/ Affords(2 * Cardinality(Relevant))
                           /\ \A s \in Relevant : Captured(s) \/ Unchanged(s)
           captured == {s \in Relevant : Captured(s)}
       IN CASE Relevant = {} -> Logged("Irrelevant")
            [] Relevant # {} /\ ~ available -> Logged("Unverified")
            [] Relevant # {} /\ available /\ captured = {} -> Logged("NoWitness")
            [] OTHER ->
                 /\ work' = [Idle EXCEPT
                               !.scenes = captured,
                               !.left = Alternatives,
                               !.unknowns =
                                  UNION {Unrepresented("before", s) : s \in captured}]
                 /\ stage' = "compare"
                 /\ UNCHANGED <<study, cancelled, report>>

-----------------------------------------------------------------------------
\* Only what the edit changed may become a choice: the targets of a captured scene.
Targets(scene) ==
    {m \in scene.sees :
        NewFeature(scene) \/ Run("before", scene).at[m] # Run("candidate", scene).at[m]}

\* A witness: the alternative and the candidate, run on the scene, differ at the moments.
Witness(program, scene, moments) ==
    [program |-> program, scene |-> scene, moments |-> moments]

\* minimize: what remains of the scene observes only the target.
Reduced(w) == Scene(w.scene.input, w.moments)

\* An alternative that an approved intention rules out is no option, and one that could
\* not be checked leaves the hypothesis open.
Excluded(program, verdict) ==
    /\ verdict # "met"
    /\ work' = [work EXCEPT !.left = @ \ {program},
                            !.ruled = @ \/ verdict = "ruled",
                            !.doubt = @ \/ verdict = "unknown"]
    /\ UNCHANGED comparisons

Admission(program) ==
    CASE Kept(program) = "violated" -> "ruled"
      [] Kept(program) = "unknown" -> "unknown"
      [] Meets(program) # "met" -> "unknown"
      [] OTHER -> "met"

\* The comparisons of one alternative, as far as the budget goes.
Compared(program, pairs, all) ==
    LET ok(p) == Run(program, p[1]).ok
    IN work' = [work EXCEPT
          !.left = @ \ {program},
          !.exhausted = @ \/ pairs # all,
          !.compared = @ \/ pairs # {},
          !.doubt = @ \/ \E p \in pairs : ~ ok(p),
          !.unknowns = @ \cup UNION {Unrepresented(program, p[1]) : p \in pairs},
          !.found = @ \cup {Witness(program, p[1], {p[2]}) :
                              p \in {q \in pairs : ok(q) /\ Run(program, q[1]).at[q[2]]
                                                     # Run("candidate", q[1]).at[q[2]]}}]

TryAlternative(program) ==
    /\ stage = "compare"
    /\ program \in work.left
    /\ replays' = Spent(Cost)
    /\ \/ Excluded(program, Admission(program))
       \/ /\ Admission(program) = "met"
          /\ LET all == UNION {{<<s, m>> : m \in Targets(s)} : s \in work.scenes}
             IN \E pairs \in SUBSET all :
                  /\ Cardinality(pairs) = Min({Cardinality(all), comparisons})
                  /\ Compared(program, pairs, all)
                  /\ comparisons' = comparisons - Cardinality(pairs)
    /\ UNCHANGED <<study, cancelled, stage, report>>

\* Every alternative was tried, or none can be tried any more.
EndCompare ==
    /\ stage = "compare"
    /\ work.left = {} \/ ~ Affords(1)
    /\ work' = [work EXCEPT !.doubt = @ \/ work.left # {} \/ work.exhausted,
                            !.unavailable = Pending # {} /\ ~ Affords(1),
                            !.pairs = Pending \X work.found,
                            !.left = {}]
    /\ stage' = "settle"
    /\ UNCHANGED <<study, cancelled, replays, comparisons, report>>

-----------------------------------------------------------------------------
Smallest(sets) == CHOOSE s \in sets : \A t \in sets : Cardinality(s) <= Cardinality(t)

\* retained_profile: the vectors of a pair of executions against the saved pair, over the
\* moments observed now. A difference at a moment the saved scene did not observe, or no
\* coordinate at all, leaves it unresolved.
Profile(a, b, sees, d) ==
    LET known == sees \cap d.scene.sees
        c == d.saved[1]
        e == d.saved[2]
        coordinates == {m \in known : a.at[m] # b.at[m] \/ c.at[m] # e.at[m]}
        opaque == known # {} /\ (a.hidden # b.hidden \/ c.hidden # e.hidden)
        Equal(x, y) == /\ \A m \in coordinates : x.at[m] = y.at[m]
                       /\ opaque => x.hidden = y.hidden
        Novel(x, y) == ~ Equal(x, c) /\ ~ Equal(x, e) /\ ~ Equal(x, y)
        Separates(n, x, y) == \A z \in {c, e, y} : \E m \in n : x.at[m] # z.at[m]
        side == IF Novel(a, b) THEN <<a, b>> ELSE <<b, a>>
        names == {n \in SUBSET coordinates : Separates(n, side[1], side[2])}
        novel == Novel(a, b) \/ Novel(b, a)
    IN [resolved |-> /\ coordinates # {}
                     /\ \A m \in sees \ known : a.at[m] = b.at[m] /\ a.hidden = b.hidden
                     /\ novel => names # {},
        matches |-> \/ Equal(a, c) /\ Equal(b, e)
                    \/ Equal(a, e) /\ Equal(b, c),
        novel |-> IF novel /\ names # {} THEN Smallest(names) ELSE {}]

\* The scene of a saved comparison that corresponds to a witness's.
Corresponds(d, w) == d.scene.input = w.scene.input

\* The novel combinations of a witness become witnesses of their own, while the
\* comparison budget lasts.
Novelties(w, d, profile, replayed) ==
    {<<w.scene, profile.novel>>, <<d.scene, replayed.novel>>} \cap
        {n \in {w.scene, d.scene} \X SUBSET Moments : n[2] # {}}

Replacement(w, n) ==
    [key |-> <<w.program, n[1]>>, witness |-> Witness(w.program, n[1], n[2])]
Replaced(keys, w, scene) == \E r \in keys : r.key = <<w.program, scene>>

\* The target's own values are the saved pair's.
SameTarget(a, b, d, moments) ==
    \A m \in moments : {a.at[m], b.at[m]} = {d.saved[1].at[m], d.saved[2].at[m]}

\* One witness against one saved comparison, both replayed.
Settle(i, w) ==
    LET d == study.decisions[i]
        a == Run(w.program, w.scene)
        b == Run("candidate", w.scene)
        profile == Profile(a, b, w.scene.sees, d)
        replayed == Profile(a, b, d.scene.sees, d)
        fresh == {n \in Novelties(w, d, profile, replayed) :
                    ~ Replaced(work.replaced, w, n[1])}
        paid == Cardinality(fresh) <= comparisons
        replaced == IF paid THEN work.replaced \cup {Replacement(w, n) : n \in fresh}
                            ELSE work.replaced
        original == Replaced(replaced, w, w.scene)
        retained == Replaced(replaced, w, d.scene)
        known == w.moments \subseteq d.scene.sees
        same == /\ ~ original /\ ~ retained /\ known
                /\ profile.matches /\ replayed.matches /\ SameTarget(a, b, d, w.moments)
        direct == d.scene \in {w.scene, Reduced(w)}
        normalizes == same /\ ~ direct
        equivalent == same /\ (direct \/ comparisons > 0)
    IN IF ~ Affords(4) \/ ~ Corresponds(d, w)
       THEN /\ work' = [work EXCEPT !.unavailable = TRUE, !.pairs = @ \ {<<i, w>>}]
            /\ UNCHANGED comparisons
       ELSE /\ work' = [work EXCEPT
                 !.pairs = @ \ {<<i, w>>},
                 !.replaced = replaced,
                 !.unavailable = \/ @ \/ ~ profile.resolved \/ ~ replayed.resolved \/ ~ paid
                                 \/ ~ original /\ ~ retained /\ ~ known
                                 \/ normalizes /\ comparisons = 0,
                 !.settled = @ \cup {<<w.program, s>> :
                                      s \in {t \in {d.scene} : replayed.matches}
                                             \cup {t \in {w.scene} : equivalent}},
                 !.matched = IF original \/ (retained /\ profile.matches) \/ equivalent
                             THEN @ \cup {w} ELSE @]
            /\ comparisons' =
                 Max({0, comparisons - Cardinality(fresh) - (IF normalizes THEN 1 ELSE 0)})

SettleNext ==
    /\ stage = "settle"
    /\ \E p \in work.pairs :
         /\ p[1] = Min({q[1] : q \in work.pairs})
         /\ Settle(p[1], p[2])
    /\ replays' = Spent(4)
    /\ UNCHANGED <<study, cancelled, stage, report>>

-----------------------------------------------------------------------------
\* What is left to ask, and what stays unknown, once saved outcomes are taken out.
Remaining ==
    (work.found \ work.matched)
        \cup {r.witness : r \in {q \in work.replaced : q.key \notin work.settled}}
Unknowns == work.unknowns \ work.settled
Doubtful == work.doubt \/ Unknowns # {}

Conclusion ==
    CASE work.unavailable -> "Unverified"
      [] Remaining = {} /\ (Doubtful \/ (~ work.compared /\ ~ work.ruled)) -> "Unverified"
      [] Remaining = {} /\ (work.ruled \/ work.found # {}) -> "Settled"
      [] Remaining = {} -> "NoWitness"
      [] Current.kind # "UnresolvedChoice" -> Current.kind
      [] OTHER -> "Question"

\* verified_scene_key: the programs compared, on the reduced scene.
Key(w) == <<w.program, Reduced(w)>>
Keys(witnesses) == {Key(w) : w \in witnesses}
GroupsOf(hypotheses) == {study.hypotheses[i].group : i \in hypotheses}

\* Two cards are about the same choice when they share a scene or a group.
Connected(q, r) ==
    \/ Keys(q.witnesses) \cap Keys(r.witnesses) # {}
    \/ GroupsOf(q.hypotheses) \cap GroupsOf(r.hypotheses) # {}

\* The whole connected component of a new card among the questions.
Matching(card) ==
    LET Closed(set) ==
          \A i \in DOMAIN report.questions :
            (\E q \in {card} \cup {report.questions[j] : j \in set} :
                Connected(report.questions[i], q)) => i \in set
    IN {i \in DOMAIN report.questions :
          \A set \in SUBSET DOMAIN report.questions : Closed(set) => i \in set}

\* A card takes in another: the witnesses whose scene it does not have yet.
Joined(q, r) ==
    [hypotheses |-> q.hypotheses \cup r.hypotheses,
     witnesses |-> q.witnesses \cup {w \in r.witnesses : Key(w) \notin Keys(q.witnesses)}]

\* The questions once the card is merged into the first it matches, and the lines of the
\* log: of a card's hypotheses the first stays the question.
Merged(card) ==
    LET set == Matching(card)
        first == Min(set)
        others == SetToSortSeq(set \ {first}, <)
        whole == FoldSeq(LAMBDA i, q : Joined(q, report.questions[i]),
                         report.questions[first], others)
        all == [report.questions EXCEPT ![first] = Joined(whole, card)]
        line(i) == IF report.log[i].disposition = "Question"
                     /\ i \in whole.hypotheses /\ i # Min(whole.hypotheses)
                   THEN "Grouped" ELSE report.log[i].disposition
    IN [report EXCEPT
          !.questions = [n \in 1 .. Len(all) - Len(others) |->
                            all[SetToSortSeq(DOMAIN all \ (set \ {first}), <)[n]]],
          !.log = Append([i \in DOMAIN @ |-> [@[i] EXCEPT !.disposition = line(i)]],
                         Entry("Grouped", Remaining))]

Asked ==
    LET card == [hypotheses |-> {Number}, witnesses |-> Remaining]
    IN IF Matching(card) # {}
       THEN Merged(card)
       ELSE [report EXCEPT !.questions = Append(@, card),
                           !.log = Append(@, Entry("Question", Remaining))]

Conclude ==
    /\ stage = "settle"
    /\ work.pairs = {}
    /\ UNCHANGED <<replays, comparisons>>
    /\ IF Conclusion # "Question"
       THEN Logged(Conclusion)
       ELSE /\ report' = Asked
            /\ stage' = IF Number = Hypotheses THEN "done" ELSE "take"
            /\ work' = Idle
            /\ UNCHANGED <<study, cancelled>>

\* The user cancels, from another thread.
Cancel ==
    /\ stage # "done"
    /\ ~ cancelled
    /\ cancelled' = TRUE
    /\ UNCHANGED <<study, replays, comparisons, stage, work, report>>

Next ==
    \/ Gate \/ Take \/ Capture \/ EndCompare \/ SettleNext \/ Conclude \/ Cancel
    \/ \E program \in Alternatives : TryAlternative(program)

Spec == Init /\ [][Next]_discovery

-----------------------------------------------------------------------------
\* The variables keep their types; the log has a line for each hypothesis considered.
TypeOK ==
    /\ cancelled \in BOOLEAN
    /\ replays \in 0 .. Replays /\ comparisons \in 0 .. Comparisons
    /\ stage \in {"gate", "take", "capture", "compare", "settle", "done", "end"}
    /\ work.scenes \subseteq Scenes /\ work.left \subseteq Alternatives
    /\ report.defects \in BOOLEAN /\ report.blocked \in BOOLEAN
    /\ Len(report.log) \in 0 .. Hypotheses /\ Len(report.questions) \in 0 .. Hypotheses

\* What holds of a program whatever the budgets: it is an option the user may be offered.
Allowed(program) ==
    /\ LET run == study.outcome[program][Min(Inputs)]
       IN study.required # 0 => run.ok /\ run.at[1] = study.required
    /\ \A i \in Chosen : Satisfies(program, study.decisions[i]) = "met"

\* The pair of outcomes a saved comparison has shown already: with the whole of what was
\* observed then, and of what is observed now, the same.
Shown(w, d) ==
    LET a == Run(w.program, w.scene)
        b == Run("candidate", w.scene)
        Pair(x, y) == SameOutcomes(a, x, d.scene.sees) /\ SameOutcomes(b, y, d.scene.sees)
    IN /\ d.scene.input = w.scene.input /\ w.scene.sees \subseteq d.scene.sees
       /\ Pair(d.saved[1], d.saved[2]) \/ Pair(d.saved[2], d.saved[1])

\* An alternative and the candidate differ where the edit did.
Differ(program, scene) ==
    /\ Run(program, scene).ok /\ Run("candidate", scene).ok
    /\ \E m \in Targets(scene) : Run(program, scene).at[m] # Run("candidate", scene).at[m]

\* What is asked is open: both programs of a witness were run and differ, on a scene the
\* edit changed; both meet what is required and what was chosen; and the pair of outcomes
\* is of no comparison the user has already answered.
AskedIsOpen ==
    \A q \in Range(report.questions) : \A w \in q.witnesses :
        /\ Run(w.program, w.scene).ok /\ Run("candidate", w.scene).ok
        /\ \E m \in w.moments :
             Run(w.program, w.scene).at[m] # Run("candidate", w.scene).at[m]
        /\ Captured(w.scene)
        /\ Allowed(w.program) /\ Allowed("candidate")
        /\ \A i \in Pending : ~ Shown(w, study.decisions[i])

\* No difference is passed over in silence: where a line of the log says that there was no
\* witness, the alternatives that are allowed do not differ on any scene the line was to
\* look at; and where it says that all is settled, they differ only as saved outcomes do.
NothingIsPassedOver ==
    \A i \in DOMAIN report.log :
        LET own == {study.hypotheses[i].scene}
                     \cup {study.decisions[j].scene : j \in Pending}
            scenes == {s \in own : s.input \notin study.unreached}
            Lost(p, s) == Allowed(p) /\ Captured(s) /\ Differ(p, s)
            Saved(p, s) == \E j \in Pending :
                SameTarget(Run(p, s), Run("candidate", s), study.decisions[j],
                           {m \in Targets(s) : Run(p, s).at[m] # Run("candidate", s).at[m]}
                             \cap study.decisions[j].scene.sees)
        IN /\ report.log[i].disposition = "NoWitness" =>
                 \A p \in Alternatives, s \in scenes : ~ Lost(p, s)
           /\ report.log[i].disposition = "Settled" =>
                 \A p \in Alternatives, s \in scenes : Lost(p, s) => Saved(p, s)

\* Hypotheses of one choice share a card, those of different choices do not, and of each
\* card one hypothesis, the first, is the question.
CardsAreWhole ==
    LET Line(i) == [hypotheses |-> {i}, witnesses |-> report.log[i].found]
        On(i, q) == i \in q.hypotheses
        asked == {i \in DOMAIN report.log :
                    report.log[i].disposition \in {"Question", "Grouped"}}
    IN /\ \A i \in asked : \E q \in Range(report.questions) : On(i, q)
       /\ \A i, j \in asked : Connected(Line(i), Line(j)) =>
            \A q \in Range(report.questions) : On(i, q) <=> On(j, q)
       /\ \A q \in Range(report.questions) :
            /\ \A part \in SUBSET q.hypotheses \ {{}, q.hypotheses} :
                 \E i \in part, j \in q.hypotheses \ part : Connected(Line(i), Line(j))
            /\ {i \in q.hypotheses : report.log[i].disposition = "Question"}
                  = {Min(q.hypotheses)}

ChoicesAreReal == AskedIsOpen /\ NothingIsPassedOver /\ CardsAreWhole
=============================================================================
