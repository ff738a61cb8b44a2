---------------------------- MODULE OrderRecords ----------------------------
(* The records of the order tool (tool_project.rs, tool_runtime.rs): commands  *)
(* append events to an immutable history, a record is evaluated from its own   *)
(* events on a day, and a scenario replays steps on a copy of the project.     *)
(*                                                                             *)
(* Three parts of the code must agree here: the checks a command passes, the   *)
(* replay that validates a whole project, and the validation of a scenario,    *)
(* which follows its steps on its own before the commands run.                 *)
EXTENDS Integers, FiniteSets, SequencesExt

CONSTANTS
    Offset, Starts,                 \* the project's calendar offset, in half days; start dates
    MaxNow, MaxRecords, MaxEvents,  \* bounds: instants, records, events of a project
    MaxBase                         \* bound: events of the project a scenario copies

VARIABLES
    now,        \* the instant on the computer's clock
    project,    \* the saved project
    copy        \* a scenario on a copy of it

records == <<now, project, copy>>

\* studio_order_template: each stage with its clock and the stages that may follow.
Clock == [queued |-> "stopped", in_progress |-> "active", waiting_materials |-> "paused",
          completed |-> "stopped", cancelled |-> "stopped"]
Allowed == [queued |-> {"in_progress", "cancelled"},
            in_progress |-> {"waiting_materials", "completed", "cancelled"},
            waiting_materials |-> {"in_progress", "cancelled"},
            completed |-> {}, cancelled |-> {}]
Stages == DOMAIN Clock
Terminal == {"completed", "cancelled"}

\* An instant is half a day.  to_calendar_date: the day it falls on for the project.
Instants == 0 .. MaxNow
Day(instant) == (instant + Offset) \div 2
Days == 0 .. Day(MaxNow)
NoDay == -1
PromisedOn == 1     \* the promised date of every record

\* A record has its start date, and the field that revision 2 of the tool adds.
Values == [started : Starts \cup {NoDay}, extra : BOOLEAN]
AcceptsValues(spec, values) == values.extra => spec = 2

\* ProjectSnapshot::new.
NewProject == [updated |-> 0, spec |-> 1, records |-> <<>>, events |-> <<>>]
None == [state |-> "none"]

Init == now = 0 /\ project = NewProject /\ copy = None

-----------------------------------------------------------------------------
Records(p) == DOMAIN p.records
EventsOf(p, r) == SelectSeq(p.events, LAMBDA e : e.record = r)

\* A command has the time its panel showed, which may be older than the clock's.
Shown(clock) == {clock - 1, clock} \cap Instants

Commands(p, clock) ==
    [kind : {"create"}, stage : {"queued", "in_progress"}, values : Values, at : Shown(clock)]
      \cup [kind : {"edit"}, record : Records(p), expected : 1 .. MaxEvents, values : Values,
            at : Shown(clock)]
      \cup [kind : {"move"}, record : Records(p), expected : 1 .. MaxEvents, to : Stages,
            at : Shown(clock)]

\* validate_event_time.
FollowsHistory(p, c) == c.at >= Last(EventsOf(p, c.record)).at

\* The checks of apply_command, command by command.
AcceptsCreate(p, c) == Len(p.records) < MaxRecords /\ AcceptsValues(p.spec, c.values)
AcceptsEdit(p, c) ==
    LET record == p.records[c.record] IN
    /\ c.expected = record.revision /\ FollowsHistory(p, c)
    /\ c.values # record.values /\ AcceptsValues(record.spec, c.values)
AcceptsMove(p, c) ==
    LET record == p.records[c.record] IN
    /\ c.expected = record.revision /\ FollowsHistory(p, c)
    /\ c.to \in Allowed[record.stage]

Accepts(p, c, clock) ==
    /\ c.at <= clock /\ clock >= p.updated /\ Len(p.events) < MaxEvents
    /\ CASE c.kind = "create" -> AcceptsCreate(p, c)
         [] c.kind = "edit" -> AcceptsEdit(p, c)
         [] c.kind = "move" -> AcceptsMove(p, c)

\* The record as it becomes.
Created(p, c) ==
    [spec |-> p.spec, created |-> c.at, sequence |-> Len(p.events) + 1, revision |-> 1,
     stage |-> c.stage, values |-> c.values]

Edited(p, c) == [p.records[c.record] EXCEPT !.revision = @ + 1, !.values = c.values]
Moved(p, c) == [p.records[c.record] EXCEPT !.revision = @ + 1, !.stage = c.to]

\* The project with it, and with the event that says how it became.
Result(p, c, clock) ==
    LET r == IF c.kind = "create" THEN Len(p.records) + 1 ELSE c.record
        next == CASE c.kind = "create" -> Created(p, c)
                  [] c.kind = "edit" -> Edited(p, c)
                  [] c.kind = "move" -> Moved(p, c)
        event == [record |-> r, kind |-> c.kind, at |-> c.at, revision |-> next.revision,
                  stage |-> next.stage, values |-> next.values]
    IN [p EXCEPT !.updated = clock, !.events = Append(@, event),
                 !.records = IF c.kind = "create" THEN Append(@, next) ELSE [@ EXCEPT ![r] = next]]

-----------------------------------------------------------------------------
\* validate_record_history: the events of a record, replayed, make the record.
ValidHistory(p, r) ==
    LET record == p.records[r]
        events == EventsOf(p, r)
    IN /\ events # <<>>
       /\ LET first == Head(events) IN
          /\ first.kind = "create" /\ first.revision = 1 /\ first.at = record.created
          /\ p.events[record.sequence] = first /\ AcceptsValues(record.spec, first.values)
       /\ \A i \in 2 .. Len(events) :
            LET event == events[i]
                before == events[i - 1]
            IN /\ event.revision = i /\ event.at >= before.at
               /\ \/ /\ event.kind = "edit" /\ event.values # before.values
                     /\ event.stage = before.stage /\ AcceptsValues(record.spec, event.values)
                  \/ /\ event.kind = "move" /\ event.stage \in Allowed[before.stage]
                     /\ event.values = before.values
       /\ record.revision = Len(events)
       /\ record.stage = Last(events).stage /\ record.values = Last(events).values

\* ProjectSnapshot::validate.
ValidRecords(p) ==
    \A r \in Records(p) :
        /\ p.records[r].spec <= p.spec /\ AcceptsValues(p.records[r].spec, p.records[r].values)
        /\ p.records[r].created <= p.updated
ValidEvents(p) ==
    \A i \in DOMAIN p.events : p.events[i].record \in Records(p) /\ p.events[i].at <= p.updated

Valid(p) == ValidRecords(p) /\ ValidEvents(p) /\ \A r \in Records(p) : ValidHistory(p, r)

\* A command runs when its own checks and the validation of its result allow it.
Record(c) ==
    /\ copy = None /\ Accepts(project, c, now) /\ Valid(Result(project, c, now))
    /\ project' = Result(project, c, now)
    /\ UNCHANGED <<now, copy>>

\* Configure: only names change, and optional fields are added.
Configure ==
    /\ copy = None /\ project.spec = 1
    /\ LET candidate == [project EXCEPT !.spec = 2, !.updated = now]
       IN Valid(candidate) /\ project' = candidate
    /\ UNCHANGED <<now, copy>>

\* The clock advances, or is set back.
SetClock ==
    /\ copy = None /\ now' \in {now - 1, now + 1} \cap Instants
    /\ UNCHANGED <<project, copy>>

-----------------------------------------------------------------------------
\* One event of evaluate_record's loop, on what has been counted so far.
Counts(total, clock, counted, from, to) ==
    IF clock \in counted /\ to > from THEN total + (to - from) ELSE total
Later(a, b) == IF a > b THEN a ELSE b

\* Mutated form of CountTo: the pauses are counted from the cursor of the work.
CountToTogether(t, start, counted, day) ==
    [t EXCEPT !.worked = IF day >= start THEN Counts(@, Clock[t.stage], counted, t.work, day)
                         ELSE @,
              !.work = IF day >= start THEN Later(@, day) ELSE @,
              !.paused = Counts(@, Clock[t.stage], {"paused"}, t.work, day)]

CountTo(t, start, counted, day) ==
    [t EXCEPT !.worked = IF day >= start THEN Counts(@, Clock[t.stage], counted, t.work, day)
                         ELSE @,
              !.work = IF day >= start THEN Later(@, day) ELSE @,
              !.paused = Counts(@, Clock[t.stage], {"paused"}, t.pause, day),
              !.pause = Later(@, day)]

Start(record) ==
    IF record.values.started = NoDay THEN Day(record.created) ELSE record.values.started

\* evaluate_record: worked and paused days, each counted from its own cursor, up to a day.
\* TimerPolicy says whether the work timer counts the paused stages.
Evaluate(p, r, countPaused, asOf) ==
    LET record == p.records[r]
        events == EventsOf(p, r)
        counted == IF countPaused THEN {"active", "paused"} ELSE {"active"}
        MovedBy(t, event) ==
            IF event.kind # "move" THEN t
            ELSE [CountTo(t, Start(record), counted, Day(event.at))
                    EXCEPT !.stage = event.stage, !.since = Day(event.at)]
        begin == [worked |-> 0, work |-> Start(record), paused |-> 0,
                  pause |-> Day(record.created), stage |-> Head(events).stage,
                  since |-> Day(record.created)]
        total == CountTo(FoldLeft(MovedBy, begin, Tail(events)), Start(record), counted, asOf)
    IN [worked |-> total.worked, paused |-> total.paused,
        waiting |-> IF Clock[total.stage] = "paused" THEN asOf - total.since ELSE 0]

\* A record cannot be evaluated before its history or its start.
Evaluable(p, r, asOf) ==
    /\ asOf >= p.records[r].values.started
    /\ \A i \in DOMAIN EventsOf(p, r) : asOf >= Day(EventsOf(p, r)[i].at)

\* ExtendByPausedDays.
DisplayDue(p, r, asOf) == PromisedOn + Evaluate(p, r, FALSE, asOf).paused

-----------------------------------------------------------------------------
\* The state Scenario::validate keeps of a record.
Shadow(p, r) ==
    [spec |-> p.records[r].spec, values |-> p.records[r].values, stage |-> p.records[r].stage,
     revision |-> p.records[r].revision, created |-> p.records[r].created,
     last |-> Last(EventsOf(p, r)).at]

\* scenario_from_snapshot: the project is copied with the clock and a day; it must not be
\* later than the clock.
Rehearse ==
    /\ copy = None /\ now >= project.updated /\ Len(project.events) <= MaxBase
    /\ \E asOf \in 0 .. Day(now) :
         copy' = [state |-> "running", run |-> [project EXCEPT !.updated = now], asOf |-> asOf,
                  shadow |-> [r \in Records(project) |-> Shadow(project, r)],
                  events |-> Len(project.events)]
    /\ UNCHANGED <<now, project>>

\* The checks of Scenario::validate, step by step, on the state it keeps.
FollowsShadow(c) ==
    LET state == copy.shadow[c.record]
    IN c.expected = state.revision /\ c.at >= state.created /\ c.at >= state.last
ValidatesCreate(c) == Len(copy.shadow) < MaxRecords /\ AcceptsValues(copy.run.spec, c.values)
ValidatesEdit(c) ==
    LET state == copy.shadow[c.record]
    IN FollowsShadow(c) /\ c.values # state.values /\ AcceptsValues(state.spec, c.values)
ValidatesMove(c) == FollowsShadow(c) /\ c.to \in Allowed[copy.shadow[c.record].stage]

Validates(c) ==
    /\ c.at <= now /\ copy.events < MaxEvents
    /\ CASE c.kind = "create" -> ValidatesCreate(c)
         [] c.kind = "edit" -> ValidatesEdit(c)
         [] c.kind = "move" -> ValidatesMove(c)

Followed(c) ==
    IF c.kind = "create"
    THEN Append(copy.shadow, [spec |-> copy.run.spec, values |-> c.values, stage |-> c.stage,
                              revision |-> 1, created |-> c.at, last |-> c.at])
    ELSE [copy.shadow EXCEPT
            ![c.record] = [@ EXCEPT !.revision = @ + 1, !.last = c.at,
                                    !.values = IF c.kind = "edit" THEN c.values ELSE @,
                                    !.stage = IF c.kind = "move" THEN c.to ELSE @]]

\* run_scenario: a step that was validated is executed as a command on the copy.
Step(c) ==
    /\ copy.state = "running" /\ Validates(c)
    /\ copy' = IF Accepts(copy.run, c, now) /\ Valid(Result(copy.run, c, now))
               THEN [copy EXCEPT !.run = Result(copy.run, c, now), !.shadow = Followed(c),
                                 !.events = @ + 1]
               ELSE [copy EXCEPT !.state = "refused"]
    /\ UNCHANGED <<now, project>>

AdvanceDate ==
    /\ copy.state = "running"
    /\ \E asOf \in copy.asOf + 1 .. Day(now) : copy' = [copy EXCEPT !.asOf = asOf]
    /\ UNCHANGED <<now, project>>

\* The evidence is made, and the copy dropped.
Finish == copy # None /\ copy' = None /\ UNCHANGED <<now, project>>

\* validate_scenario_observation_date.
MayObserve(r) ==
    LET state == copy.shadow[r] IN
    copy.asOf >= Day(state.created) /\ copy.asOf >= Day(state.last)
      /\ copy.asOf >= state.values.started

Next ==
    \/ \E c \in Commands(project, now) : Record(c)
    \/ Configure \/ SetClock \/ Rehearse
    \/ copy # None /\ \E c \in Commands(copy.run, now) : Step(c)
    \/ AdvanceDate \/ Finish

Spec == Init /\ [][Next]_records

-----------------------------------------------------------------------------
\* Every variable holds a value of its kind.
TypeOK ==
    /\ now \in Instants
    /\ project.spec \in {1, 2} /\ project.updated \in Instants
    /\ \A r \in Records(project) : project.records[r].values \in Values
    /\ \A r \in Records(project) : project.records[r].stage \in Stages
    /\ copy.state \in {"none", "running", "refused"}

\* No command that passes its own checks makes a project that the store, or the next
\* start, would refuse.
NothingIsBlocked ==
    copy = None =>
        \A c \in Commands(project, now) :
            Accepts(project, c, now) => Valid(Result(project, c, now))

\* A scenario that was validated runs: each step is accepted, makes what the validation
\* foresaw, and every observation it allows can be made.
ScenariosRun ==
    copy # None =>
        /\ copy.state = "running"
        /\ Records(copy.run) = DOMAIN copy.shadow
        /\ \A r \in Records(copy.run) :
             /\ Shadow(copy.run, r) = copy.shadow[r]
             /\ MayObserve(r) => Evaluable(copy.run, r, copy.asOf)

\* The stage a record was in during a day, given that its last move was not later.
StageOn(p, r, day) ==
    LET moved == SelectSeq(EventsOf(p, r), LAMBDA e : e.kind # "edit" /\ Day(e.at) <= day)
    IN IF moved = <<>> THEN Head(EventsOf(p, r)).stage ELSE Last(moved).stage

\* The counts of an evaluation are the numbers of whole days spent in each kind of stage,
\* and while an order waits its extended promise stays as far away as it was.
DaysAreCounted ==
    \A r \in Records(project), asOf \in Days :
        Evaluable(project, r, asOf) =>
            LET record == project.records[r]
                InStages(from, clocks) ==
                    {d \in from .. asOf - 1 : Clock[StageOn(project, r, d)] \in clocks}
                Counted(countPaused) == Evaluate(project, r, countPaused, asOf)
            IN /\ \A countPaused \in BOOLEAN :
                    /\ Counted(countPaused).worked =
                         Cardinality(InStages(Start(record),
                           IF countPaused THEN {"active", "paused"} ELSE {"active"}))
                    /\ Counted(countPaused).paused =
                         Cardinality(InStages(Day(record.created), {"paused"}))
                    /\ Counted(countPaused).waiting <= Counted(countPaused).paused
               /\ Clock[record.stage] = "paused" =>
                    DisplayDue(project, r, asOf + 1) - (asOf + 1)
                      = DisplayDue(project, r, asOf) - asOf

\* The three readings of a record's history agree.
HistoryIsRead == NothingIsBlocked /\ ScenariosRun /\ DaysAreCounted
=============================================================================
