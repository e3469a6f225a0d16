---------------------------- MODULE FixtureModel ----------------------------
(***************************************************************************)
(* GenericFixtureModel (agent/generic_fixture.py): the scripted model of   *)
(* the fixture mode.  It answers from the question's scenario, one of      *)
(* "negative", "repeat" and "signup", and goes through AnalysisLoop's      *)
(* validators as any other model does.                                     *)
(***************************************************************************)
EXTENDS AnalysisLoop

Scenarios == {"negative", "repeat", "signup"}

\* create_goal of a question with a scenario: all the sources of the request.
FixtureGoal(scenario) ==
  [kind |-> "goal", id |-> scenario, within |-> TRUE, sources |-> Enabled, fields |-> {}]

NoStop == [kind |-> "continue"]
OnEmpty == [kind |-> "empty"]

\* _step: a Step over the Goal's sources.
FixtureStep(of, id, primitive, needs, fields, stop) ==
  [id |-> id, primitive |-> primitive, needs |-> needs, sources |-> of.sources,
   fields |-> {[source |-> AnySource, name |-> f] : f \in fields}, stop |-> stop]

\* Mutant of Journey: the journey does not name the sequence it shows.
Unlinked(of) ==
  <<FixtureStep(of, "journey", "get_customer_journey", {}, {}, NoStop),
    FixtureStep(of, "evidence", "get_evidence", {"journey"}, {}, NoStop)>>

Journey(of) ==
  <<FixtureStep(of, "journey", "get_customer_journey", {"sequence"}, {}, NoStop),
    FixtureStep(of, "evidence", "get_evidence", {"journey"}, {}, NoStop)>>

\* create_plan.
FixturePlan(of) ==
  [goal |-> of.id, revision |-> 0,
   steps |-> <<FixtureStep(of, "catalog", "catalog_sources", {}, {}, NoStop)>> \o
     CASE of.id = "negative" ->
            <<FixtureStep(of, "profile", "profile_events", {}, {}, NoStop),
              FixtureStep(of, "topics", "aggregate_events", {}, {"topic", "outcome"}, NoStop)>>
       [] of.id = "repeat" ->
            <<FixtureStep(of, "sequence", "match_sequence", {}, {}, OnEmpty)>> \o Journey(of)
       [] of.id = "signup" ->
            <<FixtureStep(of, "sequence", "match_sequence", {}, {}, NoStop),
              FixtureStep(of, "segment", "segment_customers", {}, {"outcome"}, NoStop)>>]

\* create_note: the metric of the Step, as it is.
FixtureClaim(fact, revision) ==
  [type |-> "metric", op |-> "eq", target |-> fact.value,
   refs |-> {[fact |-> fact.step, revision |-> revision, selects |-> {"metric"}]}]

FixtureNote(fact, revision) ==
  [step |-> fact.step, claims |-> <<FixtureClaim(fact, revision)>>]

\* select_next: the first Step that is left.
FixtureNext(of, done) ==
  of.steps[CHOOSE i \in DOMAIN of.steps :
             of.steps[i].id \notin done /\ \A j \in 1..(i - 1) : of.steps[j].id \in done].id

\* create_report: every Claim, and an action on the last one.
FixtureReport(of, written) ==
  LET last == Last(Last(written).claims)
  IN  [goal |-> of.id, claims |-> ClaimsOf(written),
       actions |-> {[claims |-> {last}, facts |-> {ref.fact : ref \in last.refs}]}]

\* The validators accept every answer of the scripted model, at whatever Step
\* the analysis is and whatever its Steps found: in the fixture mode a Run fails
\* only for its data, its deadline or a stop.
FixtureAccepted ==
  goal.kind = "goal" /\ goal.id \in Scenarios =>
    /\ pc = "plan" => FirstPlanValid(FixturePlan(goal), goal)
    /\ plan = FixturePlan(goal) =>
         /\ pc = "note" =>
              /\ NoteValid(FixtureNote(Last(facts), 0), Last(facts), facts, NoStep, 0)
              /\ Remaining # {} =>
                   SelectionValid([kind |-> "continue", plan |-> NoPlan,
                                   next |-> FixtureNext(plan, completed \cup {current})])
         /\ pc = "report" /\ (\A i \in DOMAIN notes : notes[i].claims =
                                FixtureNote(facts[i], 0).claims) =>
              ReportValid(goal, facts, notes, FixtureReport(goal, notes))
=============================================================================
