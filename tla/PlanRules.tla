------------------------------ MODULE PlanRules ------------------------------
(***************************************************************************)
(* What the server accepts from a model that plans an analysis: the        *)
(* validators of Goals, Plans and revisions (agent/plan_validator.py,      *)
(* domain/analysis.py), of Claims and Notes (agent/claim_validator.py),    *)
(* and the composition of the report (agent/report_composer.py).           *)
(*                                                                         *)
(* A Step is a record [id, primitive, needs, sources, fields, stop]: the   *)
(* Steps whose Facts it takes, the sources it reads, its field references  *)
(* and its stop condition.  A field reference is [source, name].  A Fact   *)
(* is [step, primitive, sources, inputs, value]: its id is its Step's, as  *)
(* the code's digest of the Step is, and one number stands for its rows    *)
(* and its metric.                                                         *)
(***************************************************************************)
EXTENDS Integers, FiniteSets, SequencesExt

CONSTANTS
  Enabled,     \* the sources of the request
  Capability,  \* Capability[s]: the primitives source s supports
  Declared,    \* Declared[s]: its dimensions and measures that hold no PII
  Canonical,   \* the fields every event has
  Sensitive,   \* fields that name personal or raw data
  MinSteps, MaxSteps  \* the length of a Plan, 3 and 6 in the code

ASSUME RulesAssumption ==
  /\ MinSteps \in Nat \ {0} /\ MaxSteps \in Nat /\ MinSteps <= MaxSteps
  /\ Sensitive \cap Canonical = {}

AnySource == "any"

\* How many Facts each primitive takes.
Arity == [catalog_sources |-> {0}, profile_events |-> {0}, aggregate_events |-> {0},
          segment_customers |-> {0}, detect_repetition |-> {0}, match_sequence |-> {0},
          compare_segments |-> {2}, rank_customers |-> 1..4,
          get_customer_journey |-> {1}, get_evidence |-> {1}]

\* _validate_semantic_field: a field every selected source may be asked for.
FieldAllowed(ref, selected) ==
  /\ ref.name \notin Sensitive
  /\ ref.source # AnySource => ref.source \in selected
  /\ \/ ref.name \in Canonical
     \/ \A s \in IF ref.source = AnySource THEN selected ELSE {ref.source} :
          ref.name \in Declared[s]

\* validate_goal_against_request: a Goal only narrows the request.
GoalValid(goal) ==
  /\ goal.within
  /\ goal.sources # {} /\ goal.sources \subseteq Enabled
  /\ \A ref \in goal.fields : FieldAllowed(ref, goal.sources)

IdsOf(plan) == {plan.steps[i].id : i \in DOMAIN plan.steps}
StepOf(plan, id) == plan.steps[CHOOSE i \in DOMAIN plan.steps : plan.steps[i].id = id]

\* The bounded topological order of AnalysisPlan, repeated by
\* _validate_topology_and_arity: Steps use Facts of earlier Steps only.
WellOrdered(steps) ==
  /\ Len(steps) \in MinSteps..MaxSteps
  /\ \A i, j \in DOMAIN steps : steps[i].id = steps[j].id => i = j
  /\ \A i \in DOMAIN steps :
       /\ steps[i].needs \subseteq {steps[j].id : j \in 1..(i - 1)}
       /\ Cardinality(steps[i].needs) \in Arity[steps[i].primitive]

\* _selected_manifests, _validate_step_capability, _validate_step_fields.
StepValid(step) ==
  /\ step.sources # {} /\ step.sources \subseteq Enabled
  /\ \A s \in step.sources : step.primitive \in Capability[s]
  /\ \A ref \in step.fields : FieldAllowed(ref, step.sources)

PlanValid(plan) == WellOrdered(plan.steps) /\ \A i \in DOMAIN plan.steps : StepValid(plan.steps[i])

\* _validate_plan_scope.
InScope(plan, goal) == \A i \in DOMAIN plan.steps : plan.steps[i].sources \subseteq goal.sources

\* The checks of _create_validated_plan.
FirstPlanValid(plan, goal) ==
  plan.goal = goal.id /\ plan.revision = 0 /\ PlanValid(plan) /\ InScope(plan, goal)

\* Mutant of SameSteps: a completed Step may be redefined.
SamePlaces(previous, revised, completed) == completed \subseteq IdsOf(revised)

\* Completed Steps stay what and where they were.
SameSteps(previous, revised, completed) ==
  \A i \in DOMAIN previous.steps :
    previous.steps[i].id \in completed =>
      i \in DOMAIN revised.steps /\ revised.steps[i] = previous.steps[i]

\* validate_plan_revision.
RevisionValid(previous, revised, completed) ==
  /\ revised.goal = previous.goal /\ revised.revision > previous.revision
  /\ completed \subseteq IdsOf(previous)
  /\ SameSteps(previous, revised, completed)
  /\ PlanValid(revised)

\* _select_ready_step.
Ready(plan, id, completed) ==
  id \in IdsOf(plan) \ completed /\ StepOf(plan, id).needs \subseteq completed

\* validate_fact_against_step and _validate_fact_dependencies.
FactBinds(step, fact) ==
  /\ fact.step = step.id /\ fact.primitive = step.primitive
  /\ fact.sources = step.sources /\ fact.inputs = step.needs

Compare(left, op, right) ==
  CASE op = "eq" -> left = right [] op = "ne" -> left # right
    [] op = "lt" -> left < right [] op = "lte" -> left <= right
    [] op = "gt" -> left > right [] op = "gte" -> left >= right
    [] OTHER -> FALSE

\* _server_stop_requested.
StopsAt(step, fact) ==
  \/ step.stop.kind = "empty" /\ fact.value = 0
  \/ step.stop.kind = "metric" /\ Compare(fact.value, step.stop.op, step.stop.target)

-----------------------------------------------------------------------------
(* Claims, Notes and the report.  A Claim is [type, op, target, refs] with *)
(* refs a set of [fact, revision, selects]; its id is its content.         *)

\* _validate_reference, _validate_selector_shape, _validate_claim_semantics.
ClaimTrueOf(claim, fact) ==
  /\ Cardinality(claim.refs) = 1
  /\ \A ref \in claim.refs : ref.selects = {claim.type}
  /\ IF claim.type = "metric" THEN Compare(fact.value, claim.op, claim.target)
     ELSE claim.type = "source" /\ claim.op = "eq" /\ claim.target \in fact.sources

\* Mutant of ClaimRevisions: references of another Plan pass.
AnyRevision(claim, revision) == TRUE

ClaimRevisions(claim, revision) == \A ref \in claim.refs : ref.revision = revision

\* validate_claim: the Claim is about one Fact of the Run and true of it.
ClaimValid(claim, facts, revision) ==
  \E fact \in ToSet(facts) :
    /\ {ref.fact : ref \in claim.refs} = {fact.step}
    /\ fact.primitive = "compare_segments" => fact.inputs \subseteq {f.step : f \in ToSet(facts)}
    /\ ClaimRevisions(claim, revision)
    /\ ClaimTrueOf(claim, fact)

\* render_verified_note.
NoteValid(draft, fact, facts, next, revision) ==
  /\ draft.step = fact.step /\ next # fact.step
  /\ \A i \in DOMAIN draft.claims : ClaimValid(draft.claims[i], facts, revision)
  /\ IsInjective(draft.claims)

NoteOf(draft, next, revision) ==
  [step |-> draft.step, claims |-> draft.claims, next |-> next, revision |-> revision]

ClaimsOf(notes) == UNION {ToSet(notes[i].claims) : i \in DOMAIN notes}

\* Mutant of ClaimsDistinct: nothing compares the Claims of different Notes.
ClaimsUnchecked(notes) == TRUE

\* No two Notes made the same Claim.
ClaimsDistinct(notes) ==
  \A i, j \in DOMAIN notes : i # j => ToSet(notes[i].claims) \cap ToSet(notes[j].claims) = {}

\* Mutant of ActionsBacked: an action may rest on any Claim of the Run.
ActionsLoose(facts, notes, draft) ==
  \A action \in draft.actions :
    action.facts \subseteq {f.step : f \in ToSet(facts)} /\ action.claims \subseteq ClaimsOf(notes)

\* Actions rest on Facts of the Run and on Claims the report selects.
ActionsBacked(facts, notes, draft) ==
  \A action \in draft.actions :
    action.facts \subseteq {f.step : f \in ToSet(facts)} /\ action.claims \subseteq draft.claims

\* compose_customer_signal_report accepts the draft.
ReportValid(goal, facts, notes, draft) ==
  /\ draft.goal = goal.id /\ facts # << >>
  /\ ClaimsDistinct(notes)
  /\ draft.claims \subseteq ClaimsOf(notes)
  /\ ActionsBacked(facts, notes, draft)
=============================================================================
