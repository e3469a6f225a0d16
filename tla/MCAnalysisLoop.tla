--------------------------- MODULE MCAnalysisLoop ---------------------------
(***************************************************************************)
(* Instances of AnalysisLoop for TLC: two sources, the scripted Goals and  *)
(* Plans beside others that the validators, the executor or the composer   *)
(* must refuse.                                                            *)
(***************************************************************************)
EXTENDS FixtureModel

CONSTANTS web, app

MCCapability == [s \in Enabled |-> IF s = web THEN DOMAIN Arity ELSE DOMAIN Arity \ {"compare_segments"}]
MCDeclared == [s \in Enabled |-> IF s = web THEN {"plan"} ELSE {}]

MCGoals ==
  {FixtureGoal("repeat"), FixtureGoal("signup"),
   [FixtureGoal("negative") EXCEPT !.sources = {web}],
   [FixtureGoal("negative") EXCEPT !.within = FALSE],
   [kind |-> "clarification"], [kind |-> "unsupported"]}

\* The scripted Plan; one that leaves the Goal's sources; one whose journey reads
\* fewer sources than its sequence did, which only the executor refuses; and one
\* that asks for a field or a primitive one source does not have.
MCFirstPlans(of) ==
  LET p == FixturePlan(of)
      n == Len(p.steps)
  IN  IF of.id # "negative" THEN {p} ELSE
      {p, [p EXCEPT !.goal = "other"],
       [p EXCEPT !.steps = [i \in 1..n |-> [p.steps[i] EXCEPT !.sources = Enabled]]],
       [p EXCEPT !.steps[n].sources = {web}],
       [p EXCEPT !.steps[n].fields = {[source |-> AnySource, name |-> "plan"]}],
       [p EXCEPT !.steps[n].primitive = "compare_segments", !.steps[n].needs = IdsOf(p)]}

\* The last Step becomes another one; or the first one, done by then, does.
MCRevisions(of) ==
  IF of.revision > 0 \/ of.goal # "negative" THEN {}
  ELSE LET n == Len(of.steps)
           next == [of EXCEPT !.revision = 1]
       IN  {[next EXCEPT !.steps[n] = [@ EXCEPT !.id = "other", !.primitive = "profile_events",
                                                !.needs = {}]],
            [next EXCEPT !.steps[1].primitive = "profile_events"]}

\* A source Claim.
OfSource(fact, revision) ==
  [type |-> "source", op |-> "eq", target |-> web,
   refs |-> {[fact |-> fact.step, revision |-> revision, selects |-> {"source"}]}]

\* A true Claim; after the second Step also no Claim, one about the first Fact,
\* one of a source, and ones that are false or name another Plan.
MCNoteDrafts(fact, known, revision) ==
  LET note == FixtureNote(fact, revision)
      with(claim) == [note EXCEPT !.claims = <<claim>>]
  IN  {note} \cup
      (IF Len(known) # 2 THEN {} ELSE
         {[note EXCEPT !.claims = << >>],
          with(FixtureClaim(Head(known), revision)), with(OfSource(fact, revision)),
          with([FixtureClaim(fact, revision) EXCEPT !.target = @ + 1]),
          with(FixtureClaim(fact, revision + 1))})

\* Everything with an action on it; an action on what is not selected; nothing.
MCReportDrafts(of, written) ==
  LET all == ClaimsOf(written)
      none == [goal |-> of.id, claims |-> {}, actions |-> {}]
      on(c) == [none EXCEPT !.actions = {[claims |-> {c}, facts |-> {ref.fact : ref \in c.refs}]}]
  IN  {none, [none EXCEPT !.claims = all]}
      \cup {[on(c) EXCEPT !.claims = all] : c \in all} \cup {on(c) : c \in all}
=============================================================================
