--------------------------- MODULE AnalyticsRules ---------------------------
(***************************************************************************)
(* The primitives of the analysis against what they mean.  A case is a     *)
(* timeline of events and a chain of Steps: each Step but the last one is  *)
(* run on the timeline alone, the last one with the Facts of the others.   *)
(***************************************************************************)
EXTENDS Primitives

CONSTANTS
  EventLists,   \* timelines, in the order the executor brings events into
  StepChains    \* sequences of Steps

VARIABLE input

DrawSteps == /\ input = [kind |-> "steps", case |-> Null]
             /\ \E events \in EventLists, steps \in StepChains : input' = [input EXCEPT !.case = <<events, steps>>]

Span(events) == [sources |-> Ascending({e.source : e \in ToSet(events)} \cup {1, 2}), from |-> 0, until |-> 1000]

RunOn(events, step, inputs) ==
  Execute(step, Span(events), inputs, SelectSeq(events, LAMBDA e : e.source \in ToSet(step.sources)))

Inputs(case) == Mapped(Front(case[2]), LAMBDA s : RunOn(case[1], s, << >>).fact)

-----------------------------------------------------------------------------
\* The events of a Step a set of predicates selects.
Selection(events, predicates) == {e \in ToSet(events) : \A p \in predicates : MatchesPredicate(e, p)}

Alike(e, dims) == \A r \in DOMAIN dims : Dimensions(e, <<r>>)[r] = dims[r]

\* Distributions count what is selected; all of it, unless the rows ran out.
ProfileSound(events, step, p) ==
  LET chosen == Selection(events, step.parameters.predicates)
      of(b) == {e \in chosen : Alike(e, b.dims)}
  IN  /\ \A b \in ToSet(p.distributions) :
           /\ b.count = Cardinality(of(b)) /\ b.customers = Cardinality({e.customer : e \in of(b)})
           /\ ToSet(b.evidence) \subseteq {e.evidence : e \in of(b)}
      /\ Len(p.distributions) < step.rows =>
           FoldLeft(Plus, 0, Mapped(p.distributions, LAMBDA b : b.count)) = Cardinality(chosen)
      /\ \A q \in ToSet(p.quality) :
           q.total - q.missing = Cardinality({e \in chosen : Dimensions(e, <<q.ref>>)[q.ref] # Null})

\* The buckets, and the buckets of time, both add up to the whole.
AggregateSound(events, step, p) ==
  LET chosen == Selection(events, step.parameters.predicates)
      top == p.metrics[1].value
      values(rows) == Mapped(rows, LAMBDA b : b.metrics[1].value)
      additive == step.parameters.aggregation \in {"count", "sum"} /\ p.requested \notin CustomerCounts
  IN  /\ \A b \in ToSet(p.buckets) : b.count = Cardinality({e \in chosen : Alike(e, b.dims)})
      /\ \A b \in ToSet(p.series) : \E e \in chosen : b.from <= e.at /\ e.at < b.until /\ Alike(e, b.dims)
      /\ Rows(p) < step.rows =>
           /\ additive => \A rows \in {p.buckets, p.series} : FoldLeft(Plus, 0, values(rows)) = top
           /\ step.parameters.aggregation \in {"min", "max"} /\ chosen # {} =>
                \A rows \in {p.buckets, p.series} : top \in ToSet(values(rows)) \cup {0}
           /\ p.requested \in CustomerCounts => \A v \in ToSet(values(p.buckets)) : v <= top

\* The customers with enough of the selected events, the first of them.
SegmentSound(events, step, p) ==
  LET chosen == Selection(events, step.parameters.predicates)
      enough == {c \in CustomersOf(events) : Cardinality({e \in chosen : e.customer = c}) >= step.parameters.minimum}
  IN  /\ Len(p.customers) = Lower(step.rows, Cardinality(enough)) /\ ToSet(p.customers) \subseteq enough
      /\ \A c \in ToSet(p.customers), d \in enough \ ToSet(p.customers) : c < d
      /\ \A q \in DOMAIN p.counts : p.counts[q] >= Cardinality(chosen)

\* A repetition is as many events of one topic as any window of its width holds.
RepetitionSound(events, step, p) ==
  LET q == step.parameters
      held(c, t, s) == Cardinality({e \in ToSet(events) : /\ e.customer = c /\ Topic(e, q) = t /\ t # Null
                                                          /\ s <= e.at /\ e.at <= s + q.within})
      most(c) == Largest({held(c, Topic(e, q), s.at) : e, s \in {x \in ToSet(events) : x.customer = c}})
      repeated == {c \in CustomersOf(events) : most(c) >= q.minimum}
      cap == Lower(step.rows, step.evidence)
  IN  /\ Len(p.matches) = Lower(cap, Cardinality(repeated))
      /\ \A r \in ToSet(p.matches) : r.count = most(r.customer) /\ r.until - r.from <= q.within + 1
      /\ \A r \in ToSet(p.matches), c \in repeated \ ToSet(Ids(p.matches)) : most(c) <= r.count

\* Some events of the customer are the tokens in their order.
Chain(own, tokens) ==
  \E at \in [DOMAIN tokens -> DOMAIN own] :
    /\ \A i \in DOMAIN tokens : MatchesToken(own[at[i]], tokens[i])
    /\ \A i, j \in DOMAIN tokens : i < j => at[i] < at[j]
    /\ SameTopic(tokens) => \A i \in DOMAIN tokens : own[at[i]].topic = own[at[1]].topic
                                                     /\ own[at[i]].at - own[at[1]].at <= TopicWindow

SequenceSound(events, step, p) ==
  LET customers == {c \in CustomersOf(events) : Chain(OfCustomer(events, c), step.parameters.sequence)}
      found(r) == SelectSeq(events, LAMBDA e : e.id \in ToSet(r.events))
  IN  /\ ToSet(p.customers) \subseteq customers
      /\ Len(p.customers) = Lower(Lower(step.rows, step.evidence), Cardinality(customers))
      /\ \A r \in ToSet(p.matches) : /\ Mapped(found(r), LAMBDA e : e.id) = r.events
                                     /\ CustomersOf(found(r)) = {r.customer}
                                     /\ Chain(found(r), step.parameters.sequence)

\* The score is the weight of all that is said of the customer, and the ranking goes by it.
RankingSound(inputs, step, p) ==
  LET weights == step.parameters.weights
      said(c) == {k \in DOMAIN weights : weights[k] > 0 /\ \E f \in ToSet(inputs) : c \in ToSet(f.customers) /\ k \in Keys(f.metrics)}
      score(c) == Lower(100, MapThenSumSet(LAMBDA k : weights[k], said(c)))
      known == UNION {ToSet(f.customers) : f \in ToSet(inputs)}
  IN  /\ \A r \in ToSet(p.ranked) : r.customer \in known /\ r.score = score(r.customer)
      /\ Len(p.ranked) = Lower(Cardinality(known), Lower(step.rows, step.parameters.limit))
      /\ \A r \in ToSet(p.ranked), c \in known \ ToSet(Ids(p.ranked)) : score(c) <= r.score

\* A journey is the beginning of one authorized customer's events.
JourneySound(events, inputs, p) ==
  /\ \E f \in ToSet(inputs) : p.customer \in ToSet(f.customers)
  /\ IsPrefix(p.events, OfCustomer(events, p.customer))

EvidenceSound(events, inputs, step, p) ==
  LET cited == UNION {ToSet(f.evidence) : f \in ToSet(inputs)}
  IN  /\ {r.evidence : r \in ToSet(p.records)} \subseteq cited
      /\ Len(p.records) = Lower(Cardinality(cited), Smallest({step.rows, step.evidence, step.parameters.limit}))
      /\ \A r \in ToSet(p.records) : \E e \in ToSet(events) : e.evidence = r.evidence /\ e.source = r.source /\ e.at = r.at

Means(events, step, inputs, p) ==
  CASE p.kind = "catalog_sources" -> FoldLeft(Plus, 0, Mapped(p.sources, LAMBDA s : s.count)) = Len(events)
    [] p.kind = "profile_events" -> ProfileSound(events, step, p)
    [] p.kind = "aggregate_events" -> AggregateSound(events, step, p)
    [] p.kind = "segment_customers" -> SegmentSound(events, step, p)
    [] p.kind = "detect_repetition" -> RepetitionSound(events, step, p)
    [] p.kind = "match_sequence" -> SequenceSound(events, step, p)
    [] p.kind = "compare_segments" ->
         p.deltas[1].delta + MetricOf(inputs[1], step.parameters.key).value = MetricOf(inputs[2], step.parameters.key).value
    [] p.kind = "rank_customers" -> RankingSound(inputs, step, p)
    [] p.kind = "get_customer_journey" -> JourneySound(events, inputs, p)
    [] p.kind = "get_evidence" -> EvidenceSound(events, inputs, step, p)

-----------------------------------------------------------------------------
\* The metrics a Step can have, and the only computed results a contract turns down:
\* a field of a source outside the Step, and counts of signing up without a match.
Publishes(step) ==
  CASE step.primitive = "match_sequence" -> {"matched_customer_count", "started_customer_count", "abandoned_customer_count"}
    [] step.primitive \in {"aggregate_events", "compare_segments"} -> ToSet(step.expected)
    [] OTHER -> Required[step.primitive]

Foreign(step, events) ==
  /\ step.primitive \in {"profile_events", "aggregate_events"}
  /\ \E r \in ToSet(step.parameters.group_by) : r[1] # Null /\ r[1] \notin ToSet(step.sources)
  /\ step.primitive = "aggregate_events" => Selection(events, step.parameters.predicates) # {}

OnlyStarted(events, step) ==
  /\ step.primitive = "match_sequence" /\ ToSet(step.expected) \ {"matched_customer_count"} # {}
  /\ \E e \in ToSet(events) : e.action = Started /\ e.topic = Signup
  /\ step.evidence = 0 \/ \A c \in CustomersOf(events) : ~Chain(OfCustomer(events, c), step.parameters.sequence)

Turned(events, step) == \/ ~ToSet(step.expected) \subseteq Publishes(step)
                        \/ Foreign(step, events) \/ OnlyStarted(events, step)

\* What is published means what it says; what is computed is published, but for those; and
\* a Fact of the same events is refused only where the Step does not cover its sources.
OutcomeSound(events, step, inputs) ==
  LET own == SelectSeq(events, LAMBDA e : e.source \in ToSet(step.sources))
  IN  \A out \in {RunOn(events, step, inputs)} :
      /\ out.error = "contract" <=> out.error \notin {"limit", "scope", "no_data", "dependency", "refused"} /\ Turned(own, step)
      /\ out.error = "dependency" <=> /\ out.error \notin {"limit", "scope"}
                                      /\ \E f \in ToSet(inputs) : ~ToSet(f.sources) \subseteq ToSet(step.sources)
      /\ out.fact # Null => Means(own, step, inputs, out.fact.payload)

ChainSound(case) ==
  /\ \A s \in ToSet(Front(case[2])) : OutcomeSound(case[1], s, << >>)
  /\ \A inputs \in {Inputs(case)} : Null \notin ToSet(inputs) => OutcomeSound(case[1], Last(case[2]), inputs)

\* A Fact is what its primitive promises of the events and of the Facts it was given,
\* and nothing a primitive computes is lost to a contract, except where it is known.
StepsAsDefined == input.kind = "steps" /\ input.case # Null => ChainSound(input.case)
=============================================================================
