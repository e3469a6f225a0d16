----------------------------- MODULE Primitives -----------------------------
(***************************************************************************)
(* The ten analysis primitives (analytics/primitives) and the executor     *)
(* that runs one Step of a plan with them (analytics/executor.py).  A      *)
(* predicate is parsed already: [ref, op, values]; a token of a sequence   *)
(* is a predicate, an alias, a pair of an event type and a word, or one    *)
(* word.  An average is rounded down.                                      *)
(***************************************************************************)
EXTENDS Facts, CustomerEvents, TLC

CONSTANTS
  Missing,         \* the value of a field an event does not have
  Manifests,       \* by source: [dimensions, units, capabilities, version]
  CustomerCounts,  \* metric keys that end in customer_count
  Starts,          \* by time grain: when its buckets start
  TopicWindow      \* 72 hours

Canonical == {"id", "evidence", "source", "at", "type", "action", "topic", "outcome", "customer"}

\* semantic_value.
SemanticValue(e, ref) ==
  IF ref[1] # Null /\ ref[1] # e.source THEN Missing
  ELSE IF ref[2] \in Canonical THEN e[ref[2]]
  ELSE IF ref[2] \in DOMAIN e.values THEN e.values[ref[2]] ELSE Missing

\* matches_predicate.  Only "null" and "not_in" hold of a field the event has not.
MatchesPredicate(e, p) ==
  LET v == SemanticValue(e, p.ref)
  IN  CASE p.op = "null"   -> v \in {Missing, Null}
        [] p.op = "in"     -> v # Missing /\ v \in p.values
        [] p.op = "not_in" -> v = Missing \/ v \notin p.values
        [] p.op = "eq"     -> v # Missing /\ v \in p.values
        [] p.op = "ne"     -> v # Missing /\ v \notin p.values
        [] p.op = "lt"     -> v \notin {Missing, Null} /\ \A x \in p.values : v < x
        [] p.op = "ge"     -> v \notin {Missing, Null} /\ \A x \in p.values : v >= x

Filtered(events, predicates) ==
  SelectSeq(events, LAMBDA e : \A p \in predicates : MatchesPredicate(e, p))

\* dimension_values.
Dimensions(e, refs) ==
  [r \in ToSet(refs) |-> IF SemanticValue(e, r) = Missing THEN Null ELSE SemanticValue(e, r)]

\* field_ref: the kind of a field among the sources, Null when none declares it.
FieldKind(ref, sources) ==
  LET selected == {s \in ToSet(sources) : ref[1] \in {Null, s}}
  IN  IF ref[2] \in Canonical THEN "canonical"
      ELSE IF \E s \in selected : ref[2] \in Manifests[s].dimensions THEN "dimension"
      ELSE IF \E s \in selected : ref[2] \in DOMAIN Manifests[s].units THEN "measure" ELSE Null

Metric(key, value, unit) == [key |-> key, value |-> value, unit |-> unit, dims |-> << >>]

\* evidence_allowlist: the first few Evidence ids of a selection, in its own order.
Allowed(events, limit) == {e.evidence : e \in ToSet(Upto(events, limit))}

Cited(events, allowed) ==
  Mapped(SelectSeq(events, LAMBDA e : e.evidence \in allowed), LAMBDA e : e.evidence)

\* What every payload has; x is the context of the Step.
Payload(x, kind, matched, returned, metrics) ==
  [kind |-> kind, inputs |-> Mapped(x.inputs, LAMBDA f : f.id), scanned |-> Len(x.events),
   matched |-> matched, returned |-> returned, metrics |-> metrics, provenance |-> x.provenance]

-----------------------------------------------------------------------------
(* profile.py.                                                             *)

CatalogSources(x, p) ==
  LET rows == Mapped(Ascending(ToSet(x.scope.sources)),
                     LAMBDA s : [source |-> s, count |-> Len(SelectSeq(x.events, LAMBDA e : e.source = s))])
  IN  Payload(x, "catalog_sources", Len(x.events), Len(rows), <<Metric("source_count", Len(rows), "sources")>>)
        @@ [sources |-> rows]

\* _group_events, _time_groups: in the order of the key.
Grouped(events, refs) ==
  LET keys == SetToSortSeq({Dimensions(e, refs) : e \in ToSet(events)},
                           LAMBDA a, b : Before(DimensionKey(a), DimensionKey(b)))
  IN  Mapped(keys, LAMBDA k : [dims |-> k, events |-> SelectSeq(events, LAMBDA e : Dimensions(e, refs) = k)])

\* _bucket_start and _next_bucket.
BucketOf(at, grain) == Largest({s \in Starts[grain] : s <= at})
NextBucket(start, grain) == Smallest({s \in Starts[grain] : s > start})

TimeGrouped(events, refs, grain) ==
  FlattenSeq(Mapped(Ascending({BucketOf(e.at, grain) : e \in ToSet(events)}), LAMBDA from :
    Mapped(Grouped(SelectSeq(events, LAMBDA e : BucketOf(e.at, grain) = from), refs), LAMBDA g :
      g @@ [from |-> from, until |-> NextBucket(from, grain)])))

ProfileEvents(x, p) ==
  LET selected == Filtered(x.events, p.predicates)
      allowed == Allowed(selected, x.evidence)
      rows == Mapped(Upto(Grouped(selected, p.group_by), x.rows), LAMBDA g :
                [dims |-> g.dims, count |-> Len(g.events), customers |-> Cardinality(CustomersOf(g.events)),
                 evidence |-> Cited(g.events, allowed)])
      quality(ref) == [ref |-> ref, kind |-> FieldKind(ref, x.scope.sources), total |-> Len(selected),
                       missing |-> Len(SelectSeq(selected, LAMBDA e : SemanticValue(e, ref) \in {Missing, Null}))]
  IN  Payload(x, "profile_events", Len(selected), Len(rows),
              <<Metric("customer_count", Cardinality(CustomersOf(selected)), "customers"),
                Metric("event_count", Len(selected), "events")>>)
        @@ [distributions |-> rows,
            quality |-> SetToSortSeq({quality(r) : r \in ToSet(p.group_by)},
                                     LAMBDA a, b : Before(QualityKey(a), QualityKey(b)))]

Plus(a, b) == a + b

\* _aggregate_value: without a value there is a zero.
AggregateValue(events, p, key) ==
  LET values == SelectSeq(Mapped(events, LAMBDA e : SemanticValue(e, p.measure)), LAMBDA v : v \notin {Missing, Null})
      total == FoldLeft(Plus, 0, values)
  IN  IF p.aggregation = "count" THEN (IF key \in CustomerCounts THEN Cardinality(CustomersOf(events)) ELSE Len(events))
      ELSE IF values = << >> THEN 0
      ELSE CASE p.aggregation = "sum" -> total
             [] p.aggregation = "avg" -> total \div Len(values)
             [] p.aggregation = "min" -> Smallest(ToSet(values))
             [] p.aggregation = "max" -> Largest(ToSet(values))

\* _metric_unit: a measure has the one unit its sources declare, or Null.
MetricUnit(x, p, key) ==
  LET units == {Manifests[s].units[p.measure[2]] : s \in {t \in ToSet(x.scope.sources) : p.measure[2] \in DOMAIN Manifests[t].units}}
  IN  IF key \in CustomerCounts THEN "customers"
      ELSE IF p.aggregation = "count" THEN "events"
      ELSE IF Cardinality(units) = 1 THEN CHOOSE u \in units : TRUE ELSE Null

AggregateEvents(x, p) ==
  LET key == x.expected[1]
      unit == MetricUnit(x, p, key)
      selected == Filtered(x.events, p.predicates)
      allowed == Allowed(selected, x.evidence)
      row(g) == [dims |-> g.dims, evidence |-> Cited(g.events, allowed), count |-> Len(g.events),
                 customers |-> Cardinality(CustomersOf(g.events)),
                 metrics |-> <<[Metric(key, AggregateValue(g.events, p, key), unit) EXCEPT !.dims = g.dims]>>]
      payload(groups, times) ==
        Payload(x, "aggregate_events", Len(selected), Len(groups) + Len(times),
                <<Metric(key, AggregateValue(selected, p, key), unit)>>)
          @@ [requested |-> key, buckets |-> Mapped(groups, row), 
              series |-> Mapped(times, LAMBDA g : [from |-> g.from, until |-> g.until] @@ row(g))]
      split(groups) == payload(groups, Upto(TimeGrouped(selected, p.group_by, p.grain), x.rows - Len(groups)))
  IN  split(Upto(Grouped(selected, p.group_by), x.rows))

-----------------------------------------------------------------------------
(* segments.py.                                                            *)

SegmentCustomers(x, p) ==
  LET selected == Filtered(x.events, p.predicates)
      payload(found) ==
        Payload(x, "segment_customers", Len(selected), Len(found),
                <<Metric("segment_customer_count", Len(found), "customers")>>)
          @@ [customers |-> found, counts |-> [q \in p.predicates |-> Len(Filtered(x.events, {q}))]]
  IN  payload(Upto(Ascending({c \in CustomersOf(selected) : Len(OfCustomer(selected, c)) >= p.minimum}), x.rows))

CompareSegments(x, p) ==
  LET before == MetricOf(x.inputs[1], p.key)
      after == MetricOf(x.inputs[2], p.key)
      delta == [key |-> p.key, before |-> before.value, after |-> after.value,
                delta |-> after.value - before.value, unit |-> before.unit]
  IN  Payload(x, "compare_segments", 0, 1, <<Metric(x.expected[1], delta.delta, delta.unit)>>)
        @@ [requested |-> x.expected[1], baseline |-> x.inputs[1].id, comparison |-> x.inputs[2].id,
            deltas |-> <<delta>>]

-----------------------------------------------------------------------------
(* sequences.py.                                                           *)

\* The longest run of events inside the window, the earliest of them.
BestWindow(own, within) ==
  LET window(end) == SubSeq(own, Smallest({i \in 1..end : own[end].at - own[i].at <= within}), end)
  IN  FoldLeft(LAMBDA best, end : IF Len(window(end)) > Len(best) THEN window(end) ELSE best,
               << >>, [i \in DOMAIN own |-> i])

Topic(e, p) == Dimensions(e, <<p.topic>>)[p.topic]

\* Of one customer the longest run of any topic, the first topic seen of equals.
BestRun(events, c, p) ==
  LET own == SelectSeq(events, LAMBDA e : e.customer = c /\ Topic(e, p) # Null)
      topics == StableUnion(<<Mapped(own, LAMBDA e : Topic(e, p))>>)
      run(t) == BestWindow(SelectSeq(own, LAMBDA e : Topic(e, p) = t), p.within)
  IN  FoldLeft(LAMBDA best, t : IF Len(run(t)) >= p.minimum /\ Len(run(t)) > Len(best) THEN run(t) ELSE best,
               << >>, topics)

DetectRepetition(x, p) ==
  LET payload(runs) ==
        Payload(x, "detect_repetition", FoldLeft(Plus, 0, Mapped(runs, Len)), Len(runs),
                <<Metric("repeated_customer_count", Len(runs), "customers")>>)
          @@ [matches |-> Mapped(runs, LAMBDA own :
                [customer |-> own[1].customer, count |-> Len(own), from |-> own[1].at, until |-> Last(own).at + 1,
                 evidence |-> <<own[1].evidence>>])]
      order(runs) == SetToSortSeq(runs, LAMBDA a, b : Before(<<- Len(a), a[1].customer>>, <<- Len(b), b[1].customer>>))
  IN  payload(Upto(order({BestRun(x.events, c, p) : c \in CustomersOf(x.events)} \ {<< >>}), Lower(x.rows, x.evidence)))

\* The names _matches_token knows: what an event must be.
Aliases ==
  [search_failed |-> [type |-> Search, action |-> Search, outcome |-> Failed],
   search_repeated |-> [action |-> RepeatSearch], support_contact |-> [action |-> Contact],
   negative_feedback |-> [type |-> Feedback, outcome |-> Negative],
   unresolved_voc |-> [type |-> Voc, outcome |-> Unresolved],
   signup_started |-> [action |-> Started, topic |-> Signup],
   signup_completed |-> [action |-> Completed, topic |-> Signup]]

\* _requires_same_topic: a token that speaks of repeating, of VOC or of customer service.
TopicBound(t) ==
  CASE t.form = "predicate" -> t.predicate.values \cap {Voc, RepeatSearch, Contact} # {}
    [] t.form = "alias" -> t.name \in {"search_repeated", "unresolved_voc"}
    [] t.form = "pair" -> {t.type, t.word} \cap {Voc, RepeatSearch, Contact} # {}
    [] t.form = "word" -> t.word \in {Voc, RepeatSearch, Contact}

MatchesToken(e, t) ==
  CASE t.form = "predicate" -> MatchesPredicate(e, t.predicate)
    [] t.form = "alias" -> \A f \in DOMAIN Aliases[t.name] : e[f] = Aliases[t.name][f]
    [] t.form = "pair" -> e.type = t.type /\ t.word \in {e.action, e.outcome, e.topic}
    [] t.form = "word" -> t.word \in {e.type, e.action, e.outcome, e.topic}

SameTopic(tokens) == \E i \in DOMAIN tokens : TopicBound(tokens[i])

\* Mutant of Follow: an event may serve two tokens of the sequence.
FollowSame(own, first, tokens) ==
  LET fits(i, t) == MatchesToken(own[i], t) /\ (SameTopic(tokens) =>
                       own[i].topic = own[first].topic /\ own[i].at - own[first].at <= TopicWindow)
      next(from, t) == {i \in from..Len(own) : fits(i, t)}
  IN  FoldLeft(LAMBDA s, t : IF s = << >> \/ next(Last(s), t) = {} THEN << >> ELSE Append(s, Smallest(next(Last(s), t))),
               <<first>>, Tail(tokens))

\* The rest of a sequence behind a first event: always the next event that fits.
Follow(own, first, tokens) ==
  LET bound == SameTopic(tokens)
      fits(i, t) == /\ MatchesToken(own[i], t)
                    /\ bound => own[i].topic = own[first].topic /\ own[i].at - own[first].at <= TopicWindow
      next(from, t) == {i \in (from + 1)..Len(own) : fits(i, t)}
  IN  FoldLeft(LAMBDA s, t : IF s = << >> \/ next(Last(s), t) = {} THEN << >> ELSE Append(s, Smallest(next(Last(s), t))),
               <<first>>, Tail(tokens))

\* _first_sequence_match: the events of the first start that goes through, or none.
FirstMatch(own, tokens) ==
  LET runs(starts) == {Follow(own, i, tokens) : i \in starts} \ {<< >>}
      first(found) == IF found = {} THEN << >> ELSE CHOOSE run \in found : \A other \in found : run[1] <= other[1]
  IN  Mapped(first(runs({i \in DOMAIN own : MatchesToken(own[i], tokens[1])})), LAMBDA i : own[i])

SignupMetrics(x) ==
  LET did(action) == {e.customer : e \in {y \in ToSet(x.events) : y.action = action /\ y.topic = Signup}}
  IN  IF {"started_customer_count", "abandoned_customer_count"} \cap ToSet(x.expected) = {} THEN << >>
      ELSE <<Metric("abandoned_customer_count", Cardinality(did(Started) \ did(Completed)), "customers"),
             Metric("started_customer_count", Cardinality(did(Started)), "customers")>>

MatchSequence(x, p) ==
  LET row(own) == [customer |-> own[1].customer, events |-> Mapped(own, LAMBDA e : e.id), from |-> own[1].at,
                   until |-> Last(own).at + 1, evidence |-> <<own[1].evidence>>]
      payload(found) ==
        Payload(x, "match_sequence", FoldLeft(Plus, 0, Mapped(found, Len)), Len(found),
                SortSeq(<<Metric("matched_customer_count", Len(found), "customers")>> \o SignupMetrics(x),
                        LAMBDA a, b : Position(KeyOrder, a.key) < Position(KeyOrder, b.key)))
          @@ [customers |-> Mapped(found, LAMBDA own : own[1].customer), matches |-> Mapped(found, row)]
      order(matches) == SetToSortSeq(matches, LAMBDA a, b : a[1].customer < b[1].customer)
  IN  payload(Upto(order({FirstMatch(OfCustomer(x.events, c), p.sequence) : c \in CustomersOf(x.events)} \ {<< >>}),
                   Lower(x.rows, x.evidence)))

-----------------------------------------------------------------------------
(* ranking.py and evidence.py.                                             *)

\* What a weight contributes to a customer: nothing without a Fact that has both.
Supporting(x, c, key) ==
  SelectSeq(x.inputs, LAMBDA f : c \in ToSet(f.customers) /\ key \in Keys(f.metrics))

Signals(x, c, weights) ==
  LET keys == SelectSeq(KeyOrder, LAMBDA k : k \in DOMAIN weights /\ Supporting(x, c, k) # << >>)
  IN  Mapped(keys, LAMBDA k : [key |-> k, contribution |-> IF weights[k] > 0 THEN weights[k] ELSE 0,
                               refs |-> Mapped(Supporting(x, c, k), LAMBDA f : <<f.id, k>>)])

RankCustomers(x, p) ==
  LET customers == UNION {ToSet(f.customers) : f \in ToSet(x.inputs)}
      score(c) == Lower(100, FoldLeft(Plus, 0, Mapped(Signals(x, c, p.weights), LAMBDA s : s.contribution)))
      rows == {[customer |-> c, score |-> score(c), signals |-> Signals(x, c, p.weights)] : c \in customers}
      ranked == Upto(SetToSortSeq(rows, LAMBDA a, b : Before(<<- a.score, a.customer>>, <<- b.score, b.customer>>)),
                     Lower(p.limit, x.rows))
  IN  Payload(x, "rank_customers", Len(SelectSeq(x.events, LAMBDA e : e.customer \in ToSet(Ids(ranked)))), Len(ranked),
              <<Metric("ranked_customer_count", Len(ranked), "customers")>>)
        @@ [ranked |-> ranked]

\* The customers the input Facts authorize, in their order: the first one has the journey.
Authorized(x) == StableUnion(Mapped(x.inputs, LAMBDA f : f.customers))

GetCustomerJourney(x, p) ==
  LET own == OfCustomer(x.events, Authorized(x)[1])
      rows == Upto(own, Smallest({p.limit, x.rows, x.evidence}))
  IN  Payload(x, "get_customer_journey", Len(own), Len(rows), <<Metric("journey_event_count", Len(rows), "events")>>)
        @@ [customer |-> Authorized(x)[1], events |-> rows]

GetEvidence(x, p) ==
  LET known == {e.evidence : e \in ToSet(x.events)}
      requested == SelectSeq(StableUnion(Mapped(x.inputs, LAMBDA f : f.evidence)), LAMBDA id : id \in known)
      record(id) == CHOOSE e \in ToSet(x.events) : e.evidence = id
      rows == Mapped(Upto(requested, Smallest({p.limit, x.rows, x.evidence})), LAMBDA id :
                [evidence |-> id, source |-> record(id).source, at |-> record(id).at])
  IN  Payload(x, "get_evidence", Len(rows), Len(rows), <<Metric("evidence_record_count", Len(rows), "records")>>)
        @@ [records |-> rows]

-----------------------------------------------------------------------------
(* executor.py.  A Step is [id, primitive, sources, inputs, parameters,    *)
(* expected, rows, evidence]; its inputs here are the Facts they resolve to. *)

Declared(refs, sources) == \A i \in DOMAIN refs : FieldKind(refs[i], sources) # Null

\* What a handler refuses before it computes.
Accepts(x, kind, p) ==
  CASE kind = "catalog_sources" -> Len(x.scope.sources) <= x.rows
    [] kind = "profile_events" -> IsInjective(p.group_by) /\ Declared(p.group_by, x.scope.sources)
    [] kind = "aggregate_events" ->
         IsInjective(p.group_by) /\ Len(x.expected) = 1 /\ MetricUnit(x, p, x.expected[1]) # Null
    [] kind = "compare_segments" ->
         /\ Len(x.inputs) = 2 /\ \A i \in 1..2 : Resolves(x.inputs[i], p.key)
         /\ MetricOf(x.inputs[1], p.key).unit = MetricOf(x.inputs[2], p.key).unit
         /\ x.expected = <<p.key \o "_delta">>
    [] kind = "get_customer_journey" -> Authorized(x) # << >>
    [] OTHER -> TRUE

Handle(x, kind, p) ==
  CASE kind = "catalog_sources" -> CatalogSources(x, p)
    [] kind = "profile_events" -> ProfileEvents(x, p)
    [] kind = "aggregate_events" -> AggregateEvents(x, p)
    [] kind = "segment_customers" -> SegmentCustomers(x, p)
    [] kind = "detect_repetition" -> DetectRepetition(x, p)
    [] kind = "match_sequence" -> MatchSequence(x, p)
    [] kind = "compare_segments" -> CompareSegments(x, p)
    [] kind = "rank_customers" -> RankCustomers(x, p)
    [] kind = "get_customer_journey" -> GetCustomerJourney(x, p)
    [] kind = "get_evidence" -> GetEvidence(x, p)

\* _payload_row_count.
Rows(p) ==
  CASE p.kind = "catalog_sources" -> Len(p.sources)
    [] p.kind = "profile_events" -> Len(p.distributions)
    [] p.kind = "aggregate_events" -> Len(p.buckets) + Len(p.series)
    [] p.kind = "segment_customers" -> Len(p.customers)
    [] p.kind \in {"detect_repetition", "match_sequence"} -> Len(p.matches)
    [] p.kind = "compare_segments" -> Len(p.deltas)
    [] p.kind = "rank_customers" -> Len(p.ranked)
    [] p.kind = "get_customer_journey" -> Len(p.events)
    [] p.kind = "get_evidence" -> Len(p.records)

\* _validate_payload_limits and _validate_payload_contract.
WithinStep(p, x) ==
  /\ Rows(p) <= x.rows /\ Len(Evidence(p)) <= x.evidence /\ p.returned = Rows(p)
  /\ p.scanned = Len(x.events) /\ p.inputs = Mapped(x.inputs, LAMBDA f : f.id) /\ p.provenance = x.provenance
  /\ ToSet(x.expected) \subseteq Keys(p.metrics)
  /\ ToSet(Evidence(p)) \subseteq {e.evidence : e \in ToSet(x.events)}
  /\ ToSet(Customers(p)) \subseteq CustomersOf(x.events)

\* _validate_dependency_provenance: a Step covers the sources of the Facts it uses, and they
\* are of its time scope and of the versions it reads.
InputsCurrent(inputs, current) ==
  \A f \in ToSet(inputs) :
    LET held == f.payload.provenance
    IN  /\ ToSet(f.sources) \subseteq ToSet(current.sources)
        /\ held.scope.from = current.scope.from /\ held.scope.until = current.scope.until
        /\ \A s \in ToSet(f.sources) : held.versions[s] = current.versions[s]

\* _validate_dependency_authorization.
InputsInScope(inputs, events) ==
  \A f \in ToSet(inputs) : /\ ToSet(f.customers) \subseteq CustomersOf(events)
                           /\ ToSet(f.evidence) \subseteq {e.evidence : e \in ToSet(events)}

ParametersFit(step) ==
  /\ step.primitive \in {"rank_customers", "get_customer_journey", "get_evidence"} => step.parameters.limit <= step.rows
  /\ step.primitive = "get_evidence" => step.parameters.limit <= step.evidence

Fails(error) == [fact |-> Null, error |-> error]

\* execute, once the inputs are resolved; events are those of the scope.
Execute(step, scope, inputs, events) ==
  LET own == [scope EXCEPT !.sources = step.sources]
      x == [scope |-> own, events |-> events, inputs |-> inputs, expected |-> step.expected,
            rows |-> step.rows, evidence |-> step.evidence,
            provenance |-> [scope |-> own, sources |-> step.sources,
                            versions |-> [s \in ToSet(step.sources) |-> Manifests[s].version]]]
      outcome(payload, fact) == IF ~(PayloadContract(payload) /\ WithinStep(payload, x)) \/ fact = Null
                                THEN Fails("contract") ELSE [fact |-> fact, error |-> Null]
      bound(payload) == outcome(payload, BuildFact(<<"fact", step.id>>, step.id, payload, own, inputs))
  IN  IF ~ParametersFit(step) THEN Fails("limit")
      ELSE IF ~ToSet(step.sources) \subseteq ToSet(scope.sources) THEN Fails("scope")
      ELSE IF \E s \in ToSet(step.sources) : step.primitive \notin Manifests[s].capabilities THEN Fails("scope")
      ELSE IF ~InputsCurrent(inputs, x.provenance) THEN Fails("dependency")
      ELSE IF events = << >> THEN Fails("no_data")
      ELSE IF ~InputsInScope(inputs, events) THEN Fails("dependency")
      ELSE IF ~Accepts(x, step.primitive, step.parameters) THEN Fails("refused")
      ELSE bound(Handle(x, step.primitive, step.parameters))
=============================================================================
