------------------------------- MODULE Facts -------------------------------
(***************************************************************************)
(* The contracts of an analysis Fact (domain/facts.py): what a payload of  *)
(* each primitive must satisfy, and what a Fact says of it in public.  A   *)
(* payload is a record                                                     *)
(*   [kind, inputs, scanned, matched, returned, metrics, provenance, ...]  *)
(* with the records of its kind; a metric is [key, value, unit, dims]; a   *)
(* field reference is <<source or Null, name>>.  Two orders stand for the  *)
(* orders of texts: KeyOrder of metric keys, RefOrder of field references. *)
(***************************************************************************)
EXTENDS Integers, SequencesExt

CONSTANTS
  Null,       \* None
  KeyOrder,   \* metric keys in the order of their texts
  RefOrder    \* field references in the order of their texts

Position(order, x) == SelectInSeq(order, LAMBDA y : y = x)

\* _dimension_key: the values as one text, in the order of their fields.
DimensionKey(dims) ==
  [i \in DOMAIN RefOrder |-> IF RefOrder[i] \notin DOMAIN dims THEN 0
                             ELSE IF dims[RefOrder[i]] = Null THEN 100 ELSE dims[RefOrder[i]] + 1]

\* Tuples of numbers, as Python orders them.
Before(a, b) ==
  \E i \in DOMAIN a : a[i] < b[i] /\ \A j \in 1..(i - 1) : a[j] = b[j]

\* _require_sorted_unique.
SortedUnique(keys) == \A i \in 1..(Len(keys) - 1) : Before(keys[i], keys[i + 1])

Mapped(seq, Op(_)) == [i \in DOMAIN seq |-> Op(seq[i])]

MetricsOrdered(metrics) ==
  SortedUnique(Mapped(metrics, LAMBDA m : <<Position(KeyOrder, m.key)>> \o DimensionKey(m.dims)))

\* The order of the data quality of a profile: source, kind, name.
Kinds == <<"canonical", "dimension", "measure">>
QualityKey(q) ==
  <<IF q.ref[1] = Null THEN 0 ELSE q.ref[1], Position(Kinds, q.kind), Position(RefOrder, q.ref)>>

\* Stable union of sequences.
StableUnion(seqs) ==
  FoldLeft(LAMBDA out, x : IF Contains(out, x) THEN out ELSE Append(out, x), << >>, FlattenSeq(seqs))

-----------------------------------------------------------------------------
\* The metrics a payload of the kind must publish; none is fixed for two of them.
Required ==
  [catalog_sources |-> {"source_count"}, profile_events |-> {"customer_count", "event_count"},
   aggregate_events |-> {}, segment_customers |-> {"segment_customer_count"},
   detect_repetition |-> {"repeated_customer_count"}, match_sequence |-> {"matched_customer_count"},
   compare_segments |-> {}, rank_customers |-> {"ranked_customer_count"},
   get_customer_journey |-> {"journey_event_count"}, get_evidence |-> {"evidence_record_count"}]

Keys(metrics) == {metrics[i].key : i \in DOMAIN metrics}

Provenanced(v) ==
  /\ IsInjective(v.sources) /\ v.sources = v.scope.sources
  /\ DOMAIN v.versions = ToSet(v.sources)

\* FactPayloadBase: an empty result publishes nothing but zeros.
CommonContract(p) ==
  /\ IsInjective(p.inputs) /\ p.metrics # << >> /\ MetricsOrdered(p.metrics)
  /\ Required[p.kind] \subseteq Keys(p.metrics)
  /\ p.returned = 0 => \A m \in ToSet(p.metrics) : m.value = 0

Ids(rows) == Mapped(rows, LAMBDA r : r.customer)

ProfileContract(p) ==
  /\ SortedUnique(Mapped(p.distributions, LAMBDA b : DimensionKey(b.dims)))
  /\ \A b \in ToSet(p.distributions) : IsInjective(b.evidence)
  /\ SortedUnique(Mapped(p.quality, QualityKey))
  /\ \A q \in ToSet(p.quality) : q.missing <= q.total

AggregateContract(p) ==
  LET nested == ToSet(p.buckets) \cup ToSet(p.series)
  IN  /\ Mapped(p.metrics, LAMBDA m : m.key) = <<p.requested>>
      /\ SortedUnique(Mapped(p.buckets, LAMBDA b : DimensionKey(b.dims)))
      /\ SortedUnique(Mapped(p.series, LAMBDA b : <<b.from, b.until>> \o DimensionKey(b.dims)))
      /\ \A b \in nested : /\ IsInjective(b.evidence) /\ MetricsOrdered(b.metrics)
                          /\ Keys(b.metrics) = {p.requested}

SequenceContract(p) ==
  /\ IsInjective(p.customers) /\ p.customers = Ids(p.matches)
  /\ IsInjective(FlattenSeq(Mapped(p.matches, LAMBDA r : r.events)))
  /\ \A r \in ToSet(p.matches) : Len(r.events) >= 2 /\ r.evidence # << >>

ComparisonContract(p) ==
  /\ p.baseline # p.comparison /\ p.inputs = <<p.baseline, p.comparison>>
  /\ Len(p.deltas) = 1 /\ p.deltas[1].delta = p.deltas[1].after - p.deltas[1].before
  /\ p.requested = p.deltas[1].key \o "_delta"
  /\ Mapped(p.metrics, LAMBDA m : <<m.key, m.value, m.unit>>) = <<<<p.requested, p.deltas[1].delta, p.deltas[1].unit>>>>

RankingContract(p) ==
  /\ IsInjective(Ids(p.ranked)) /\ SortedUnique(Mapped(p.ranked, LAMBDA r : <<- r.score, r.customer>>))
  /\ \A r \in ToSet(p.ranked) :
       /\ r.score \in 0..100
       /\ SortedUnique(Mapped(r.signals, LAMBDA s : <<Position(KeyOrder, s.key)>>))
       /\ \A s \in ToSet(r.signals) : s.refs # << >> /\ IsInjective(s.refs)

PayloadContract(p) ==
  /\ Provenanced(p.provenance) /\ CommonContract(p)
  /\ CASE p.kind = "catalog_sources" -> SortedUnique(Mapped(p.sources, LAMBDA s : <<s.source>>))
       [] p.kind = "profile_events" -> ProfileContract(p)
       [] p.kind = "aggregate_events" -> AggregateContract(p)
       [] p.kind = "segment_customers" -> SortedUnique(Mapped(p.customers, LAMBDA c : <<c>>))
       [] p.kind = "detect_repetition" ->
            /\ IsInjective(Ids(p.matches)) /\ SortedUnique(Mapped(p.matches, LAMBDA r : <<- r.count, r.customer>>))
            /\ \A r \in ToSet(p.matches) : r.count >= 2 /\ r.from < r.until
       [] p.kind = "match_sequence" -> SequenceContract(p)
       [] p.kind = "compare_segments" -> ComparisonContract(p)
       [] p.kind = "rank_customers" -> RankingContract(p)
       [] p.kind = "get_customer_journey" ->
            /\ SortedUnique(Mapped(p.events, LAMBDA e : <<e.at, e.id>>))
            /\ IsInjective(Mapped(p.events, LAMBDA e : e.id)) /\ IsInjective(Mapped(p.events, LAMBDA e : e.evidence))
       [] p.kind = "get_evidence" -> IsInjective(Mapped(p.records, LAMBDA r : r.evidence))

-----------------------------------------------------------------------------
\* extract_fact_projection: the customers and the evidence a payload authorizes.
Customers(p) ==
  CASE p.kind = "segment_customers" -> p.customers
    [] p.kind \in {"detect_repetition", "match_sequence"} -> Ids(p.matches)
    [] p.kind = "rank_customers" -> Ids(p.ranked)
    [] p.kind = "get_customer_journey" -> <<p.customer>>
    [] OTHER -> << >>

Evidence(p) ==
  LET of(rows) == Mapped(rows, LAMBDA r : r.evidence)
  IN  CASE p.kind = "profile_events" -> StableUnion(of(p.distributions))
        [] p.kind = "aggregate_events" -> StableUnion(of(p.buckets) \o of(p.series))
        [] p.kind \in {"detect_repetition", "match_sequence"} -> StableUnion(of(p.matches))
        [] p.kind = "get_customer_journey" -> of(p.events)
        [] p.kind = "get_evidence" -> of(p.records)
        [] OTHER -> << >>

\* _nested_source_ids: every source the payload's records or field references name.
NestedSources(p) ==
  LET refs(rows) == UNION {DOMAIN r.dims : r \in ToSet(rows)}
      named(fields) == {f[1] : f \in fields} \ {Null}
  IN  CASE p.kind = "catalog_sources" -> {s.source : s \in ToSet(p.sources)}
        [] p.kind = "profile_events" -> named({q.ref : q \in ToSet(p.quality)} \cup refs(p.distributions))
        [] p.kind = "aggregate_events" -> named(refs(p.buckets) \cup refs(p.series))
        [] p.kind = "get_customer_journey" -> {e.source : e \in ToSet(p.events)}
        [] p.kind = "get_evidence" -> {r.source : r \in ToSet(p.records)}
        [] OTHER -> {}

\* AnalysisFact.metric: exactly one metric has the key.
Resolves(fact, key) == Quantify(DOMAIN fact.metrics, LAMBDA i : fact.metrics[i].key = key) = 1
MetricOf(fact, key) == SelectSeq(fact.metrics, LAMBDA m : m.key = key)[1]

\* validate_comparison_payload: the delta is of exactly these two Facts.
Compares(p, inputs) ==
  /\ Mapped(inputs, LAMBDA f : f.id) = p.inputs /\ Len(inputs) = 2
  /\ \A i \in 1..2 : /\ Resolves(inputs[i], p.deltas[1].key)
                     /\ MetricOf(inputs[i], p.deltas[1].key).unit = p.deltas[1].unit
  /\ p.deltas[1].before = MetricOf(inputs[1], p.deltas[1].key).value
  /\ p.deltas[1].after = MetricOf(inputs[2], p.deltas[1].key).value

\* build_fact: a Fact, or Null when one of its bindings fails.
BuildFact(id, step, p, scope, inputs) ==
  IF /\ p.provenance.scope = scope /\ p.provenance.sources = scope.sources
     /\ IsInjective(Customers(p)) /\ IsInjective(Evidence(p))
     /\ NestedSources(p) \subseteq ToSet(scope.sources)
     /\ p.kind = "compare_segments" => Compares(p, inputs)
  THEN [id |-> id, step |-> step, primitive |-> p.kind, sources |-> scope.sources,
        customers |-> Customers(p), evidence |-> Evidence(p), metrics |-> p.metrics, payload |-> p]
  ELSE Null
=============================================================================
