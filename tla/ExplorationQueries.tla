------------------------- MODULE ExplorationQueries -------------------------
(***************************************************************************)
(* What the exploration Tools compute from a scan (exploration/tools.py,   *)
(* fields.py, materialization.py): which fields a query may name, which    *)
(* events its predicates select, and the rows it derives from the events   *)
(* it is handed one at a time in the global order.  A value is a member of *)
(* a small set; text predicates are the sets of values they hold for, and  *)
(* every order of values or opaque references is one fixed order.          *)
(***************************************************************************)
EXTENDS Integers, SequencesExt

CONSTANTS
  Null,      \* None
  Catalog    \* Catalog[s]: the fields source s describes, by <<scope, name>>

\* The elements of S in a sequence, and those a test holds for, in their order.
Only(seq, S) == FoldLeft(LAMBDA out, e : IF e \in S THEN Append(out, e) ELSE out, << >>, seq)

Those(seq, Test(_)) == Only(seq, {e \in ToSet(seq) : Test(e)})

-----------------------------------------------------------------------------
(* Fields and predicates.                                                  *)

\* An event: [id, source, at, customer, action, values], values by <<scope, name>>.
\* A field reference: [scope, source, name]; a canonical one has source Null.
CanonicalTypes == [source_id |-> "string", occurred_at |-> "timestamp", action |-> "string"]

Described(f) ==
  IF f.scope = "canonical" THEN f.name \in DOMAIN CanonicalTypes
  ELSE <<f.scope, f.name>> \in DOMAIN Catalog[f.source]

DataType(f) ==
  IF f.scope = "canonical" THEN CanonicalTypes[f.name]
  ELSE Catalog[f.source][<<f.scope, f.name>>].type

Public(f) ==
  \/ f.scope = "canonical"
  \/ ~Catalog[f.source][<<f.scope, f.name>>].pii /\ DataType(f) # "identifier"

\* validate_field.  Use is "numeric", "value" (filtered, grouped, exported) or "time".
FieldAllowed(f, sources, use) ==
  /\ f.scope = "canonical" \/ f.source \in sources
  /\ Described(f) /\ Public(f)
  /\ use = "numeric" => f.scope = "measure"
  /\ use = "value" => DataType(f) # "text" /\ ~(f.scope = "canonical" /\ f.name = "occurred_at")

\* public_fields: the catalog also lists what can only be counted.
PublicFields(sources) ==
  {[scope |-> "canonical", source |-> s, name |-> n] : s \in sources, n \in DOMAIN CanonicalTypes}
  \cup UNION {{[scope |-> d[1], source |-> s, name |-> d[2]] :
                d \in {x \in DOMAIN Catalog[s] : ~Catalog[s][x].pii}} : s \in sources}

\* A predicate: [field, op, values, type].  op is "exists", "missing", "in",
\* "not_in", "text" (contains, starts_with) or an order.
Orders == {"gt", "gte", "lt", "lte"}

ValueFits(type, dataType) ==
  type = dataType \/ <<type, dataType>> \in {<<"integer", "number">>, <<"string", "timestamp">>}

\* validate_predicate.
PredicateAllowed(p, sources) ==
  LET time == p.field.scope = "canonical" /\ p.field.name = "occurred_at"
  IN  /\ FieldAllowed(p.field, sources, IF time THEN "time" ELSE "value")
      /\ p.op = "text" => DataType(p.field) = "string"
      /\ p.op \in Orders => DataType(p.field) \in {"integer", "number", "timestamp"}
      /\ p.op \in Orders \cup {"in", "not_in"} => ValueFits(p.type, DataType(p.field))

\* lookup: a source's own field says nothing about the events of other sources.
Applicable(e, f) == f.scope = "canonical" \/ e.source = f.source

Value(e, f) ==
  CASE f.scope = "canonical" /\ f.name = "source_id" -> e.source
    [] f.scope = "canonical" /\ f.name = "occurred_at" -> e.at
    [] f.scope = "canonical" /\ f.name = "action" -> e.action
    [] OTHER -> IF e.source = f.source /\ <<f.scope, f.name>> \in DOMAIN e.values
                THEN e.values[<<f.scope, f.name>>] ELSE Null

Compares(v, op, values) ==
  CASE op \in {"in", "text"} -> v \in values
    [] op = "not_in" -> v \notin values
    [] op = "gt" -> \A x \in values : v > x
    [] op = "gte" -> \A x \in values : v >= x
    [] op = "lt" -> \A x \in values : v < x
    [] op = "lte" -> \A x \in values : v <= x

\* _matches_one.
Selects(e, p) ==
  LET v == Value(e, p.field)
  IN  /\ Applicable(e, p.field)
      /\ IF p.op = "exists" THEN v # Null
         ELSE IF p.op = "missing" THEN v = Null
         ELSE v # Null /\ Compares(v, p.op, p.values)

\* matches.
Matches(e, predicates) == \A p \in predicates : Selects(e, p)

Lookups(e, fields) == [i \in 1..Len(fields) |-> Value(e, fields[i])]

AllApplicable(e, fields) == \A i \in 1..Len(fields) : Applicable(e, fields[i])

\* _event_key: the global order of events, that of the scan.
Precedes(a, b) ==
  \/ a.at < b.at
  \/ a.at = b.at /\ a.source < b.source
  \/ a.at = b.at /\ a.source = b.source /\ a.id < b.id

Key(e) == <<e.at, e.source, e.id>>

\* _time_bucket; width 0 is no bucket, and a week begins on its Monday.
Bucket(at, width, monday) == IF width = 0 THEN Null ELSE at - ((at - monday) % width)

-----------------------------------------------------------------------------
(* inspect_data_space.                                                     *)

\* _BoundedVocabulary.add: the smallest values stay.
Learn(voc, v, limit) ==
  IF v \in voc.values THEN voc
  ELSE IF Cardinality(voc.values) < limit THEN [voc EXCEPT !.values = @ \cup {v}]
  ELSE LET largest == CHOOSE x \in voc.values : \A y \in voc.values : y <= x
       IN  [values |-> IF v < largest THEN (voc.values \ {largest}) \cup {v} ELSE voc.values,
            truncated |-> TRUE]

Vocabulary(seen, limit) ==
  FoldLeft(LAMBDA voc, v : Learn(voc, v, limit), [values |-> {}, truncated |-> FALSE], seen)

\* _inspect_sources: one row per selected source, with what was read of it.
SourceRow(events, s) ==
  LET own == Those(events, LAMBDA e : e.source = s)
  IN  [source |-> s, count |-> Len(own),
       first |-> IF own = << >> THEN Null ELSE own[1].at,
       last |-> IF own = << >> THEN Null ELSE Last(own).at]

\* _inspect_fields: how often a field is missing, known after a complete scan.
FieldRow(events, f, partial) ==
  LET own == Those(events, LAMBDA e : e.source = f.source)
  IN  [field |-> f,
       missing |-> IF partial \/ own = << >> THEN Null
                   ELSE IF f.scope = "canonical" THEN 0
                   ELSE Len(Those(own, LAMBDA e : Value(e, f) = Null)),
       total |-> IF partial \/ own = << >> THEN Null ELSE Len(own)]

\* _remember_anchor, for events in the global order: the first one stays.
Remember(anchors, e) ==
  IF e.customer \in DOMAIN anchors THEN anchors
  ELSE [c \in DOMAIN anchors \cup {e.customer} |-> IF c = e.customer THEN e ELSE anchors[c]]

\* _inspect_values: rows by value, and the customers they come from.
Valued(events, q) ==
  LET hits == Those(events, LAMBDA e : Matches(e, q.predicates) /\ Applicable(e, q.field))
      count(v) == Len(Those(hits, LAMBDA e : Value(e, q.field) = v))
  IN  [rows |-> {[value |-> v, count |-> count(v), missing |-> count(Null), total |-> Len(hits)] :
                  v \in {Value(e, q.field) : e \in ToSet(hits)}},
       anchors |-> FoldLeft(Remember, << >>, hits)]

-----------------------------------------------------------------------------
(* summarize_events.                                                       *)

NoNumbers == [count |-> 0, total |-> 0, minimum |-> Null, maximum |-> Null]
NoStats == [events |-> 0, customers |-> {}, anchors |-> << >>, numbers |-> NoNumbers,
            denominator |-> 0, numerator |-> 0, among |-> {}, with |-> {}]

\* _NumericStats.add.
AddNumber(n, v) ==
  [count |-> n.count + 1, total |-> n.total + v,
   minimum |-> IF n.minimum = Null \/ v < n.minimum THEN v ELSE n.minimum,
   maximum |-> IF n.maximum = Null \/ v > n.maximum THEN v ELSE n.maximum]

\* One event in its group: every metric of the query at once.
Tally(st, e, q) ==
  LET den == Matches(e, q.denominator)
      num == den /\ Matches(e, q.numerator)
  IN  [st EXCEPT !.events = @ + 1, !.customers = @ \cup {e.customer}, !.anchors = Remember(@, e),
                 !.numbers = IF Value(e, q.measure) = Null THEN @ ELSE AddNumber(@, Value(e, q.measure)),
                 !.denominator = @ + (IF den THEN 1 ELSE 0),
                 !.numerator = @ + (IF num THEN 1 ELSE 0),
                 !.among = IF den THEN @ \cup {e.customer} ELSE @,
                 !.with = IF num THEN @ \cup {e.customer} ELSE @]

\* A group that is not there yet is appended: groups keep the order of their first event.
Tallied(groups, e, q) ==
  LET key == <<Bucket(e.at, q.width, 0), Lookups(e, q.group_by)>>
      at == SelectInSeq(groups, LAMBDA g : g.key = key)
  IN  IF at = 0 THEN Append(groups, [key |-> key, stats |-> Tally(NoStats, e, q)])
      ELSE [groups EXCEPT ![at].stats = Tally(@, e, q)]

\* consume of _compute_summary.
Counts(e, q) ==
  /\ q.cohort = Null \/ e.customer \in q.cohort
  /\ Matches(e, q.predicates) /\ AllApplicable(e, q.group_by)

Groups(events, q) ==
  FoldLeft(LAMBDA g, e : IF Counts(e, q) THEN Tallied(g, e, q) ELSE g, << >>, events)

\* _metric_value: a prefix says nothing of a ratio.
Ratio(num, den, partial) == IF partial \/ den = 0 THEN Null ELSE <<num, den>>

SummaryRow(g, partial) ==
  LET st == g.stats
  IN  [key |-> g.key, events |-> st.events, customers |-> Cardinality(st.customers),
       numbers |-> st.numbers, by_event |-> Ratio(st.numerator, st.denominator, partial),
       by_customer |-> Ratio(Cardinality(st.with), Cardinality(st.among), partial),
       cohort |-> st.customers]

\* anchors.update: a customer of several groups has the anchor of the last one.
Updated(anchors, newer) ==
  [c \in DOMAIN anchors \cup DOMAIN newer |-> IF c \in DOMAIN newer THEN newer[c] ELSE anchors[c]]

Summarized(events, q, partial) ==
  LET groups == Groups(events, q)
  IN  [rows |-> {SummaryRow(groups[i], partial) : i \in 1..Len(groups)},
       anchors |-> FoldLeft(LAMBDA a, g : Updated(a, g.stats.anchors), << >>, groups)]

-----------------------------------------------------------------------------
(* analyze_event_sequences.  A repetition: [mode, predicates, fields,      *)
(* group_by, min, gap]; a sequence or a funnel: [mode, steps, group_by,    *)
(* span], a step [sources, predicates, min].                               *)

MatchesStep(e, step) == e.source \in step.sources /\ Matches(e, step.predicates)

\* _event_is_sequence_candidate.
Candidate(e, q) ==
  IF q.mode = "repetition" THEN Matches(e, q.predicates) /\ AllApplicable(e, q.fields)
  ELSE \E i \in DOMAIN q.steps : MatchesStep(e, q.steps[i])

Asked(predicates) == {p.field : p \in predicates}

\* _sequence_projection_fields.
RequestFields(q) ==
  ToSet(q.group_by) \cup
    IF q.mode = "repetition" THEN ToSet(q.fields) \cup Asked(q.predicates)
    ELSE UNION {Asked(q.steps[i].predicates) : i \in DOMAIN q.steps}

\* append_work_event: a candidate is stored with the fields the request names.
Kept(e, q) ==
  [e EXCEPT !.values = [k \in {<<f.scope, f.name>> : f \in {g \in RequestFields(q) :
                                 g.scope # "canonical" /\ Applicable(e, g)}} |->
                          Value(e, [scope |-> k[1], source |-> e.source, name |-> k[2]])]]

\* An event goes to the last cluster unless the gap to that one's last event is too long.
Cluster(clusters, e, gap) ==
  IF clusters = << >> \/ e.at - Last(Last(clusters)).at > gap THEN Append(clusters, <<e>>)
  ELSE [clusters EXCEPT ![Len(clusters)] = Append(@, e)]

Clusters(events, gap) == FoldLeft(LAMBDA cs, e : Cluster(cs, e, gap), << >>, events)

\* The values of the completing event, for the fields that are not the key already.
Extra(e, q) ==
  [i \in {j \in DOMAIN q.group_by : /\ q.group_by[j] \notin ToSet(q.fields)
                                     /\ Applicable(e, q.group_by[j])} |-> Value(e, q.group_by[i])]

RepetitionRow(key, c, q) ==
  [customer |-> c[1].customer, values |-> key, extra |-> Extra(c[q.min], q), count |-> Len(c),
   first |-> c[1].at, last |-> Last(c).at, anchor |-> c[q.min]]

\* _repetition_matches, for the stored events of one customer.
RepetitionMatches(events, q) ==
  LET key(e) == Lookups(e, q.fields)
      clusters(k) == Clusters(Those(events, LAMBDA e : key(e) = k), q.gap)
  IN  UNION {{RepetitionRow(k, c, q) : c \in {d \in ToSet(clusters(k)) : Len(d) >= q.min}} :
             k \in {key(e) : e \in ToSet(events)}}

Nth(S, n) == CHOOSE i \in S : Cardinality({j \in S : j <= i}) = n

\* The positions a step may still use: past the events used, and strictly later.
Usable(events, step, m) ==
  {i \in m.next..Len(events) : /\ m.done = << >> \/ events[i].at > Last(m.done).at
                               /\ MatchesStep(events[i], step)}

\* Mutant of Take: the span is measured from the previous step.
TakeFromLast(m, events, step, span) ==
  LET hits == Usable(events, step, m)
  IN  IF m.stopped \/ Cardinality(hits) < step.min THEN [m EXCEPT !.stopped = TRUE]
      ELSE LET first == IF m.done = << >> THEN events[Nth(hits, 1)] ELSE m.first
               from == IF m.done = << >> THEN first ELSE Last(m.done)
               done == events[Nth(hits, step.min)]
           IN  IF done.at - from.at > span THEN [m EXCEPT !.stopped = TRUE]
               ELSE [next |-> Nth(hits, step.min) + 1, first |-> first,
                     done |-> Append(m.done, done), stopped |-> FALSE]

\* One step: its first occurrences, unless they end too long after the first match.
Take(m, events, step, span) ==
  LET hits == Usable(events, step, m)
  IN  IF m.stopped \/ Cardinality(hits) < step.min THEN [m EXCEPT !.stopped = TRUE]
      ELSE LET first == IF m.done = << >> THEN events[Nth(hits, 1)] ELSE m.first
               done == events[Nth(hits, step.min)]
           IN  IF done.at - first.at > span THEN [m EXCEPT !.stopped = TRUE]
               ELSE [next |-> Nth(hits, step.min) + 1, first |-> first,
                     done |-> Append(m.done, done), stopped |-> FALSE]

Matched(events, q) ==
  FoldLeft(LAMBDA m, step : Take(m, events, step, q.span),
           [next |-> 1, first |-> Null, done |-> << >>, stopped |-> FALSE], q.steps)

\* The first completing event a field says something about gives its value.
GroupValue(done, f) ==
  LET at == SelectInSeq(done, LAMBDA e : Applicable(e, f))
  IN  IF at = 0 THEN Null ELSE Value(done[at], f)

SequenceRow(m, q) ==
  [customer |-> m.first.customer, completed |-> Len(m.done), total |-> Len(q.steps),
   dropoff |-> IF q.mode = "funnel" /\ Len(m.done) < Len(q.steps) THEN Len(m.done) ELSE Null,
   values |-> [i \in DOMAIN q.group_by |-> GroupValue(m.done, q.group_by[i])],
   first |-> m.first.at, last |-> Last(m.done).at, anchor |-> Last(m.done)]

\* _ordered_sequence_match: a funnel reports a prefix, a sequence all of its steps.
SequenceMatches(events, q) ==
  LET m == Matched(events, q)
  IN  IF m.done = << >> \/ (q.mode = "sequence" /\ Len(m.done) < Len(q.steps)) THEN {}
      ELSE {SequenceRow(m, q)}

\* consume of _compute_sequence.
Stored(e, q) == (q.cohort = Null \/ e.customer \in q.cohort) /\ Candidate(e, q)

\* _compute_sequence: customer by customer; a prefix proves neither a count nor a dropoff.
Sequences(events, q, partial) ==
  LET stored == Those(events, LAMBDA e : Stored(e, q))
      work(c) == LET own == Those(stored, LAMBDA e : e.customer = c)
                 IN  [i \in DOMAIN own |-> Kept(own[i], q)]
      rows(c) == IF q.mode = "repetition" THEN RepetitionMatches(work(c), q)
                 ELSE SequenceMatches(work(c), q)
  IN  IF partial /\ q.mode # "sequence" THEN {}
      ELSE UNION {rows(c) : c \in {e.customer : e \in ToSet(stored)}}

-----------------------------------------------------------------------------
(* read_event_evidence.                                                    *)

CountBucket(n) == IF n <= 2 THEN 0 ELSE IF n <= 5 THEN 1 ELSE 2

SpanBucket(minutes) ==
  IF minutes <= 0 THEN 0 ELSE IF minutes <= 60 THEN 1 ELSE IF minutes <= 1440 THEN 2 ELSE 3

\* _evidence_stratum, for a customer's first row in the parent result.
Stratum(mode, row) ==
  CASE mode = "funnel" -> <<row.completed, row.dropoff = Null>>
    [] mode = "repetition" -> <<CountBucket(row.count), SpanBucket(row.last - row.first)>>
    [] mode = "sequence" -> <<row.completed, SpanBucket(row.last - row.first)>>
    [] OTHER -> <<row.anchor.source>>

\* _spread_values: values at even distances, the first and the last among them.
Spread(values, limit) ==
  LET n == Len(values)
  IN  CASE n <= limit -> values
        [] n > limit /\ limit = 1 -> <<values[(n \div 2) + 1]>>
        [] OTHER -> [i \in 1..limit |->
                      values[(((i - 1) * (n - 1) + (limit - 1) \div 2) \div (limit - 1)) + 1]]

\* The rest comes from the first customers by anchor.
Filled(chosen, customers, limit) ==
  FoldLeft(LAMBDA out, r : IF Len(out) >= limit \/ r \in ToSet(out) THEN out ELSE Append(out, r),
           chosen, SubSeq(customers, 1, IF Len(customers) < limit THEN Len(customers) ELSE limit))

\* select_authorized_customers without customer_refs; customers are first rows, by anchor.
Representatives(mode, customers, limit) ==
  LET strata == SetToSeq({Stratum(mode, r) : r \in ToSet(customers)})
      firstOf(x) == customers[SelectInSeq(customers, LAMBDA r : Stratum(mode, r) = x)]
      picked == Spread(strata, limit)
  IN  Filled([i \in DOMAIN picked |-> firstOf(picked[i])], customers, limit)

\* consume of _compute_evidence, for the events of one selected customer.
Capture(w, e, anchor, q) ==
  CASE Precedes(e, anchor) ->
         LET b == Append(w.before, e)
         IN  [w EXCEPT !.before = SubSeq(b, (IF Len(b) > q.before THEN Len(b) - q.before ELSE 0) + 1,
                                         Len(b))]
    [] Key(e) = Key(anchor) -> [w EXCEPT !.rows = w.before \o <<e>>, !.found = TRUE]
    [] Precedes(anchor, e) /\ w.found /\ w.left > 0 -> [w EXCEPT !.rows = Append(@, e), !.left = @ - 1]
    [] OTHER -> w

\* Events around the anchor; an anchor that a whole scan does not meet is an error.
Window(events, anchor, q) ==
  FoldLeft(LAMBDA w, e : IF e.customer = anchor.customer THEN Capture(w, e, anchor, q) ELSE w,
           [before |-> << >>, rows |-> << >>, left |-> q.after, found |-> FALSE], events)
=============================================================================
