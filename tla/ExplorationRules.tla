-------------------------- MODULE ExplorationRules --------------------------
(***************************************************************************)
(* The rules of ExplorationQueries and SourcePages against what they mean: *)
(* every behaviour draws one case, a timeline of events with a query or a  *)
(* set of pages, and stops.                                                *)
(***************************************************************************)
EXTENDS ExplorationQueries, TLC

CONSTANTS
  Timelines,      \* sequences of events in the global order
  Queries,        \* repetition, sequence, funnel and summary queries
  Predicates,
  Chains,         \* sequences of event pages of source 1
  Edges           \* identity edges

Pages == INSTANCE SourcePages

\* A timeline is a sequence of events in the global order; times, sources, events and
\* actions are numbered in their order.
ASSUME TimelinesAssumption ==
  \A events \in Timelines :
    /\ events \in Seq(ToSet(events))
    /\ \A e \in ToSet(events) :
         /\ {e.at, e.source, e.id, e.action} \subseteq Nat
         /\ e = [id |-> e.id, source |-> e.source, customer |-> e.customer, action |-> e.action, at |-> e.at,
                 values |-> e.values]
    /\ \A i, j \in DOMAIN events : i < j => Precedes(events[i], events[j])

\* A query names fields its sources describe, counts from one on, and a sequence has steps.
ASSUME QueriesAssumption ==
  \A q \in Queries :
    /\ q.mode \in {"repetition", "sequence", "funnel", "summary"}
    /\ q.group_by \in Seq(ToSet(q.group_by)) /\ \A f \in ToSet(q.group_by) : Described(f)
    /\ q.mode = "repetition" =>
         /\ q.fields \in Seq(ToSet(q.fields)) /\ \A f \in ToSet(q.fields) : Described(f)
         /\ q.min \in Nat \ {0} /\ q.gap \in Nat
    /\ q.mode \in {"sequence", "funnel"} =>
         /\ q.steps \in Seq(ToSet(q.steps)) /\ q.steps # << >> /\ q.span \in Nat
         /\ \A step \in ToSet(q.steps) : step.min \in Nat \ {0} /\ \A p \in step.predicates : Described(p.field)

\* What a summary measures are numbers.
ASSUME MeasuresAssumption ==
  \A q \in Queries, events \in Timelines :
    q.mode = "summary" => \A e \in ToSet(events) : Value(e, q.measure) \in Int \cup {Null}

ASSUME PredicatesAssumption ==
  \A p \in Predicates :
    /\ p = [field |-> p.field, op |-> p.op, values |-> p.values, type |-> p.type]
    /\ p.field = [scope |-> p.field.scope, source |-> p.field.source, name |-> p.field.name]

\* A chain is a sequence of pages, a page a sequence of events by their keys.
ASSUME ChainsAssumption ==
  /\ Null \notin Nat
  /\ \A chain \in Chains :
       /\ chain \in Seq(ToSet(chain))
       /\ \A page \in ToSet(chain) :
            page.items \in Seq(ToSet(page.items)) /\ \A e \in ToSet(page.items) : e.key \in Nat

\* The key of an edge stands for its ends and its link.
ASSUME EdgesAssumption ==
  /\ IsFiniteSet(Edges)
  /\ \A e \in Edges : e = [key |-> e.key, left |-> e.left, right |-> e.right, link |-> e.link, confidence |-> e.confidence]
  /\ \A a, b \in Edges : a.key = b.key => a.left = b.left /\ a.right = b.right /\ a.link = b.link

VARIABLE input
vars == <<input>>

\* What is drawn is chosen first, then the case.
Chosen(kind) == input = [kind |-> kind, case |-> Null]
Drawn(case) == input' = [input EXCEPT !.case = case]

DrawQuery == Chosen("query") /\ \E events \in Timelines, q \in Queries : Drawn(<<events, q>>)
DrawPages == Chosen("pages") /\ \E chain \in Chains : Drawn(chain)
DrawEdges == Chosen("edges") /\ \E a, b \in SUBSET Edges : Drawn(<<a, b>>)
DrawSpread == Chosen("spread") /\ \E n \in 0..7, m \in 1..3, limit \in 1..3 : Drawn(<<n, m, limit>>)

Init == \E kind \in {"query", "pages", "edges", "spread"} : Chosen(kind)

On(kind, Holds(_)) == input.kind = kind /\ input.case # Null => Holds(input.case)

-----------------------------------------------------------------------------
Least(S, n) == {x \in S : Cardinality({y \in S : y < x}) < n}

\* A bounded vocabulary is the smallest values of all, not of a first few.
VocabularySound(events) ==
  LET seen == [i \in DOMAIN events |-> events[i].action]
  IN  \A n \in 1..2 : Vocabulary(seen, n) = [values |-> Least(ToSet(seen), n),
                                             truncated |-> Cardinality(ToSet(seen)) > n]

\* A predicate on a source's own field never selects an event of another source,
\* and of its own source every event either has the field or misses it.
PredicatesSound(events) ==
  \A e \in ToSet(events), p \in Predicates :
    /\ Selects(e, p) => p.field.scope = "canonical" \/ e.source = p.field.source
    /\ Selects(e, [p EXCEPT !.op = "exists"]) # Selects(e, [p EXCEPT !.op = "missing"])
         <=> Applicable(e, p.field)
    /\ p.op \in {"in", "not_in"} => ~(Selects(e, p) /\ Selects(e, [p EXCEPT !.op =
                                                       IF p.op = "in" THEN "not_in" ELSE "in"]))

\* The catalog's two views of a field agree: the values add up to the events that may
\* have the field, as many of them without one as the list of fields says, and every
\* customer among them can be looked up; a query may filter by it only when it is public.
CatalogSound(events) ==
  \A p \in {x \in Predicates : x.field.scope # "canonical"} :
    LET v == Valued(events, [field |-> p.field, predicates |-> {}])
        f == FieldRow(events, p.field, FALSE)
        own == {e \in ToSet(events) : Applicable(e, p.field)}
    IN  /\ MapThenSumSet(LAMBDA r : r.count, v.rows) = SourceRow(events, p.field.source).count
        /\ \A r \in v.rows : r.missing = f.missing /\ r.total = f.total
        /\ f.missing # Null => f.missing = Cardinality({e \in own : Value(e, p.field) = Null})
        /\ DOMAIN v.anchors = {e.customer : e \in own}
        /\ PredicateAllowed(p, {1, 2}) => p.field \in PublicFields({1, 2})

\* The groups of a summary partition the events that count, a ratio's numerator is
\* part of its denominator, a cohort has its customers, who can all be looked up.
SummarySound(events, q) ==
  LET counted == Those(events, LAMBDA e : Counts(e, q))
      groups == Groups(events, q)
      out == Summarized(events, q, FALSE)
      inGroup(g) == {e \in ToSet(counted) : <<Bucket(e.at, q.width, 0), Lookups(e, q.group_by)>> = g.key}
  IN  /\ \A i, j \in DOMAIN groups : groups[i].key = groups[j].key => i = j
      /\ \A e \in ToSet(counted) : \E i \in DOMAIN groups : e \in inGroup(groups[i])
      /\ \A i \in DOMAIN groups :
           LET st == groups[i].stats
               den == {e \in inGroup(groups[i]) : Matches(e, q.denominator)}
           IN  /\ st.events = Cardinality(inGroup(groups[i]))
               /\ st.customers = {e.customer : e \in inGroup(groups[i])}
               /\ st.denominator = Cardinality(den)
               /\ st.numerator = Cardinality({e \in den : Matches(e, q.numerator)})
               /\ st.with \subseteq st.among /\ st.among \subseteq st.customers
      /\ DOMAIN out.anchors = UNION {r.cohort : r \in out.rows}
      /\ \A r \in Summarized(events, q, TRUE).rows : r.by_event = Null /\ r.by_customer = Null

\* Of one customer and key: the runs without a gap, as long as they can be.
Run(own, i, j, gap) ==
  /\ \A k \in i..(j - 1) : own[k + 1].at - own[k].at <= gap
  /\ i = 1 \/ own[i].at - own[IF i = 1 THEN 1 ELSE i - 1].at > gap
  /\ j = Len(own) \/ own[IF j = Len(own) THEN j ELSE j + 1].at - own[j].at > gap

\* A repetition reports the maximal runs of equal keys that are long enough, with
\* the event that completes them, whatever was stored of the events.
RepetitionSound(events, q) ==
  LET ofKey(e, k) == Stored(e, q) /\ Lookups(e, q.fields) = k
      rows == Sequences(events, q, FALSE)
      row(own, k, i, j) ==
        [customer |-> own[i].customer, values |-> k, extra |-> Extra(own[i + q.min - 1], q),
         count |-> j - i + 1, first |-> own[i].at, last |-> own[j].at, anchor |-> Kept(own[i + q.min - 1], q)]
      found(own, k) == {row(own, k, x[1], x[2]) : x \in {y \in (DOMAIN own) \X (DOMAIN own) :
                                                          y[2] - y[1] + 1 >= q.min /\ Run(own, y[1], y[2], q.gap)}}
  IN  /\ rows = UNION {found(Those(events, LAMBDA e : e.customer = x.customer /\ ofKey(e, Lookups(x, q.fields))),
                             Lookups(x, q.fields)) : x \in {e \in ToSet(events) : Stored(e, q)}}
      /\ Sequences(events, q, TRUE) = {}

\* Completing positions of the first k steps: strictly later, with enough occurrences between.
Completes(own, q, k, c) ==
  \A n \in 1..k :
    LET low == IF n = 1 THEN 0 ELSE c[n - 1]
        hits == {i \in (low + 1)..c[n] : MatchesStep(own[i], q.steps[n])
                                            /\ (low = 0 \/ own[i].at > own[low].at)}
    IN  c[n] > low /\ c[n] \in hits /\ Cardinality(hits) >= q.steps[n].min

CanComplete(own, q, k) == \E c \in [1..k -> DOMAIN own] : Completes(own, q, k, c)

\* A sequence or a funnel reports steps that really happened in their order and
\* within the span, whatever was stored; without a binding span it misses none.
SequenceSound(events, q) ==
  LET own(c) == Those(events, LAMBDA e : e.customer = c /\ Stored(e, q))
      rows == Sequences(events, q, FALSE)
  IN  /\ \A r \in rows :
           /\ CanComplete(own(r.customer), q, r.completed)
           /\ r.last - r.first <= q.span /\ r.last = r.anchor.at
           /\ r.dropoff = Null <=> (q.mode = "sequence" \/ r.completed = r.total)
           /\ \E e \in ToSet(own(r.customer)) : e.at = r.first /\ MatchesStep(e, q.steps[1])
      /\ \A c \in {e.customer : e \in ToSet(events)}, k \in 1..Len(q.steps) :
           q.span >= Last(events).at /\ CanComplete(own(c), q, k) /\ (q.mode = "funnel" \/ k = Len(q.steps))
             => \E r \in rows : r.customer = c /\ r.completed >= k
      /\ q.mode = "funnel" => Sequences(events, q, TRUE) = {}

\* Evidence is what is around the anchor: so many of the customer's events before
\* and after it, whatever else the scan delivers.
WindowSound(events) ==
  \A i \in DOMAIN events, b \in 0..2, a \in 0..2 :
    LET own == Those(events, LAMBDA e : e.customer = events[i].customer)
        at == SelectInSeq(own, LAMBDA e : Key(e) = Key(events[i]))
        w == Window(events, events[i], [before |-> b, after |-> a])
    IN  /\ w.found
        /\ w.rows = SubSeq(own, IF at > b THEN at - b ELSE 1, IF at + a > Len(own) THEN Len(own) ELSE at + a)

QuerySound(case) ==
  LET q == case[2]
  IN  CASE q.mode = "repetition" -> RepetitionSound(case[1], q)
        [] q.mode \in {"sequence", "funnel"} -> SequenceSound(case[1], q)
        [] q.mode = "summary" -> /\ SummarySound(case[1], q) /\ VocabularySound(case[1]) /\ CatalogSound(case[1])
                                 /\ PredicatesSound(case[1]) /\ WindowSound(case[1])

\* The results of a query are what its documentation promises of all timelines, for
\* every prefix of decisions the Tools take while the events pass once.
ResultsAsDefined == On("query", QuerySound)

-----------------------------------------------------------------------------
\* n customers in m strata: as many as asked for, none twice, as many strata as possible.
SpreadSound(case) ==
  LET n == case[1]
      m == case[2]
      limit == case[3]
      customers == [i \in 1..n |-> [customer |-> i, anchor |-> [source |-> i % m]]]
      out == Representatives("summary", customers, limit)
      strata(rows) == {Stratum("summary", r) : r \in rows}
      fewer(x, y) == IF x < y THEN x ELSE y
  IN  /\ IsInjective(out) /\ ToSet(out) \subseteq ToSet(customers)
      /\ Len(out) = fewer(n, limit)
      /\ Cardinality(strata(ToSet(out))) = fewer(Cardinality(strata(ToSet(customers))), limit)

\* What a chain of pages is worth: nothing is accepted that is out of order, twice
\* there, outside the scope, or of another customer than its identities say.
Scope == [from |-> 0, until |-> 9]
Known == ("a" :> 1) @@ ("b" :> 1) @@ ("c" :> 2)

Accepted(chain) ==
  FoldLeft(LAMBDA s, page :
             IF s.ok /\ Pages!PageAccepted(page, s.session.last[1], 1, Scope, 2, s.session, Known)
             THEN [ok |-> TRUE, session |-> Pages!AfterPage(page, 1, s.session), n |-> s.n + 1]
             ELSE [s EXCEPT !.ok = FALSE],
           [ok |-> TRUE, session |-> Pages!NewSession({1}), n |-> 0], chain)

ChainSound(chain) ==
  LET got == FlattenSeq([i \in 1..Accepted(chain).n |-> chain[i].items])
  IN  \A i, j \in DOMAIN got :
        /\ i < j => got[i].key < got[j].key /\ got[i].id # got[j].id
        /\ \A x \in got[i].identities : Known[x] = got[i].customer

\* Two sources' edges: the order of the sources does not matter, and what is
\* accepted gives every node one customer and each pair of ends one meaning.
EdgesSound(case) ==
  LET m(x, y) == Pages!Merge(Pages!Merge([edges |-> {}, bad |-> FALSE], x), y)
      out == m(case[1], case[2])
      good(x) == ~x.bad /\ Pages!Resolvable(x.edges)
  IN  /\ good(out) <=> good(m(case[2], case[1]))
      /\ good(out) =>
           /\ out.edges = case[1] \cup case[2]
           /\ \A e \in out.edges : Pages!Resolution(out.edges)[e.left] = Pages!Resolution(out.edges)[e.right]
           /\ \A n \in Pages!Nodes(out.edges) : n[1] = "canonical" => Pages!Resolution(out.edges)[n] = n[2]

\* What the Tools let in from a source, and what of it they show to a reader.
PagesAsDefined == On("pages", ChainSound) /\ On("edges", EdgesSound) /\ On("spread", SpreadSound)
=============================================================================
