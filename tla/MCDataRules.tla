----------------------------- MODULE MCDataRules -----------------------------
(* Timelines of up to three events of two sources or of two customers, and *)
(* of four events of one customer of one source; tables of up to four rows *)
(* and a database of four events; two seeders, one of them an API that     *)
(* starts.                                                                 *)
EXTENDS DataRules

Kind == [scope |-> "dimension", source |-> 1, name |-> "kind"]
Size == [scope |-> "measure", source |-> 2, name |-> "size"]
Action == [scope |-> "canonical", source |-> Null, name |-> "action"]

MCCatalog == <<(<<"dimension", "kind">> :> [type |-> "string", pii |-> FALSE]),
               (<<"measure", "size">> :> [type |-> "integer", pii |-> FALSE])>>

Choice == [gap : {0, 2}, source : {1, 2}, action : {1, 2}, customer : {1, 2}]

EventOf(choices, i) ==
  LET x == choices[i]
  IN  [id |-> i, source |-> x.source, customer |-> x.customer, action |-> x.action,
       at |-> FoldLeft(LAMBDA n, y : n + y.gap, 0, SubSeq(choices, 1, i)),
       values |-> IF x.source = 1 THEN (<<"dimension", "kind">> :> IF x.gap = 0 THEN Null ELSE x.action)
                  ELSE (<<"measure", "size">> :> x.action)]

Of(sources, customers, n) ==
  {[i \in 1..n |-> EventOf(c, i)] : c \in [1..n -> {x \in Choice : x.source \in sources /\ x.customer \in customers}]}

MCTimelines ==
  {t \in UNION {Of({1, 2}, {1}, n) : n \in 0..3} \cup Of({1}, {1, 2}, 3) \cup Of({1}, {1}, 4) :
     \A i \in 1..(Len(t) - 1) : Precedes(t[i], t[i + 1])}

Test(f, op, values) == [field |-> f, op |-> op, values |-> values, type |-> "integer"]
MCPredicates == {Test(Kind, "missing", {}), Test(Kind, "in", {1}), Test(Size, "not_in", {1}), Test(Action, "gt", {1})}

AStep(sources, predicates, min) == [sources |-> sources, predicates |-> predicates, min |-> min]
FirstThenSecond == <<AStep({1, 2}, {Test(Action, "in", {1})}, 1), AStep({1, 2}, {Test(Action, "in", {2})}, 1)>>
TwiceThenKind == <<AStep({1, 2}, {Test(Action, "in", {1})}, 2), AStep({1}, {Test(Kind, "in", {1, 2})}, 1)>>

MCQueries ==
  {[mode |-> "repetition", predicates |-> p, fields |-> <<Action>>, group_by |-> <<Kind>>, min |-> 2, gap |-> g,
    cohort |-> c] : p \in {{}, {Test(Kind, "exists", {})}}, g \in {0, 2}, c \in {Null, {2}}}
  \cup {[mode |-> m, steps |-> s, group_by |-> <<Action>>, span |-> n, cohort |-> c] :
         m \in {"sequence", "funnel"}, s \in {FirstThenSecond, TwiceThenKind}, n \in {2, 9}, c \in {Null, {2}}}
  \cup {[mode |-> "summary", predicates |-> {}, group_by |-> g, width |-> 4, measure |-> Size, cohort |-> Null,
         denominator |-> {Test(Action, "in", {1})}, numerator |-> {Test(Kind, "exists", {})}] :
         g \in {<< >>, <<Kind>>, <<Action>>}}

\* Pages of up to two of these events, the second one a duplicate with another key.
PageEvent(key, id, customer, identities) ==
  [key |-> key, id |-> id, source |-> 1, at |-> key, customer |-> customer, identities |-> identities]
PageEvents == {PageEvent(1, 1, 1, {"a"}), PageEvent(2, 1, 1, {"a", "b"}), PageEvent(3, 3, 2, {"c"}),
               PageEvent(4, 4, 1, {"b", "c"})}
PagesOf(items) ==
  {[items |-> items, more |-> m, next |-> n] : m \in BOOLEAN, n \in {Null, 1, 3}}
MCChains ==
  UNION {[1..n -> UNION {PagesOf(items) : items \in UNION {[1..k -> PageEvents] : k \in 0..2}}] : n \in 1..1}
  \cup {<<p, r>> : p, r \in {[items |-> <<e>>, more |-> TRUE, next |-> e.key] : e \in PageEvents}}

Node(n) == IF n <= 2 THEN <<"canonical", n>> ELSE <<"account", n>>
AnEdge(key, l, r, link, confidence) ==
  [key |-> key, left |-> Node(l), right |-> Node(r), link |-> link, confidence |-> confidence]
MCEdges == {AnEdge(1, 1, 3, "a", 1), AnEdge(2, 3, 4, "a", 1), AnEdge(3, 2, 4, "a", 1), AnEdge(4, 1, 3, "b", 1),
            AnEdge(1, 1, 3, "a", 2), AnEdge(5, 2, 5, "a", 1)}

-----------------------------------------------------------------------------
MCKeyOrder == <<"abandoned_customer_count", "customer_count", "event_count", "event_count_delta",
                "evidence_record_count", "journey_event_count", "matched_customer_count", "ranked_customer_count",
                "repeated_customer_count", "segment_customer_count", "size_total", "source_count",
                "started_customer_count">>

RKind == <<Null, "kind">>
RSize == <<Null, "size">>
RTopic == <<Null, "topic">>
MCRefOrder == <<RKind, RSize, <<1, "kind">>, <<2, "topic">>, RTopic>>

Everything == {"catalog_sources", "profile_events", "aggregate_events", "segment_customers", "detect_repetition",
               "match_sequence", "compare_segments", "rank_customers", "get_customer_journey", "get_evidence"}
MCManifests == <<[dimensions |-> {"kind"}, units |-> [x \in {} |-> x], capabilities |-> Everything, version |-> 1],
                 [dimensions |-> {}, units |-> [size |-> "won"], capabilities |-> Everything \ {"catalog_sources"}, version |-> 1]>>
MCStarts == [day |-> {-1000, 0, 24, 48, 72, 96, 120, 144, 168, 192, 216, 240}, week |-> {-1000, 60, 228, 1000}]

ShapeOf(source, type, action, topic, outcome, values) ==
  [source |-> source, type |-> type, action |-> action, topic |-> topic, outcome |-> outcome, values |-> values]
Shapes ==
  {ShapeOf(1, Search, Search, 21, Failed, [kind |-> 1]), ShapeOf(1, Search, RepeatSearch, 21, Failed, [kind |-> Null]),
   ShapeOf(2, Voc, Contact, 21, Unresolved, [size |-> 5]), ShapeOf(2, Other, Started, Signup, Other, [size |-> -3]),
   ShapeOf(1, Other, Completed, Signup, Other, << >>)}

ListOf(choices) ==
  [i \in DOMAIN choices |->
     choices[i].shape @@ [id |-> i, evidence |-> 10 - i, customer |-> choices[i].customer, identities |-> {},
                          at |-> FoldLeft(LAMBDA n, x : n + x.gap, 0, Upto(choices, i))]]

Occurring(customers, gaps, n) == {ListOf(c) : c \in [1..n -> [shape : Shapes, customer : customers, gap : gaps]]}
MCEventLists == UNION {Occurring({1, 2}, {0, 30}, n) : n \in 0..2} \cup Occurring({1}, {40}, 3)

StepOf(primitive, parameters, expected, rows, evidence) ==
  [id |-> primitive, primitive |-> primitive, sources |-> <<2, 1>>, parameters |-> parameters, expected |-> expected,
   rows |-> rows, evidence |-> evidence]

Tested(ref, op, values) == [ref |-> ref, op |-> op, values |-> values]
Name(n) == [form |-> "alias", name |-> n]

Profile(g, rows) == StepOf("profile_events", [group_by |-> g, predicates |-> {}], <<"event_count">>, rows, 2)
Aggregate(a, m, key, g, preds, grain, rows) ==
  StepOf("aggregate_events", [aggregation |-> a, measure |-> m, group_by |-> g, predicates |-> preds, grain |-> grain],
         <<key>>, rows, 2)
Segment(preds, minimum) ==
  StepOf("segment_customers", [predicates |-> preds, minimum |-> minimum], <<"segment_customer_count">>, 1, 2)
Repetition(topic, within, evidence) ==
  StepOf("detect_repetition", [topic |-> topic, minimum |-> 2, within |-> within], <<"repeated_customer_count">>, 2, evidence)
Sequence(tokens, expected, evidence) == StepOf("match_sequence", [sequence |-> tokens], expected, 2, evidence)
Ranked(limit) ==
  StepOf("rank_customers", [weights |-> [matched_customer_count |-> 60, repeated_customer_count |-> 50, size_total |-> -1],
                            limit |-> limit], <<"ranked_customer_count">>, 2, 0)
Journey(limit) == StepOf("get_customer_journey", [limit |-> limit], <<"journey_event_count">>, 2, 2)
Records(limit) == StepOf("get_evidence", [limit |-> limit], <<"evidence_record_count">>, 2, 2)
Compared == StepOf("compare_segments", [key |-> "event_count"], <<"event_count_delta">>, 1, 0)

Failures == <<Name("search_failed"), Name("search_repeated")>>
Calls == <<Name("search_failed"), [form |-> "pair", type |-> Voc, word |-> Unresolved]>>
Words == <<[form |-> "word", word |-> 21], [form |-> "predicate", predicate |-> Tested(RSize, "lt", {6})]>>

MCStepChains ==
  {<<StepOf("catalog_sources", [all |-> TRUE], <<"source_count">>, n, 0)>> : n \in {1, 2}}
  \cup {<<Profile(g, n)>> : g \in {<< >>, <<RTopic, RKind, RSize>>, <<<<1, "kind">>, <<2, "topic">>>>}, n \in {1, 4}}
  \cup {<<Aggregate("count", Null, "event_count", <<RKind>>, {Tested(RKind, op, {1})}, "day", 5)>> : op \in {"null", "not_in", "ne"}}
  \cup {<<Aggregate(a, RSize, "size_total", <<RTopic>>, {}, "week", n)>> : a \in {"sum", "avg", "min", "max"}, n \in {3, 5}}
  \cup {<<Aggregate("count", Null, "customer_count", <<<<3, "kind">>>>, {Tested(RTopic, "in", {21})}, "day", 5)>>}
  \cup {<<Segment({Tested(RTopic, "in", {21}), Tested(RSize, "ge", {0})}, 1), s>> : s \in {Journey(2), Ranked(1)}}
  \cup {<<Repetition(t, w, e), Sequence(Failures, <<"matched_customer_count">>, 2), Ranked(2)>> :
          t \in {RTopic, RKind}, w \in {30, 70}, e \in {1, 2}}
  \cup {<<Sequence(q, <<"matched_customer_count", "started_customer_count">>, e), Records(1)>> :
          q \in {Calls, Words, <<Name("signup_started"), Name("signup_completed")>>}, e \in {0, 2}}
  \cup {<<Profile(<<RTopic>>, 4), Aggregate("count", Null, "event_count", << >>, {Tested(RSize, "ge", {0})}, "day", 4), Compared>>,
        <<Profile(<<RTopic>>, 4), Records(2)>>,
        <<Segment({}, 1), [Journey(2) EXCEPT !.sources = <<1>>]>>,
        <<[Segment({}, 1) EXCEPT !.sources = <<1>>], Journey(2)>>}

-----------------------------------------------------------------------------
Raw(form, text) == [form |-> form, text |-> text]
RowOf(at, customer, topic, vip, amount) ==
  [at |-> Raw("moment", at), customer |-> Raw("text", customer), topic |-> topic, vip |-> vip, amount |-> amount]

Usual == {RowOf(1, 1, Raw("text", 1), Raw("text", 31), Raw("whole", 5)), RowOf(1, 2, Null, Null, Null),
          RowOf(3, 3, Raw("text", 1), Raw("truth", 30), Raw("text", 41))}
Odd == {RowOf(2, 2, Raw("text", 9), Raw("whole", 31), Raw("integral", 7)), RowOf(1, 1, Raw("text", 2), Null, Null), RowOf(2, 1, Raw("text", 1), Raw("text", 77), Null),
        RowOf(2, 1, Raw("text", 1), Null, Raw("fraction", 8)), [RowOf(2, 1, Null, Null, Null) EXCEPT !.at = Raw("text", 5)]}

Const(n) == [const |-> n, column |-> "none", map |-> Null, default |-> Null]
Column(map, default) == [const |-> Null, column |-> "topic", map |-> map, default |-> default]

SpecOf(source, prefix, namespace, topic, semantic, pii) ==
  [source |-> source, prefix |-> prefix, namespace |-> namespace, rank |-> source, link |-> "EXACT", confidence |-> 1,
   ids |-> <<10 * source + 3, 10 * source + 1, 10 * source + 2, 10 * source>>, rules |-> [type |-> Const(Search), topic |-> topic],
   dimensions |-> [vip |-> [semantic |-> "boolean", pii |-> pii]], measures |-> [amount |-> [semantic |-> semantic]]]

Table(source, prefix, namespace, topic, semantic, pii, rows) ==
  [kind |-> "table", spec |-> SpecOf(source, prefix, namespace, topic, semantic, pii), rows |-> rows]

Lists == UNION {[1..n -> Usual \cup Odd] : n \in 0..2} \cup [1..3 -> Usual] \cup [1..4 -> {RowOf(n, n, Null, Null, Null) : n \in {1, 2}}]

Carried(id, source, at, customer, n) ==
  [id |-> id, evidence |-> <<9, id>>, source |-> source, key |-> 100 * at + id, at |-> at, customer |-> customer,
   type |-> Search, topic |-> 21, dimensions |-> [x \in {} |-> x], measures |-> [x \in {} |-> x],
   identities |-> {<<"mail", customer>>} \cup (IF n = 2 THEN {<<"mail", 10 + customer>>} ELSE {})]
Link(key, l, r) == [key |-> key, left |-> l, right |-> r, link |-> "EXACT", confidence |-> 1]
StoreEdges == UNION {{Link(500 + c, <<"device", c>>, <<"canonical", c>>), Link(510 + c, <<"mail", c>>, <<"device", c>>),
                 Link(520 + c, <<"mail", 10 + c>>, <<"device", c>>)} : c \in 1..3}
Store == [events |-> <<Carried(5, 2, 1, 1, 1), Carried(6, 4, 1, 3, 2), Carried(4, 2, 2, 2, 2), Carried(7, 2, 3, 1, 1)>>, edges |-> StoreEdges]
Managed(source) ==
  [kind |-> "database", store |-> Store,
   manifest |-> [source |-> source, from |-> 0, until |-> 9, types |-> {Search}, topics |-> {21}, namespace |-> "mail", masked |-> {},
                 dimensions |-> [x \in {} |-> x], measures |-> [x \in {} |-> x]]]

Topics == (1 :> 21) @@ (2 :> 22)
First(rows, semantic) == Table(1, <<1>>, "card", Column(Topics, IF semantic = "integer" THEN 23 ELSE Null), semantic, TRUE, rows)
Second == Table(3, <<1, 3>>, "web", Column(Null, 21), "number", FALSE, <<RowOf(2, 1, Null, Raw("whole", 30), Raw("text", 42)),
                                                                       RowOf(1, 2, Raw("text", 1), Null, Null)>>)
MCAdapters == {<<First(rows, s)>> \o rest : rows \in Lists, s \in {"integer", "number"},
                                            rest \in {<< >>, <<Second>>, <<Managed(2)>>}}
              \cup {<<Managed(2), Second, Managed(4)>>}
MCScopes == {[from |-> 0, until |-> 3], [from |-> 1, until |-> 9]}
MCReads == {[size |-> 1, max |-> 1], [size |-> 2, max |-> 2], [size |-> 1, max |-> 3]}

-----------------------------------------------------------------------------
MCAll == <<1, 2, 5>>

Tale(source, type, action, outcome) == [source |-> source, type |-> type, action |-> action, outcome |-> outcome]
Tales == {Tale(1, Search, Search, Failed), Tale(1, Search, RepeatSearch, Failed), Tale(2, Feedback, Other, Negative),
          Tale(5, Voc, Contact, Unresolved)}

Told(choices) ==
  [i \in DOMAIN choices |->
     choices[i].tale @@ [id |-> i, evidence |-> 10 - i, customer |-> choices[i].customer, topic |-> choices[i].topic,
                         at |-> FoldLeft(LAMBDA n, x : n + x.gap, 0, SubSeq(choices, 1, i))]]

Part(tale, c, t, gap) == [tale |-> tale, customer |-> c, topic |-> t, gap |-> gap]
Parts(customers, topics, gaps) == {Part(tale, c, t, g) : tale \in Tales, c \in customers, t \in topics, g \in gaps}
Suffering == <<Part(Tale(1, Search, Search, Failed), 1, 21, 1), Part(Tale(1, Search, RepeatSearch, Failed), 1, 21, 24),
               Part(Tale(5, Voc, Contact, Unresolved), 1, 21, 48)>>

StoreOf(parts) == [events |-> Told(parts), customers |-> {1, 2}]
MCStores ==
  {StoreOf(p) : p \in UNION {[1..n -> Parts({1}, {21}, {0, 24, 60})] : n \in 0..2}
                      \cup [1..3 -> Parts({1}, {21}, {0, 24})] \cup [1..2 -> Parts({1, 2}, {21, 22}, {24})]
                      \cup [1..4 -> Parts({1}, {21}, {10})]}
  \cup {StoreOf(Suffering \o p) : p \in [1..1 -> Parts({1}, {21}, {0, 1})] \cup [1..3 -> Parts({2}, {22}, {1})]}
MCOutdated == {StoreOf(Suffering), StoreOf(<<Suffering[1], Suffering[1], Suffering[1], Suffering[1]>>)}
MCReadings == {<<s, s>> : s \in MCStores} \cup (MCOutdated \X MCOutdated)

AskOf(operation, sources, limit) == [operation |-> operation, sources |-> sources, limit |-> limit, customer |-> 2,
                                     dimension |-> IF limit = 1 THEN "source" ELSE "topic", ids |-> <<9, 8>>]
MCAsks == {AskOf("match", {1, 2, 5}, 2), AskOf("rank", {1, 5}, 2), AskOf("rank", {1, 2, 5}, 1), AskOf("aggregate", {1, 2}, 1),
           AskOf("aggregate", {1, 2, 5}, 2), AskOf("journey", {1, 2, 5}, 2), AskOf("catalog", {1}, 1), AskOf("evidence", {1}, 1)}
=============================================================================
