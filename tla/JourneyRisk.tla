---------------------------- MODULE JourneyRisk ----------------------------
(***************************************************************************)
(* The fixed risk analysis (analytics/service.py) over a bounded           *)
(* repository: what a customer's failed search led to, who is at risk, and *)
(* the catalog, aggregates, journeys and evidence it answers with.  Hours  *)
(* are the unit of time.  A store is [events |-> in the order of time,     *)
(* customers |-> the ones it knows].                                       *)
(***************************************************************************)
EXTENDS CustomerEvents, FiniteSets

CONSTANTS
  None,         \* nothing
  ReadLimit,    \* rows of a source an analysis reads at most
  AllSources    \* the sources, <<...>>, in the order of the catalog

\* policies.py
RepeatWindow == 24
VocWindow == 72
SignalScore == [failed |-> 25, repeated |-> 25, feedback |-> 20, voc |-> 30]
Level(score) == IF score >= 75 THEN "high" ELSE IF score >= 40 THEN "medium" ELSE "low"

-----------------------------------------------------------------------------
\* One failed search and what followed it on its topic.
Refused == [ok |-> FALSE]

Through(list, F(_)) == [i \in DOMAIN list |-> F(list[i])]

Follows(events, f, type, outcome, hours) ==
  SelectSeq(events, LAMBDA e : /\ e.type = type /\ e.outcome = outcome /\ e.topic = f.topic
                               /\ f.at < e.at /\ e.at - f.at <= hours)

ScoreSequence(events, f) ==
  LET repeats == SelectSeq(Follows(events, f, Search, Failed, RepeatWindow), LAMBDA e : e.action = RepeatSearch)
      vocs == Follows(events, f, Voc, Unresolved, VocWindow)
      after(r) == SelectSeq(vocs, LAMBDA v : v.at > r.at)
      led == SelectSeq(repeats, LAMBDA r : after(r) # << >>)
      repeat == IF led # << >> THEN <<led[1]>> ELSE Upto(repeats, 1)
      voc == IF led # << >> THEN <<after(led[1])[1]>> ELSE << >>
      feedback == SelectSeq(events, LAMBDA e : /\ e.type = Feedback /\ e.outcome = Negative /\ e.topic = f.topic
                                               /\ f.at < e.at /\ (voc = << >> \/ e.at <= voc[1].at))
      signal(code, list) == Through(list, LAMBDA e : [code |-> code, score |-> SignalScore[code], evidence |-> e.evidence])
      scored(signals, score) ==
        [customer |-> f.customer, score |-> score, level |-> Level(score), signals |-> signals,
         last |-> Largest({events[i].at : i \in DOMAIN events}),
         matched |-> voc # << >>, at |-> f.at, topic |-> f.topic]
      sequence(signals) == scored(signals, FoldLeft(LAMBDA sum, s : sum + s.score, 0, signals))
  IN  sequence(signal("failed", <<f>>) \o signal("repeated", repeat)
                 \o signal("feedback", Upto(feedback, 1)) \o signal("voc", voc))

\* The sequences of a customer, the riskiest, earliest first.
SequencesOf(own) ==
  LET failed == SelectSeq(own, LAMBDA e : e.type = Search /\ e.outcome = Failed /\ e.action # RepeatSearch)
      before(a, b) == \/ a.score > b.score
                      \/ a.score = b.score /\ (a.at < b.at \/ (a.at = b.at /\ a.topic < b.topic))
      place(list, s) == LET i == Cardinality({j \in DOMAIN list : ~before(s, list[j])})
                        IN  SubSeq(list, 1, i) \o <<s>> \o SubSeq(list, i + 1, Len(list))
  IN  FoldLeft(place, << >>, Through(failed, LAMBDA f : ScoreSequence(own, f)))

\* The best sequence of each customer, of all and of those that match the pattern.
SelectSequences(events) ==
  LET firsts(lists) == {list[1] : list \in lists \ {<< >>}}
      matching(list) == SelectSeq(list, LAMBDA s : s.matched)
      best(lists) == [candidates |-> firsts(lists), matches |-> firsts({matching(list) : list \in lists})]
  IN  best({SequencesOf(OfCustomer(events, c)) : c \in CustomersOf(events)})

ByRisk(S) == SetToSortSeq(S, LAMBDA a, b : a.score > b.score \/ (a.score = b.score /\ a.customer < b.customer))

-----------------------------------------------------------------------------
\* The repository: one connection a call, a catalog of counts and bounded lists of events.
CountOf(store, s) == Len(SelectSeq(store.events, LAMBDA e : e.source = s))

ListEvents(store, sources, customer, limit) ==
  Upto(SelectSeq(store.events, LAMBDA e : e.source \in sources /\ customer \in {None, e.customer}), limit)

\* Whatever is counted first and listed after it: the store may be another one by then.
LoadEvents(counted, store, sources, customer) ==
  IF \/ \E s \in sources : CountOf(counted, s) > ReadLimit
     \/ customer \notin store.customers \cup {None}
  THEN Refused
  ELSE [ok |-> TRUE, events |-> InOrder(UNION {ToSet(ListEvents(store, {s}, customer, ReadLimit)) : s \in sources})]

CatalogSources(store) ==
  [ok |-> TRUE,
   sources |-> Through(SelectSeq(AllSources, LAMBDA s : CountOf(store, s) > 0), LAMBDA s : [source |-> s, rows |-> CountOf(store, s)]),
   missing |-> SelectSeq(AllSources, LAMBDA s : CountOf(store, s) = 0)]

\* What each operation answers with for the events it loaded.
AggregateBy(events, dimension, limit) ==
  LET key(e) == IF dimension = "source" THEN e.source ELSE IF dimension = "topic" THEN e.topic ELSE e.outcome
      of(k) == SelectSeq(events, LAMBDA e : key(e) = k)
      keys == Upto(Ascending({key(events[i]) : i \in DOMAIN events}), limit)
  IN  [ok |-> TRUE, scanned |-> Len(events),
       buckets |-> Through(keys, LAMBDA k : [value |-> k, events |-> Len(of(k)), customers |-> Cardinality(CustomersOf(of(k))),
                                             evidence |-> Through(of(k), LAMBDA e : e.evidence)])]

MatchJourneyPattern(events, sources, limit) ==
  LET answer(chosen) ==
      [ok |-> TRUE, candidates |-> Cardinality(chosen.candidates), customers |-> Upto(ByRisk(chosen.matches), limit),
       missing |-> {s \in {AllSources[1], Last(AllSources)} :
                      s \notin sources \/ \A i \in DOMAIN events : events[i].source # s}]
  IN  answer(SelectSequences(events))

RankAtRisk(events, limit) ==
  LET answer(chosen) ==
        [ok |-> TRUE, candidates |-> Cardinality(chosen.candidates), customers |-> Upto(ByRisk(chosen.candidates), limit)]
  IN  answer(SelectSequences(events))

JourneyOf(events, limit) == [ok |-> TRUE, events |-> Upto(events, limit), scanned |-> Len(events)]

\* Evidence in the order it was asked for; one that is not there refuses them all.
EvidenceOf(store, ids) ==
  LET record(id) == CHOOSE e \in ToSet(store.events) : e.evidence = id
  IN  IF ToSet(ids) \subseteq {e.evidence : e \in ToSet(store.events)}
      THEN [ok |-> TRUE, records |-> Through(ids, record)] ELSE Refused

Answer(counted, store, ask) ==
  LET loaded == LoadEvents(counted, store, ask.sources, IF ask.operation = "journey" THEN ask.customer ELSE None)
  IN  CASE ask.operation = "catalog" -> CatalogSources(store)
        [] ask.operation = "evidence" -> EvidenceOf(store, ask.ids)
        [] ~loaded.ok -> Refused
        [] ask.operation = "aggregate" -> AggregateBy(loaded.events, ask.dimension, ask.limit)
        [] ask.operation = "match" -> MatchJourneyPattern(loaded.events, ask.sources, ask.limit)
        [] ask.operation = "rank" -> RankAtRisk(loaded.events, ask.limit)
        [] ask.operation = "journey" -> JourneyOf(loaded.events, ask.limit)
=============================================================================
