------------------------------ MODULE RiskRules ------------------------------
(***************************************************************************)
(* What the fixed risk analysis promises of the store it reads.  A case is *)
(*   [counted, store, ask]: the store its counts were read from and the    *)
(* one its events are read from, the same but for a publication in between.*)
(***************************************************************************)
EXTENDS JourneyRisk

CONSTANTS Readings, Asks   \* the store counted and the store listed, and what is asked of them

VARIABLE input

DrawRisk == /\ input = [kind |-> "risk", case |-> None]
            /\ \E reading \in Readings, ask \in Asks :
                 input' = [input EXCEPT !.case = [counted |-> reading[1], store |-> reading[2], ask |-> ask]]

-----------------------------------------------------------------------------
Chosen(store, sources) == {e \in ToSet(store.events) : e.source \in sources}

\* A first failed search, what counts as its repetition, and the complaint that ends the chain.
FirstFailed(e) == e.type = Search /\ e.outcome = Failed /\ e.action # RepeatSearch
Repeats(r, f) == /\ r.type = Search /\ r.action = RepeatSearch /\ r.outcome = Failed
                 /\ r.customer = f.customer /\ r.topic = f.topic /\ f.at < r.at /\ r.at <= f.at + RepeatWindow
Complains(v, f) == /\ v.type = Voc /\ v.outcome = Unresolved
                   /\ v.customer = f.customer /\ v.topic = f.topic /\ f.at < v.at /\ v.at <= f.at + VocWindow

Suffered(E) == {f.customer : f \in {x \in E : FirstFailed(x) /\ \E r, v \in E : Repeats(r, x) /\ Complains(v, x) /\ r.at < v.at}}
Searched(E) == {f.customer : f \in {x \in E : FirstFailed(x)}}

\* The signals of a customer are events of it, on one topic, the failed search first
\* and nothing after the complaint that ends the chain.
SignalsSound(E, s) ==
  LET event(i) == CHOOSE e \in E : e.evidence = s.signals[i].evidence
  IN  /\ \A i \in DOMAIN s.signals : event(i).customer = s.customer /\ event(i).topic = s.topic /\ event(i).at >= s.at
      /\ FirstFailed(event(1)) /\ event(1).at = s.at
      /\ \A i, j \in DOMAIN s.signals :
           s.signals[j].code = "voc" => event(i).at <= event(j).at /\ (s.signals[i].code = "repeated" => event(i).at < event(j).at)
      /\ \A i, j \in DOMAIN s.signals : i < j => s.signals[i].code # s.signals[j].code /\ event(i) # event(j)
      /\ s.score = FoldLeft(LAMBDA n, x : n + SignalScore[x.code], 0, s.signals) /\ s.score \in 25..100
      /\ s.matched <=> "voc" \in {x.code : x \in ToSet(s.signals)}

Ranked(rows, all, limit) ==
  /\ Len(rows) = Lower(limit, Cardinality(all)) /\ {s.customer : s \in ToSet(rows)} \subseteq all
  /\ \A i, j \in DOMAIN rows : i < j => rows[i].score > rows[j].score \/ (rows[i].score = rows[j].score /\ rows[i].customer < rows[j].customer)

\* Who is matched went through the chain and is at high risk; the ranking of everyone
\* shows the very same sequence of those it has, and before all the others.
MatchSound(E, answer, ask) ==
  \A ranked \in {RankAtRisk(InOrder(E), Cardinality(E) + 1).customers} :
      /\ Ranked(answer.customers, Suffered(E), ask.limit)
      /\ \A s \in ToSet(answer.customers) : SignalsSound(E, s) /\ s.level = "high" /\ s \in ToSet(ranked)
      /\ \A i, j \in DOMAIN ranked : ranked[j].customer \in Suffered(E) /\ ranked[i].customer \notin Suffered(E) => j < i

RankSound(E, answer, ask) ==
  /\ answer.candidates = Cardinality(Searched(E)) /\ Ranked(answer.customers, Searched(E), ask.limit)
  /\ \A s \in ToSet(answer.customers) :
       /\ SignalsSound(E, s) /\ \A e \in E : e.customer = s.customer => e.at <= s.last
       /\ \A f \in E : FirstFailed(f) /\ f.customer = s.customer =>
            s.score >= 25 + (IF \E r \in E : Repeats(r, f) THEN 25 ELSE 0)
       /\ s.level = "high" => s.customer \in Suffered(E)

BucketsSound(E, answer, ask) ==
  LET shown == UNION {ToSet(b.evidence) : b \in ToSet(answer.buckets)}
  IN  /\ shown \subseteq {e.evidence : e \in E}
      /\ Len(answer.buckets) < ask.limit =>
           FoldLeft(LAMBDA n, b : n + b.events, 0, answer.buckets) = Cardinality(E) /\ shown = {e.evidence : e \in E}
      /\ \A b \in ToSet(answer.buckets) : 1 <= b.customers /\ b.customers <= b.events

\* An analysis is of all the events there are, or refused; only a store that changed
\* after it was counted is read in part.
RiskSound(case) ==
  LET E == Chosen(case.store, case.ask.sources)
      over(store) == \E s \in case.ask.sources : CountOf(store, s) > ReadLimit
      stranger == case.ask.operation = "journey" /\ case.ask.customer \notin case.store.customers
  IN  \A answer \in {Answer(case.counted, case.store, case.ask)} :
      CASE case.ask.operation = "catalog" ->
             /\ \A r \in ToSet(answer.sources) : r.rows = CountOf(case.store, r.source)
             /\ ToSet(answer.missing) = ToSet(AllSources) \ {e.source : e \in ToSet(case.store.events)}
        [] case.ask.operation = "evidence" ->
             answer.ok => Through(answer.records, LAMBDA e : e.evidence) = case.ask.ids
        [] OTHER ->
             /\ answer.ok <=> ~over(case.counted) /\ ~stranger
             /\ answer.ok /\ ~over(case.store) =>
                  CASE case.ask.operation = "match" -> MatchSound(E, answer, case.ask)
                    [] case.ask.operation = "rank" -> RankSound(E, answer, case.ask)
                    [] case.ask.operation = "aggregate" -> BucketsSound(E, answer, case.ask) /\ answer.scanned = Cardinality(E)
                    [] case.ask.operation = "journey" ->
                         IsPrefix(answer.events, InOrder({e \in E : e.customer = case.ask.customer}))
=============================================================================
