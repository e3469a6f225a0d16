------------------------- MODULE SignalAlertsProofs -------------------------
(***************************************************************************)
(* Theorems about SignalAlerts for any number of recommendations, editors, *)
(* pollers, measurements, edits and resets: its types and the state rows   *)
(* of rules, that events are the entries into a rule's range, that they    *)
(* are news, and what pollers are given.                                   *)
(*                                                                         *)
(* The events alone do not say so.  What makes a second event about a      *)
(* measurement impossible is that the state row of a rule has passed       *)
(* everything it judged in its era (Logged) and everything there was when  *)
(* it was chosen (Passes), and that it remembers how the log left the rule *)
(* (Remembers).                                                            *)
(***************************************************************************)
EXTENDS SignalAlerts, FiniteSetTheorems, SequenceTheorems, TLAPS

Nothing(vs) == [x \in DOMAIN vs |-> Missing]
Measurements ==
  [id : Nat, start : Nat, end : Nat \ {0}, status : {"success", "unavailable"},
   values : Values \cup {Nothing(vs) : vs \in Values}, version : Versions]
Events == [rule : Nat, measured : Nat]
Evaluations == [rule : Nat, measured : Nat, end : Nat \ {0}, matched : BOOLEAN, era : Nat]

\* Sequences, where TypeOK speaks of their elements only.
Typed ==
  /\ TypeOK
  /\ meas \in Seq(Measurements) /\ feed \in Seq(Events) /\ log \in Seq(Evaluations)
  /\ received \in [Pollers -> Seq(Events)] /\ DOMAIN cursor = Pollers
  /\ issued \in Nat \ {0} /\ revision \in Nat

\* Rule ids and measurement ids are used once, and a history that is not empty
\* has a last end.
Distinct ==
  /\ \A k, l \in DOMAIN rules : rules[k].id = rules[l].id => k = l
  /\ \A i, j \in DOMAIN meas : meas[i].id = meas[j].id => i = j
  /\ meas # << >> => \E i \in DOMAIN meas : \A j \in DOMAIN meas : meas[j].end <= meas[i].end

\* An evaluation is of an issued rule and a measurement there was; those of
\* this era have been passed, and only those are of measurements there are.
Logged(i) ==
  /\ log[i].rule < issued /\ log[i].measured < fresh /\ log[i].era <= resets
  /\ log[i].era = resets /\ log[i].rule \in DOMAIN state => log[i].end <= state[log[i].rule].last
  /\ \A j \in DOMAIN meas : meas[j].id = log[i].measured =>
       log[i].era = resets /\ meas[j].end = log[i].end

\* The last evaluation of r in this era found it in its range.
InRange(r) ==
  \E i \in DOMAIN log :
    /\ log[i].rule = r /\ log[i].era = resets /\ log[i].matched
    /\ \A j \in i + 1..Len(log) : log[j].rule = r => log[j].matched

Remembers(r) == state[r].matched <=> InRange(r)

\* What was measured before a rule was chosen has been passed.
Passes(r) ==
  \A j \in DOMAIN meas : meas[j].id \in known[r] => state[r].last # 0 /\ meas[j].end <= state[r].last

Knows ==
  /\ RuleIds \subseteq DOMAIN known
  /\ \A r \in DOMAIN known : r \in Nat /\ r < issued /\ \A id \in known[r] : id \in Nat /\ id < fresh
  /\ \A i \in DOMAIN feed : feed[i].rule \in DOMAIN known

Given(p) ==
  IF cursor[p] = Missing THEN received[p] = << >>
  ELSE /\ cursor[p] \in 0..Len(feed) /\ Len(received[p]) <= cursor[p]
       /\ \A i \in 1..Len(received[p]) : received[p][i] = feed[cursor[p] - Len(received[p]) + i]

Evaluating ==
  /\ \A i \in DOMAIN log : Logged(i)
  /\ \A r \in DOMAIN state : Remembers(r) /\ Passes(r)

AlertsInv ==
  /\ Typed /\ StateForRules /\ Distinct /\ Knows /\ Evaluating
  /\ EventsAreEntries /\ OnlyNews
  /\ \A p \in Pollers : Given(p)

-----------------------------------------------------------------------------
(* Rows added to a table, one for each member of a set.                    *)

LEMMA SetToSeqOrders ==
  ASSUME NEW S, IsFiniteSet(S)
  PROVE  LET q == SetToSeq(S)
         IN  /\ Cardinality(S) \in Nat
             /\ q \in [1..Cardinality(S) -> S]
             /\ DOMAIN q = 1..Cardinality(S) /\ Len(q) = Cardinality(S)
             /\ \A i, j \in DOMAIN q : q[i] = q[j] => i = j
             /\ \A k \in S : \E i \in DOMAIN q : q[i] = k
<1> DEFINE n == Cardinality(S)
           q == SetToSeq(S)
<1>1. n \in Nat /\ ExistsBijection(1..n, S)
  BY FS_CardinalityType
<1>2. \E f \in [1..n -> S] : IsInjective(f)
  BY <1>1 DEF ExistsBijection, Bijection, Injection, Surjection, IsInjective
<1>3. q \in [1..n -> S] /\ IsInjective(q)
  BY <1>2 DEF SetToSeq
<1>4. IsFiniteSet(1..n) /\ Cardinality(1..n) = n
  BY <1>1, FS_Interval
<1>5. q \in Injection(1..n, S)
  BY <1>3 DEF Injection, IsInjective
<1>6. q \in Surjection(1..n, S)
  BY <1>4, <1>5, FS_Injection
<1>7. \A k \in S : \E i \in 1..n : q[i] = k
  BY <1>6 DEF Surjection
<1> HIDE DEF q, n
<1>8. DOMAIN q = 1..n /\ Len(q) = n
  BY <1>1, <1>3
<1> QED
  BY <1>1, <1>3, <1>7, <1>8 DEF q, n, IsInjective

\* The rows f[k] follow g, each once.
Extends(g, h, f) ==
  /\ Len(g) <= Len(h)
  /\ \A i \in 1..Len(g) : h[i] = g[i]
  /\ \A i \in Len(g) + 1..Len(h) : \E k \in DOMAIN f : h[i] = f[k]
  /\ \A k \in DOMAIN f : \E i \in Len(g) + 1..Len(h) : h[i] = f[k]
  /\ \A i, j \in Len(g) + 1..Len(h) : h[i] = h[j] => i = j

LEMMA ExtendsBySet ==
  ASSUME NEW X, NEW g \in Seq(X), NEW S, IsFiniteSet(S), NEW f \in [S -> X],
         \A k, l \in S : f[k] = f[l] => k = l,
         NEW h, h = g \o [i \in DOMAIN SetToSeq(S) |-> f[SetToSeq(S)[i]]]
  PROVE  h \in Seq(X) /\ Extends(g, h, f)
<1> DEFINE q == SetToSeq(S)
           n == Cardinality(S)
           t == [i \in 1..n |-> f[q[i]]]
<1>1. /\ n \in Nat /\ q \in [1..n -> S] /\ DOMAIN q = 1..n
      /\ \A i, j \in 1..n : q[i] = q[j] => i = j
      /\ \A k \in S : \E i \in 1..n : q[i] = k
  BY SetToSeqOrders
<1>2. h = g \o t
  BY <1>1
<1> HIDE DEF q, n
<1>3. t \in Seq(X) /\ Len(t) = n /\ \A i \in 1..n : t[i] = f[q[i]]
  BY <1>1
<1> HIDE DEF t
<1>4. /\ h \in Seq(X) /\ Len(h) = Len(g) + n /\ Len(g) \in Nat
      /\ \A i \in 1..Len(g) : h[i] = g[i]
      /\ \A i \in 1..n : h[Len(g) + i] = t[i]
  <2>1. h \in Seq(X) /\ Len(g) \in Nat
    <3>1. g \o t \in Seq(X) /\ Len(g) \in Nat
      BY <1>3
    <3> QED
      BY <1>2, <3>1, Zenon
  <2>2. Len(h) = Len(g) + n
    BY <1>2, <1>3
  <2>3. \A i \in 1..Len(g) : h[i] = g[i]
    BY <1>2, <1>3
  <2>4. \A i \in 1..n : h[Len(g) + i] = t[i]
    <3> TAKE i \in 1..n
    <3>1. Len(g) + i \in 1..Len(g) + Len(t) /\ Len(g) + i > Len(g) /\ (Len(g) + i) - Len(g) = i
      BY <1>1, <1>3, <2>1
    <3>2. (g \o t)[Len(g) + i] = t[(Len(g) + i) - Len(g)]
      BY <1>3, <3>1
    <3> QED
      BY <1>2, <3>1, <3>2
  <2> QED
    BY <2>1, <2>2, <2>3, <2>4
<1>5. \A i \in Len(g) + 1..Len(h) : i - Len(g) \in 1..n /\ h[i] = f[q[i - Len(g)]]
  <2> TAKE i \in Len(g) + 1..Len(h)
  <2>1. i - Len(g) \in 1..n /\ Len(g) + (i - Len(g)) = i
    BY <1>1, <1>4
  <2>2. h[Len(g) + (i - Len(g))] = t[i - Len(g)]
    BY <1>4, <2>1
  <2> QED
    BY <1>3, <2>1, <2>2
<1>6. \A i \in Len(g) + 1..Len(h) : \E k \in S : h[i] = f[k]
  BY <1>1, <1>5
<1>7. ASSUME NEW k \in S PROVE \E i \in Len(g) + 1..Len(h) : h[i] = f[k]
  <2>1. PICK i \in 1..n : q[i] = k
    BY <1>1
  <2>2. Len(g) + i \in Len(g) + 1..Len(h)
    BY <1>1, <1>4, <2>1
  <2>3. h[Len(g) + i] = f[k]
    BY <1>3, <1>4, <2>1
  <2> QED
    BY <2>2, <2>3
<1>8. ASSUME NEW i \in Len(g) + 1..Len(h), NEW j \in Len(g) + 1..Len(h), h[i] = h[j] PROVE i = j
  <2>1. q[i - Len(g)] = q[j - Len(g)]
    BY <1>1, <1>5, <1>8
  <2>2. i - Len(g) = j - Len(g)
    BY <1>1, <1>5, <2>1
  <2> QED
    BY <1>4, <2>2
<1>9. DOMAIN f = S /\ Len(g) <= Len(h)
  BY <1>1, <1>4
<1> QED
  BY <1>4, <1>6, <1>7, <1>8, <1>9 DEF Extends

-----------------------------------------------------------------------------
(* What an evaluation of m does.                                           *)

Verdict(ms, m) == [k \in Evaluated(ms, m) |-> Matches(k, rules[k].threshold, ms, m)]
Fired(ms, m) == {k \in Evaluated(ms, m) : Fires(Verdict(ms, m)[k], state[rules[k].id].matched)}

Judgements(ms, m) ==
  [k \in Evaluated(ms, m) |->
    [rule |-> rules[k].id, measured |-> m.id, end |-> m.end, matched |-> Verdict(ms, m)[k],
     era |-> resets]]

Alarms(ms, m) == [k \in Fired(ms, m) |-> [rule |-> rules[k].id, measured |-> m.id]]

\* The row of rule r after a verdict v.
RowOf(v, m) == [matched |-> v, last |-> m.end]

LEMMA VerdictIsBoolean ==
  ASSUME NEW ms, NEW m, NEW k \in Evaluated(ms, m), Typed
  PROVE  Verdict(ms, m)[k] \in BOOLEAN
<1>1. k \in Recs
  BY DEF Evaluated, Typed, TypeOK
<1>2. OperatorOf[k] \in {"gt", "gte", "lt", "lte"}
  BY <1>1, AlertsAssumption
<1> DEFINE x == Observed(k, ms, m)
           y == rules[k].threshold * Scale(k, ms, m)
<1>3. Matches(k, rules[k].threshold, ms, m) =
        (CASE OperatorOf[k] = "gt" -> x > y
           [] OperatorOf[k] = "gte" -> x >= y
           [] OperatorOf[k] = "lt" -> x < y
           [] OperatorOf[k] = "lte" -> x <= y)
  BY DEF Matches
<1> HIDE DEF x, y
<1>4. Matches(k, rules[k].threshold, ms, m) \in BOOLEAN
  <2>1. CASE OperatorOf[k] = "gt"
    BY <1>3, <2>1
  <2>2. CASE OperatorOf[k] = "gte"
    BY <1>3, <2>2
  <2>3. CASE OperatorOf[k] = "lt"
    BY <1>3, <2>3
  <2>4. CASE OperatorOf[k] = "lte"
    BY <1>3, <2>4
  <2> QED
    BY <1>2, <2>1, <2>2, <2>3, <2>4
<1> QED
  BY <1>4 DEF Verdict

\* A rule that is evaluated has its row of state, which has not passed m, and
\* it alone has its id.
LEMMA EvaluatedRule ==
  ASSUME AlertsInv, NEW ms, NEW m, NEW k \in Evaluated(ms, m)
  PROVE  /\ k \in DOMAIN rules /\ rules[k].id \in DOMAIN state /\ ~Passed(state[rules[k].id], m)
         /\ rules[k].id \in 1..issued - 1
         /\ \A l \in DOMAIN rules : rules[l].id = rules[k].id => l = k
         /\ RecOf(rules[k].id) = k
<1>1. k \in DOMAIN rules /\ ~Passed(state[rules[k].id], m)
  BY DEF Evaluated
<1>2. \A l \in DOMAIN rules : rules[l].id = rules[k].id => l = k
  BY <1>1 DEF AlertsInv, Distinct
<1>3. RecOf(rules[k].id) = k
  BY <1>1, <1>2 DEF RecOf
<1>4. rules[k].id \in DOMAIN state
  BY <1>1 DEF AlertsInv, StateForRules, RuleIds
<1> QED
  BY <1>1, <1>2, <1>3, <1>4 DEF AlertsInv, Typed, TypeOK

LEMMA EvaluateAdds ==
  ASSUME AlertsInv, NEW ms, NEW m \in Measurements, Evaluate(ms, m)
  PROVE  /\ log' \in Seq(Evaluations) /\ Extends(log, log', Judgements(ms, m))
         /\ feed' \in Seq(Events) /\ Extends(feed, feed', Alarms(ms, m))
         /\ DOMAIN state' = DOMAIN state
         /\ \A r \in DOMAIN state :
              \/ \E k \in Evaluated(ms, m) : rules[k].id = r /\ state'[r] = RowOf(Verdict(ms, m)[k], m)
              \/ state'[r] = state[r] /\ \A k \in Evaluated(ms, m) : rules[k].id # r
<1> DEFINE ks == Evaluated(ms, m)
           fired == Fired(ms, m)
<1>1. /\ log' = log \o [i \in DOMAIN SetToSeq(ks) |-> Judgements(ms, m)[SetToSeq(ks)[i]]]
      /\ feed' = feed \o [i \in DOMAIN SetToSeq(fired) |-> Alarms(ms, m)[SetToSeq(fired)[i]]]
      /\ state' = [r \in DOMAIN state |->
                     IF \E k \in ks : rules[k].id = r
                     THEN RowOf(Verdict(ms, m)[RecOf(r)], m) ELSE state[r]]
  <2> DEFINE verdict == [k \in ks |-> Matches(k, rules[k].threshold, ms, m)]
             hot == {k \in ks : Fires(verdict[k], state[rules[k].id].matched)}
             order == SetToSeq(ks)
             alarms == SetToSeq(hot)
  <2>1. /\ state' = [r \in DOMAIN state |->
                IF \E k \in ks : rules[k].id = r
                THEN [matched |-> verdict[RecOf(r)], last |-> m.end] ELSE state[r]]
        /\ feed' = feed \o [i \in DOMAIN alarms |-> [rule |-> rules[alarms[i]].id, measured |-> m.id]]
        /\ log' = log \o [i \in DOMAIN order |->
              [rule |-> rules[order[i]].id, measured |-> m.id, end |-> m.end,
               matched |-> verdict[order[i]], era |-> resets]]
    BY Zenon DEF Evaluate
  <2>2. verdict = Verdict(ms, m) /\ hot = fired
    BY Zenon DEF Verdict, Fired
  <2>3. \A i \in DOMAIN order : order[i] \in ks
    <3>1. IsFiniteSet(ks)
      <4>1. ks \subseteq Recs
        BY DEF Evaluated, AlertsInv, Typed, TypeOK
      <4> QED
        BY <4>1, AlertsAssumption, FS_Subset
    <3> QED
      BY <3>1, SetToSeqOrders
  <2>4. \A i \in DOMAIN alarms : alarms[i] \in hot
    <3>1. IsFiniteSet(hot)
      <4>1. hot \subseteq Recs
        BY DEF Evaluated, AlertsInv, Typed, TypeOK
      <4> QED
        BY <4>1, AlertsAssumption, FS_Subset
    <3> QED
      BY <3>1, SetToSeqOrders
  <2> HIDE DEF verdict, hot, order, alarms, ks, fired
  <2>5. [i \in DOMAIN order |->
              [rule |-> rules[order[i]].id, measured |-> m.id, end |-> m.end,
               matched |-> verdict[order[i]], era |-> resets]]
        = [i \in DOMAIN order |-> Judgements(ms, m)[order[i]]]
    BY <2>2, <2>3 DEF Judgements, ks
  <2>6. [i \in DOMAIN alarms |-> [rule |-> rules[alarms[i]].id, measured |-> m.id]]
        = [i \in DOMAIN alarms |-> Alarms(ms, m)[alarms[i]]]
    BY <2>2, <2>4 DEF Alarms, fired
  <2>7. alarms = SetToSeq(fired) /\ order = SetToSeq(ks)
    BY <2>2 DEF alarms, order
  <2> QED
    BY <2>1, <2>2, <2>5, <2>6, <2>7, Zenon DEF RowOf
<1>2. IsFiniteSet(ks) /\ IsFiniteSet(fired) /\ fired \subseteq ks
  <2>1. ks \subseteq Recs /\ fired \subseteq ks
    BY DEF Evaluated, Fired, AlertsInv, Typed, TypeOK
  <2> QED
    BY <2>1, AlertsAssumption, FS_Subset
<1>3. \A k \in ks : /\ k \in DOMAIN rules /\ rules[k].id \in Nat /\ RecOf(rules[k].id) = k
                    /\ \A l \in DOMAIN rules : rules[l].id = rules[k].id => l = k
                    /\ Verdict(ms, m)[k] \in BOOLEAN
  <2>1. issued \in Nat \ {0}
    BY DEF AlertsInv, Typed
  <2> QED
    BY <2>1, EvaluatedRule, VerdictIsBoolean DEF AlertsInv
<1>4. resets \in Nat /\ m.id \in Nat /\ m.end \in Nat \ {0}
  BY AlertsAssumption DEF AlertsInv, Typed, TypeOK, Measurements
<1> HIDE DEF ks, fired
<1>5. log' \in Seq(Evaluations) /\ Extends(log, log', Judgements(ms, m))
  <2>1. Judgements(ms, m) \in [ks -> Evaluations]
    BY <1>3, <1>4 DEF Judgements, Evaluations, ks
  <2>2. \A k, l \in ks : Judgements(ms, m)[k] = Judgements(ms, m)[l] => k = l
    <3>1. \A k \in ks : Judgements(ms, m)[k].rule = rules[k].id
      BY DEF Judgements, ks
    <3> QED
      BY <1>3, <3>1
  <2>3. log \in Seq(Evaluations)
    BY DEF AlertsInv, Typed
  <2> DEFINE f == Judgements(ms, m)
  <2>4. f \in [ks -> Evaluations] /\ \A k, l \in ks : f[k] = f[l] => k = l
    BY <2>1, <2>2
  <2>5. log' = log \o [i \in DOMAIN SetToSeq(ks) |-> f[SetToSeq(ks)[i]]]
    BY <1>1
  <2> HIDE DEF f
  <2>7. IsFiniteSet(ks)
    BY <1>2
  <2>6. log' \in Seq(Evaluations) /\ Extends(log, log', f)
    BY <2>3, <2>4, <2>5, <2>7, ExtendsBySet, Zenon
  <2> QED
    BY <2>6 DEF f
<1>6. feed' \in Seq(Events) /\ Extends(feed, feed', Alarms(ms, m))
  <2>1. Alarms(ms, m) \in [fired -> Events]
    BY <1>2, <1>3, <1>4 DEF Alarms, Events, fired
  <2>2. \A k, l \in fired : Alarms(ms, m)[k] = Alarms(ms, m)[l] => k = l
    <3>1. \A k \in fired : Alarms(ms, m)[k].rule = rules[k].id
      BY DEF Alarms, fired
    <3> QED
      BY <1>2, <1>3, <3>1
  <2>3. feed \in Seq(Events)
    BY DEF AlertsInv, Typed
  <2> QED
    BY <1>1, <1>2, <2>1, <2>2, <2>3, ExtendsBySet
<1>7. ASSUME NEW r \in DOMAIN state
      PROVE  \/ \E k \in ks : rules[k].id = r /\ state'[r] = RowOf(Verdict(ms, m)[k], m)
             \/ state'[r] = state[r] /\ \A k \in ks : rules[k].id # r
  BY <1>1, <1>3
<1> QED
  BY <1>1, <1>5, <1>6, <1>7 DEF ks

-----------------------------------------------------------------------------
(* The history of a signal after a step.                                   *)

NextHistory ==
  /\ meas' \in Seq(Measurements) /\ fresh' \in 1..MaxMeasured + 1 /\ fresh <= fresh'
  /\ \A j \in DOMAIN meas' :
       /\ meas'[j].id \in 1..fresh' - 1 /\ meas'[j].start < meas'[j].end
       /\ meas'[j].id < fresh => \E i \in DOMAIN meas : meas[i] = meas'[j]
  /\ \A i, j \in DOMAIN meas' : meas'[i].id = meas'[j].id => i = j
  /\ meas' # << >> => \E i \in DOMAIN meas' : \A j \in DOMAIN meas' : meas'[j].end <= meas'[i].end

LEMMA SameHistory ==
  ASSUME AlertsInv, UNCHANGED <<meas, fresh>>
  PROVE  NextHistory
<1>1. meas \in Seq(Measurements) /\ fresh \in 1..MaxMeasured + 1
  BY DEF AlertsInv, Typed, TypeOK
<1>2. \A i \in 1..Len(meas) : meas[i].id \in 1..fresh - 1 /\ meas[i].start < meas[i].end
  BY DEF AlertsInv, Typed, TypeOK
<1>3. DOMAIN meas = 1..Len(meas) /\ fresh <= fresh
  BY <1>1
<1> QED
  BY <1>1, <1>2, <1>3 DEF NextHistory, AlertsInv, Distinct

LEMMA NewMeasurement ==
  ASSUME AlertsInv, NEW w \in Windows, NEW st \in {"success", "unavailable"}, NEW vs \in Values, NEW v \in Versions
  PROVE  LET m == New(w, st, vs, v)
         IN  m \in Measurements /\ m.id = fresh /\ m.start < m.end /\ m.start = w[1] /\ m.end = w[2]
<1>1. fresh \in Nat /\ w[1] \in Nat /\ w[2] \in Nat /\ w[1] < w[2]
  BY AlertsAssumption DEF AlertsInv, Typed, TypeOK
<1>2. w[2] \in Nat \ {0}
  BY <1>1
<1> QED
  BY <1>1, <1>2 DEF New, Measurements, Nothing

LEMMA AppendedHistory ==
  ASSUME AlertsInv, NEW m \in Measurements, m.id = fresh, m.start < m.end, fresh <= MaxMeasured,
         meas' = Append(meas, m), fresh' = fresh + 1
  PROVE  NextHistory /\ \E j \in DOMAIN meas' : meas'[j] = m
<1>1. /\ meas \in Seq(Measurements) /\ fresh \in 1..MaxMeasured + 1 /\ MaxMeasured \in Nat
      /\ \A i \in 1..Len(meas) : meas[i].id \in 1..fresh - 1 /\ meas[i].start < meas[i].end
  BY AlertsAssumption DEF AlertsInv, Typed, TypeOK
<1> DEFINE n == Len(meas)
<1>2. /\ meas' \in Seq(Measurements) /\ n \in Nat
      /\ DOMAIN meas = 1..n /\ DOMAIN meas' = 1..n + 1
      /\ meas'[n + 1] = m /\ \A i \in 1..n : meas'[i] = meas[i]
  BY <1>1
<1> HIDE DEF n
<1>3. \A j \in 1..n + 1 : j = n + 1 \/ j \in 1..n
  BY <1>2
<1>4. fresh' \in 1..MaxMeasured + 1 /\ fresh <= fresh' /\ ~(m.id < fresh)
  BY <1>1
<1>5. ASSUME NEW j \in DOMAIN meas'
      PROVE  /\ meas'[j].id \in 1..fresh' - 1 /\ meas'[j].start < meas'[j].end
             /\ meas'[j].id < fresh => \E i \in DOMAIN meas : meas[i] = meas'[j]
  <2>1. CASE j = n + 1
    <3>1. meas'[j] = m /\ m.id \in 1..fresh' - 1
      BY <1>1, <1>2, <2>1
    <3> QED
      BY <1>4, <3>1
  <2>2. CASE j \in 1..n
    <3>1. meas'[j] = meas[j] /\ meas[j].id \in 1..fresh - 1 /\ meas[j].start < meas[j].end
      BY <1>1, <1>2, <2>2 DEF n
    <3> QED
      BY <1>1, <1>2, <2>2, <3>1
  <2> QED
    BY <1>2, <1>3, <2>1, <2>2
<1>6. ASSUME NEW i \in DOMAIN meas', NEW j \in DOMAIN meas', meas'[i].id = meas'[j].id PROVE i = j
  <2>1. \A k \in 1..n : meas'[k].id # fresh
    BY <1>1, <1>2 DEF n
  <2>2. \A k, l \in 1..n : meas'[k].id = meas'[l].id => k = l
    BY <1>2 DEF AlertsInv, Distinct
  <2> QED
    BY <1>2, <1>3, <1>6, <2>1, <2>2
<1>7. \E i \in DOMAIN meas' : \A j \in DOMAIN meas' : meas'[j].end <= meas'[i].end
  <2>1. (\A j \in 1..n : meas[j].end \in Nat) /\ m.end \in Nat
    <3>1. \A j \in 1..n : meas[j] \in Measurements
      BY <1>1, <1>2
    <3> QED
      BY <3>1 DEF Measurements
  <2>2. n + 1 \in DOMAIN meas' /\ 1..n \subseteq DOMAIN meas' /\ \A j \in DOMAIN meas' : j = n + 1 \/ j \in 1..n
    BY <1>2, <1>3
  <2>3. CASE n = 0
    <3>1. \A j \in DOMAIN meas' : j = n + 1
      BY <1>2, <2>2, <2>3
    <3>2. \A j \in DOMAIN meas' : meas'[j].end <= meas'[n + 1].end
      BY <1>2, <2>1, <3>1
    <3> QED
      BY <2>2, <3>2
  <2>4. CASE n # 0
    <3>1. PICK i \in 1..n : \A j \in 1..n : meas[j].end <= meas[i].end
      <4>1. meas # << >>
        BY <1>2, <2>4 DEF n
      <4> QED
        BY <1>2, <4>1 DEF AlertsInv, Distinct
    <3>2. CASE m.end <= meas[i].end
      <4>1. \A j \in DOMAIN meas' : meas'[j].end <= meas'[i].end
        BY <1>2, <2>2, <3>1, <3>2
      <4> QED
        BY <2>2, <3>1, <4>1
    <3>3. CASE ~(m.end <= meas[i].end)
      <4>1. \A j \in 1..n : meas[j].end <= m.end
        BY <2>1, <3>1, <3>3
      <4>2. \A j \in DOMAIN meas' : meas'[j].end <= meas'[n + 1].end
        BY <1>2, <2>1, <2>2, <4>1
      <4> QED
        BY <2>2, <4>2
    <3> QED
      BY <3>2, <3>3
  <2> QED
    BY <2>3, <2>4
<1>8. NextHistory
  BY <1>2, <1>4, <1>5, <1>6, <1>7 DEF NextHistory
<1> QED
  BY <1>2, <1>8

LEMMA AddedHistory ==
  ASSUME AlertsInv, NEW w \in Windows, NEW st \in {"success", "unavailable"}, NEW vs \in Values, NEW v \in Versions,
         NEW evaluate \in BOOLEAN, AddMeasurement(w, st, vs, v, evaluate)
  PROVE  /\ NextHistory
         /\ UNCHANGED <<active, rules, revision, clients, issued, resets, known>>
         /\ \/ UNCHANGED <<state, feed, log>>
            \/ \E j \in DOMAIN meas' : meas'[j] \in Measurements /\ Evaluate(meas', meas'[j])
<1> DEFINE m == New(w, st, vs, v)
           old == {i \in 1..Len(meas) : Same(meas[i], m)}
           row == IF old = {} THEN m ELSE meas[CHOOSE i \in old : TRUE]
<1>1. /\ fresh <= MaxMeasured
      /\ meas' = IF old = {} THEN Append(meas, m) ELSE meas
      /\ fresh' = IF old = {} THEN fresh + 1 ELSE fresh
      /\ Evaluate(meas', row) \/ UNCHANGED <<state, feed, log>>
      /\ UNCHANGED <<active, rules, revision, clients, issued, resets, known>>
  BY Zenon DEF AddMeasurement
<1>2. m \in Measurements /\ m.id = fresh /\ m.start < m.end
  BY NewMeasurement
<1> HIDE DEF m
<1>3. NextHistory /\ \E j \in DOMAIN meas' : meas'[j] = row
  <2>1. CASE old = {}
    BY <1>1, <1>2, <2>1, AppendedHistory
  <2>2. CASE old # {}
    <3>1. meas' = meas /\ fresh' = fresh /\ row = meas[CHOOSE i \in old : TRUE]
      BY <1>1, <2>2
    <3>2. (CHOOSE i \in old : TRUE) \in DOMAIN meas
      <4>1. (CHOOSE i \in old : TRUE) \in old /\ old \subseteq 1..Len(meas)
        BY <2>2
      <4>2. DOMAIN meas = 1..Len(meas)
        BY DEF AlertsInv, Typed
      <4> QED
        BY <4>1, <4>2
    <3> HIDE DEF old
    <3> QED
      BY <3>1, <3>2, SameHistory
  <2> QED
    BY <2>1, <2>2
<1> HIDE DEF row, old
<1>4. \A j \in DOMAIN meas' : meas'[j] \in Measurements
  BY <1>3 DEF NextHistory
<1> QED
  BY <1>1, <1>3, <1>4

-----------------------------------------------------------------------------
(* A step that puts m, of the history there is afterwards, to the rules.   *)

Judges(m) ==
  /\ NextHistory /\ m \in Measurements /\ \E j \in DOMAIN meas' : meas'[j] = m
  /\ log' \in Seq(Evaluations) /\ Extends(log, log', Judgements(meas', m))
  /\ feed' \in Seq(Events) /\ Extends(feed, feed', Alarms(meas', m))
  /\ DOMAIN state' = DOMAIN state
  /\ \A r \in DOMAIN state :
       \/ \E k \in Evaluated(meas', m) : rules[k].id = r /\ state'[r] = RowOf(Verdict(meas', m)[k], m)
       \/ state'[r] = state[r] /\ \A k \in Evaluated(meas', m) : rules[k].id # r
  /\ UNCHANGED <<rules, issued, resets, known>>

LEMMA JudgesRow ==
  ASSUME AlertsInv, NEW m, Judges(m), NEW k \in Evaluated(meas', m)
  PROVE  state'[rules[k].id] = RowOf(Verdict(meas', m)[k], m) /\ Verdict(meas', m)[k] \in BOOLEAN
<1>1. /\ rules[k].id \in DOMAIN state
      /\ \A l \in Evaluated(meas', m) : rules[l].id = rules[k].id => l = k
  BY EvaluatedRule
<1>2. Verdict(meas', m)[k] \in BOOLEAN
  BY VerdictIsBoolean DEF AlertsInv
<1>3. \/ \E l \in Evaluated(meas', m) :
             rules[l].id = rules[k].id /\ state'[rules[k].id] = RowOf(Verdict(meas', m)[l], m)
      \/ \A l \in Evaluated(meas', m) : rules[l].id # rules[k].id
  BY <1>1 DEF Judges
<1> QED
  BY <1>1, <1>2, <1>3

\* The row of a rule only passes more.
LEMMA RowsPassMore ==
  ASSUME AlertsInv, NEW m, Judges(m), NEW r \in DOMAIN state
  PROVE  /\ state[r].last \in Nat /\ state'[r].last \in Nat /\ state[r].last <= state'[r].last
         /\ state'[r].matched \in BOOLEAN
<1>1. state[r].matched \in BOOLEAN /\ state[r].last \in Nat
  BY DEF AlertsInv, Typed, TypeOK
<1>2. m.end \in Nat
  BY DEF Judges, Measurements
<1>3. ASSUME NEW k \in Evaluated(meas', m), rules[k].id = r, state'[r] = RowOf(Verdict(meas', m)[k], m)
      PROVE  state'[r].last \in Nat /\ state[r].last <= state'[r].last /\ state'[r].matched \in BOOLEAN
  <2>1. ~Passed(state[r], m)
    BY <1>3, EvaluatedRule
  <2>2. state[r].last <= m.end
    BY <1>1, <1>2, <2>1 DEF Passed
  <2>3. state'[r].last = m.end /\ state'[r].matched = Verdict(meas', m)[k]
    BY <1>3 DEF RowOf
  <2> QED
    BY <1>2, <1>3, <2>2, <2>3, VerdictIsBoolean DEF AlertsInv
<1>4. CASE state'[r] = state[r]
  BY <1>1, <1>4
<1> QED
  BY <1>1, <1>3, <1>4 DEF Judges

LEMMA OldLog ==
  ASSUME AlertsInv
  PROVE  /\ Len(log) \in Nat /\ DOMAIN log = 1..Len(log)
         /\ \A i \in 1..Len(log) : log[i] \in Evaluations
         /\ Len(feed) \in Nat /\ DOMAIN feed = 1..Len(feed)
         /\ \A i \in 1..Len(feed) : feed[i] \in Events
BY DEF AlertsInv, Typed

\* The positions after a step are the old ones and those of the rows added.
LEMMA JudgesLog ==
  ASSUME AlertsInv, NEW m, Judges(m)
  PROVE  /\ Len(log') \in Nat /\ DOMAIN log' = 1..Len(log') /\ Len(log) <= Len(log')
         /\ \A i \in DOMAIN log' : i \in 1..Len(log) \/ i \in Len(log) + 1..Len(log')
         /\ \A i \in 1..Len(log) : i \in DOMAIN log' /\ log'[i] = log[i]
         /\ \A i \in Len(log) + 1..Len(log') : i \in DOMAIN log' /\ i \notin 1..Len(log) /\
              \E k \in Evaluated(meas', m) : log'[i] = Judgements(meas', m)[k]
         /\ \A k \in Evaluated(meas', m) : \E i \in Len(log) + 1..Len(log') : log'[i] = Judgements(meas', m)[k]
<1>1. Len(log') \in Nat /\ DOMAIN log' = 1..Len(log')
  BY DEF Judges
<1>2. Len(log) \in Nat /\ DOMAIN log = 1..Len(log)
  BY OldLog
<1>3. DOMAIN Judgements(meas', m) = Evaluated(meas', m)
  BY DEF Judgements
<1>4. Extends(log, log', Judgements(meas', m))
  BY DEF Judges
<1> QED
  BY <1>1, <1>2, <1>3, <1>4 DEF Extends

LEMMA JudgementOf ==
  ASSUME NEW ms, NEW m, NEW k \in Evaluated(ms, m)
  PROVE  LET e == Judgements(ms, m)[k]
         IN  /\ e.rule = rules[k].id /\ e.measured = m.id /\ e.end = m.end /\ e.era = resets
             /\ e.matched = Verdict(ms, m)[k]
BY DEF Judgements

\* The rows added are about one rule each.
LEMMA OneJudgement ==
  ASSUME AlertsInv, NEW m, Judges(m), NEW i \in Len(log) + 1..Len(log'), NEW j \in Len(log) + 1..Len(log'),
         log'[i].rule = log'[j].rule
  PROVE  i = j
<1>1. PICK k \in Evaluated(meas', m) : log'[i] = Judgements(meas', m)[k]
  BY JudgesLog
<1>2. PICK l \in Evaluated(meas', m) : log'[j] = Judgements(meas', m)[l]
  BY JudgesLog
<1>3. rules[k].id = rules[l].id
  BY <1>1, <1>2, JudgementOf
<1>4. k = l
  <2>1. k \in DOMAIN rules /\ l \in DOMAIN rules
    BY DEF Evaluated
  <2> QED
    BY <1>3, <2>1 DEF AlertsInv, Distinct
<1>5. log'[i] = log'[j]
  BY <1>1, <1>2, <1>4
<1>6. Extends(log, log', Judgements(meas', m))
  BY DEF Judges
<1> QED
  BY <1>5, <1>6 DEF Extends

LEMMA JudgesLogged ==
  ASSUME AlertsInv, NEW m, Judges(m), NEW i \in DOMAIN log'
  PROVE  Logged(i)'
<1>1. UNCHANGED <<rules, issued, resets, known>> /\ DOMAIN state' = DOMAIN state
  BY DEF Judges
<1>2. /\ fresh \in Nat /\ fresh' \in Nat /\ fresh <= fresh'
      /\ \A j \in DOMAIN meas' : meas'[j].id \in 1..fresh' - 1
      /\ \A j \in DOMAIN meas' : meas'[j].id < fresh => \E l \in DOMAIN meas : meas[l] = meas'[j]
      /\ \A j, l \in DOMAIN meas' : meas'[j].id = meas'[l].id => j = l
  BY AlertsAssumption DEF Judges, NextHistory, AlertsInv, Typed, TypeOK
<1>3. CASE i \in 1..Len(log)
  <2>1. log'[i] = log[i] /\ Logged(i) /\ log[i] \in Evaluations
    BY <1>3, JudgesLog, OldLog DEF AlertsInv, Evaluating
  <2>2. log[i].end \in Nat /\ log[i].measured \in Nat
    BY <2>1 DEF Evaluations
  <2>3. log[i].rule < issued /\ log[i].measured < fresh' /\ log[i].era <= resets
    BY <1>2, <2>1, <2>2 DEF Logged
  <2>4. ASSUME log[i].era = resets, log[i].rule \in DOMAIN state
        PROVE  log[i].end <= state'[log[i].rule].last
    <3>1. log[i].end <= state[log[i].rule].last
      BY <2>1, <2>4 DEF Logged
    <3>2. /\ state[log[i].rule].last \in Nat /\ state'[log[i].rule].last \in Nat
          /\ state[log[i].rule].last <= state'[log[i].rule].last
      BY <2>4, RowsPassMore
    <3> QED
      BY <2>2, <3>1, <3>2
  <2>5. ASSUME NEW j \in DOMAIN meas', meas'[j].id = log[i].measured
        PROVE  log[i].era = resets /\ meas'[j].end = log[i].end
    <3>1. meas'[j].id < fresh
      BY <2>1, <2>5 DEF Logged
    <3>2. PICK l \in DOMAIN meas : meas[l] = meas'[j]
      BY <1>2, <3>1
    <3> QED
      BY <2>1, <2>5, <3>2 DEF Logged
  <2> QED
    BY <1>1, <2>1, <2>3, <2>4, <2>5 DEF Logged
<1>4. CASE i \in Len(log) + 1..Len(log')
  <2>1. PICK k \in Evaluated(meas', m) : log'[i] = Judgements(meas', m)[k]
    BY <1>4, JudgesLog
  <2>2. /\ log'[i].rule = rules[k].id /\ log'[i].measured = m.id /\ log'[i].end = m.end
        /\ log'[i].era = resets
    BY <2>1, JudgementOf
  <2>3. rules[k].id \in 1..issued - 1 /\ issued \in Nat
    BY EvaluatedRule DEF AlertsInv, Typed
  <2>4. state'[rules[k].id].last = m.end /\ m.end \in Nat
    <3>1. m \in Measurements
      BY DEF Judges
    <3>2. state'[rules[k].id] = RowOf(Verdict(meas', m)[k], m)
      BY JudgesRow
    <3> QED
      BY <3>1, <3>2 DEF RowOf, Measurements
  <2>5. PICK n \in DOMAIN meas' : meas'[n] = m
    BY DEF Judges
  <2>6. m.id < fresh' /\ \A j \in DOMAIN meas' : meas'[j].id = m.id => meas'[j].end = m.end
    BY <1>2, <2>5
  <2>7. resets \in Nat
    BY AlertsAssumption DEF AlertsInv, Typed, TypeOK
  <2> QED
    BY <1>1, <2>2, <2>3, <2>4, <2>6, <2>7 DEF Logged
<1> QED
  BY <1>3, <1>4, JudgesLog

LEMMA JudgesPasses ==
  ASSUME AlertsInv, NEW m, Judges(m), NEW r \in DOMAIN state
  PROVE  Passes(r)'
<1> SUFFICES ASSUME NEW j \in DOMAIN meas', meas'[j].id \in known[r]
             PROVE  state'[r].last # 0 /\ meas'[j].end <= state'[r].last
  BY DEF Judges, Passes
<1>1. r \in DOMAIN known /\ meas'[j].id < fresh
  BY DEF AlertsInv, StateForRules, Knows
<1>2. PICK l \in DOMAIN meas : meas[l] = meas'[j]
  BY <1>1 DEF Judges, NextHistory
<1>3. state[r].last # 0 /\ meas'[j].end <= state[r].last
  BY <1>2 DEF AlertsInv, Evaluating, Passes
<1>4. state[r].last \in Nat /\ state'[r].last \in Nat /\ state[r].last <= state'[r].last
  BY RowsPassMore
<1>5. meas'[j].end \in Nat
  <2>1. meas'[j] \in Measurements
    BY DEF Judges, NextHistory
  <2> QED
    BY <2>1 DEF Measurements
<1> QED
  BY <1>3, <1>4, <1>5

LEMMA JudgesRemembers ==
  ASSUME AlertsInv, NEW m, Judges(m), NEW r \in DOMAIN state
  PROVE  Remembers(r)'
<1> USE DEF InRange
<1>1. resets' = resets
  BY DEF Judges
<1>2. state[r].matched <=> InRange(r)
  BY DEF AlertsInv, Evaluating, Remembers
<1>3. ASSUME NEW k \in Evaluated(meas', m), rules[k].id = r
      PROVE  state'[r].matched <=> InRange(r)'
  <2>1. PICK p \in Len(log) + 1..Len(log') : log'[p] = Judgements(meas', m)[k]
    BY JudgesLog
  <2>2. log'[p].rule = r /\ log'[p].era = resets /\ log'[p].matched = Verdict(meas', m)[k]
    BY <1>3, <2>1, JudgementOf
  <2>3. state'[r].matched = log'[p].matched /\ log'[p].matched \in BOOLEAN
    <3>1. state'[r] = RowOf(Verdict(meas', m)[k], m) /\ Verdict(meas', m)[k] \in BOOLEAN
      BY <1>3, JudgesRow
    <3> QED
      BY <2>2, <3>1 DEF RowOf
  <2>4. \A j \in Len(log) + 1..Len(log') : log'[j].rule = r => j = p
    BY <2>2, OneJudgement
  <2>5. /\ Len(log) \in Nat /\ Len(log') \in Nat /\ DOMAIN log' = 1..Len(log')
        /\ \A i \in DOMAIN log' : i \in 1..Len(log) \/ i \in Len(log) + 1..Len(log')
    BY JudgesLog, OldLog
  <2>6. ASSUME log'[p].matched PROVE InRange(r)'
    <3>1. \A j \in p + 1..Len(log') : j \in Len(log) + 1..Len(log') /\ j # p
      BY <2>5
    <3>2. p \in DOMAIN log'
      BY <2>5
    <3> QED
      BY <1>1, <2>2, <2>4, <2>6, <3>1, <3>2
  <2>7. ASSUME InRange(r)' PROVE log'[p].matched
    <3>1. PICK i \in DOMAIN log' :
            /\ log'[i].rule = r /\ log'[i].matched
            /\ \A j \in i + 1..Len(log') : log'[j].rule = r => log'[j].matched
      BY <2>7
    <3>2. CASE i = p
      BY <3>1, <3>2
    <3>3. CASE i # p
      <4>1. i \in 1..Len(log)
        BY <2>4, <2>5, <3>1, <3>3
      <4>2. p \in i + 1..Len(log')
        BY <2>5, <4>1
      <4> QED
        BY <2>2, <3>1, <4>2
    <3> QED
      BY <3>2, <3>3
  <2> QED
    BY <2>3, <2>6, <2>7
<1>4. ASSUME state'[r] = state[r], \A k \in Evaluated(meas', m) : rules[k].id # r
      PROVE  state'[r].matched <=> InRange(r)'
  <2>1. ASSUME NEW j \in Len(log) + 1..Len(log') PROVE log'[j].rule # r
    <3>1. PICK k \in Evaluated(meas', m) : log'[j] = Judgements(meas', m)[k]
      BY JudgesLog
    <3>2. log'[j].rule = rules[k].id
      BY <3>1, JudgementOf
    <3> QED
      BY <1>4, <3>2
  <2>2. /\ Len(log) \in Nat /\ Len(log') \in Nat /\ DOMAIN log' = 1..Len(log') /\ DOMAIN log = 1..Len(log)
        /\ Len(log) <= Len(log')
        /\ \A i \in 1..Len(log) : log'[i] = log[i]
    BY JudgesLog, OldLog
  <2>3. ASSUME InRange(r) PROVE InRange(r)'
    <3>1. PICK i \in DOMAIN log :
            /\ log[i].rule = r /\ log[i].era = resets /\ log[i].matched
            /\ \A j \in i + 1..Len(log) : log[j].rule = r => log[j].matched
      BY <2>3
    <3>2. i \in DOMAIN log' /\ log'[i] = log[i]
      BY <2>2
    <3>3. ASSUME NEW j \in i + 1..Len(log'), log'[j].rule = r PROVE log'[j].matched
      <4>1. j \in 1..Len(log)
        BY <2>1, <2>2, <3>3
      <4>2. j \in i + 1..Len(log) /\ log'[j] = log[j]
        BY <2>2, <3>2, <4>1
      <4> QED
        BY <3>1, <3>3, <4>2
    <3> QED
      BY <1>1, <3>1, <3>2, <3>3
  <2>4. ASSUME InRange(r)' PROVE InRange(r)
    <3>1. PICK i \in DOMAIN log' :
            /\ log'[i].rule = r /\ log'[i].era = resets /\ log'[i].matched
            /\ \A j \in i + 1..Len(log') : log'[j].rule = r => log'[j].matched
      BY <1>1, <2>4
    <3>2. i \in 1..Len(log)
      BY <2>1, <2>2, <3>1
    <3>3. \A j \in i + 1..Len(log) : j \in i + 1..Len(log') /\ log'[j] = log[j]
      BY <2>2, <3>2
    <3> QED
      BY <2>2, <3>1, <3>2, <3>3
  <2> QED
    BY <1>2, <1>4, <2>3, <2>4
<1> QED
  BY <1>3, <1>4 DEF Judges, Remembers

LEMMA JudgesForward ==
  ASSUME AlertsInv, NEW m, Judges(m)
  PROVE  ForwardOnly'
<1> SUFFICES ASSUME NEW i \in DOMAIN log', NEW j \in DOMAIN log', i < j,
                    log'[i].rule = log'[j].rule, log'[i].era = log'[j].era
             PROVE  log'[i].end < log'[j].end
  BY DEF ForwardOnly
<1>1. Len(log) \in Nat /\ Len(log') \in Nat
  BY JudgesLog, OldLog
<1>2. CASE j \in 1..Len(log)
  <2>1. i \in 1..Len(log) /\ i \in DOMAIN log /\ j \in DOMAIN log
    BY <1>1, <1>2, JudgesLog, OldLog
  <2>2. log'[i] = log[i] /\ log'[j] = log[j]
    BY <1>2, <2>1, JudgesLog
  <2> QED
    BY <2>1, <2>2 DEF AlertsInv, OnlyNews, ForwardOnly
<1>3. CASE j \in Len(log) + 1..Len(log')
  <2>1. PICK k \in Evaluated(meas', m) : log'[j] = Judgements(meas', m)[k]
    BY <1>3, JudgesLog
  <2>2. log'[j].rule = rules[k].id /\ log'[j].end = m.end /\ log'[j].era = resets
    BY <2>1, JudgementOf
  <2>3. i \in 1..Len(log)
    <3>1. i # j
      BY <1>1, JudgesLog
    <3> QED
      BY <1>3, <3>1, JudgesLog, OneJudgement
  <2>4. log'[i] = log[i] /\ Logged(i) /\ log[i] \in Evaluations
    BY <2>3, JudgesLog, OldLog DEF AlertsInv, Evaluating
  <2>5. rules[k].id \in DOMAIN state /\ ~Passed(state[rules[k].id], m)
    BY EvaluatedRule
  <2>6. log[i].end <= state[rules[k].id].last
    BY <2>2, <2>4, <2>5 DEF Logged
  <2>7. log[i].end \in Nat \ {0} /\ state[rules[k].id].last \in Nat /\ m.end \in Nat
    BY <2>4, <2>5 DEF Evaluations, Measurements, Judges, AlertsInv, Typed, TypeOK
  <2> QED
    BY <2>2, <2>4, <2>5, <2>6, <2>7 DEF Passed
<1> QED
  BY <1>2, <1>3, JudgesLog

\* The new events, like JudgesLog.
LEMMA JudgesFeed ==
  ASSUME AlertsInv, NEW m, Judges(m)
  PROVE  /\ Len(feed') \in Nat /\ DOMAIN feed' = 1..Len(feed') /\ Len(feed) <= Len(feed')
         /\ \A i \in DOMAIN feed' : i \in 1..Len(feed) \/ i \in Len(feed) + 1..Len(feed')
         /\ \A i \in 1..Len(feed) : i \in DOMAIN feed' /\ feed'[i] = feed[i]
         /\ \A i \in Len(feed) + 1..Len(feed') : i \in DOMAIN feed' /\ i \notin 1..Len(feed) /\
              \E k \in Fired(meas', m) : feed'[i].rule = rules[k].id /\ feed'[i].measured = m.id
         /\ \A k \in Fired(meas', m) : \E i \in Len(feed) + 1..Len(feed') :
              feed'[i].rule = rules[k].id /\ feed'[i].measured = m.id
<1>1. Len(feed') \in Nat /\ DOMAIN feed' = 1..Len(feed')
  BY DEF Judges
<1>2. Len(feed) \in Nat /\ DOMAIN feed = 1..Len(feed)
  BY OldLog
<1>3. DOMAIN Alarms(meas', m) = Fired(meas', m)
  BY DEF Alarms
<1>4. \A k \in Fired(meas', m) :
        Alarms(meas', m)[k].rule = rules[k].id /\ Alarms(meas', m)[k].measured = m.id
  BY DEF Alarms
<1>5. Extends(feed, feed', Alarms(meas', m))
  BY DEF Judges
<1> QED
  BY <1>1, <1>2, <1>3, <1>4, <1>5 DEF Extends

\* What is judged was not judged before by the rule, nor there at its choice.
LEMMA JudgedOnce ==
  ASSUME AlertsInv, NEW m, Judges(m), NEW k \in Evaluated(meas', m)
  PROVE  /\ \A i \in DOMAIN log : log[i].rule = rules[k].id => log[i].measured # m.id
         /\ m.id \notin known[rules[k].id]
<1> DEFINE r == rules[k].id
<1>1. r \in DOMAIN state /\ ~Passed(state[r], m) /\ state[r].last \in Nat
  BY EvaluatedRule DEF AlertsInv, Typed, TypeOK
<1>2. PICK n \in DOMAIN meas' : meas'[n] = m
  BY DEF Judges
<1>3. m.id < fresh => \E l \in DOMAIN meas : meas[l] = m
  BY <1>2 DEF Judges, NextHistory
<1>4. m.end \in Nat
  BY DEF Judges, Measurements
<1>5. ASSUME NEW i \in DOMAIN log, log[i].rule = r, log[i].measured = m.id PROVE FALSE
  <2>1. Logged(i) /\ log[i] \in Evaluations
    BY OldLog DEF AlertsInv, Evaluating
  <2>2. PICK l \in DOMAIN meas : meas[l] = m
    BY <1>3, <1>5, <2>1 DEF Logged
  <2>3. log[i].era = resets /\ m.end = log[i].end
    BY <1>5, <2>1, <2>2 DEF Logged
  <2>4. m.end <= state[r].last /\ m.end # 0
    BY <1>1, <1>5, <2>1, <2>3 DEF Logged, Evaluations
  <2> QED
    BY <1>1, <1>4, <2>4 DEF Passed
<1>6. ASSUME m.id \in known[r] PROVE FALSE
  <2>1. m.id < fresh
    BY <1>1, <1>6 DEF AlertsInv, StateForRules, Knows
  <2>2. PICK l \in DOMAIN meas : meas[l] = m
    BY <1>3, <2>1
  <2>3. state[r].last # 0 /\ m.end <= state[r].last
    BY <1>1, <1>6, <2>2 DEF AlertsInv, Evaluating, Passes
  <2> QED
    BY <1>1, <2>3 DEF Passed
<1> QED
  BY <1>5, <1>6

-----------------------------------------------------------------------------
(* The events of a step that judges are the entries it makes.              *)

LEMMA JudgesOldEntries ==
  ASSUME AlertsInv, NEW m, Judges(m), NEW r, NEW i \in 1..Len(log)
  PROVE  i \in Entries(r)' <=> i \in Entries(r)
<1>1. /\ Len(log) \in Nat /\ i \in DOMAIN log /\ i \in DOMAIN log'
      /\ \A j \in 1..Len(log) : log'[j] = log[j]
  BY JudgesLog, OldLog
<1>2. \A j \in 1..i : log'[j] = log[j]
  BY <1>1
<1>3. \A j \in 1..i - 1 : log'[j] = log[j] /\ \A k \in j + 1..i - 1 : log'[k] = log[k]
  BY <1>1, <1>2
<1>4. log'[i] = log[i]
  BY <1>1
<1> QED
  BY <1>1, <1>3, <1>4 DEF Entries

LEMMA JudgesNewEntry ==
  ASSUME AlertsInv, NEW m, Judges(m), NEW r, NEW k \in Evaluated(meas', m), rules[k].id = r,
         NEW p \in Len(log) + 1..Len(log'), log'[p] = Judgements(meas', m)[k]
  PROVE  p \in Entries(r)' <=> k \in Fired(meas', m)
<1>1. log'[p].rule = r /\ log'[p].era = resets /\ log'[p].matched = Verdict(meas', m)[k]
  BY JudgementOf
<1>2. \A j \in Len(log) + 1..Len(log') : log'[j].rule = r => j = p
  BY <1>1, OneJudgement
<1>3. /\ Len(log) \in Nat /\ Len(log') \in Nat /\ DOMAIN log = 1..Len(log) /\ p \in DOMAIN log'
      /\ \A j \in 1..Len(log) : log'[j] = log[j]
  BY JudgesLog, OldLog
<1>4. r \in DOMAIN state /\ state[r].matched \in BOOLEAN /\ Verdict(meas', m)[k] \in BOOLEAN
  BY EvaluatedRule, VerdictIsBoolean DEF AlertsInv, Typed, TypeOK
<1>5. state[r].matched <=> InRange(r)
  BY <1>4 DEF AlertsInv, Evaluating, Remembers
<1>6. k \in Fired(meas', m) <=> Verdict(meas', m)[k] /\ ~InRange(r)
  BY <1>4, <1>5 DEF Fired, Fires
<1>7. \A j \in 1..p - 1 : log'[j].rule = r => j \in 1..Len(log)
  BY <1>2, <1>3
<1>8. ASSUME ~InRange(r), NEW j \in 1..p - 1, log'[j].rule = r, log'[j].era = resets, log'[j].matched
      PROVE  \E n \in j + 1..p - 1 : log'[n].rule = r /\ ~log'[n].matched
  <2>1. j \in 1..Len(log) /\ log[j] = log'[j]
    BY <1>3, <1>7, <1>8
  <2>2. PICK n \in j + 1..Len(log) : log[n].rule = r /\ ~log[n].matched
    BY <1>3, <1>8, <2>1 DEF InRange
  <2>3. n \in j + 1..p - 1 /\ log'[n] = log[n]
    BY <1>3, <2>1, <2>2
  <2> QED
    BY <2>2, <2>3
<1>9. ASSUME InRange(r) PROVE p \notin Entries(r)'
  <2>1. PICK i \in DOMAIN log :
          /\ log[i].rule = r /\ log[i].era = resets /\ log[i].matched
          /\ \A j \in i + 1..Len(log) : log[j].rule = r => log[j].matched
    BY <1>9 DEF InRange
  <2>2. i \in 1..p - 1 /\ log'[i] = log[i]
    BY <1>3, <2>1
  <2>3. ASSUME NEW n \in i + 1..p - 1, log'[n].rule = r PROVE log'[n].matched
    <3>1. n \in 1..p - 1
      BY <2>2
    <3>2. n \in i + 1..Len(log) /\ log'[n] = log[n]
      BY <1>3, <1>7, <2>3, <3>1
    <3> QED
      BY <2>1, <2>3, <3>2
  <2> QED
    BY <1>1, <2>1, <2>2, <2>3 DEF Entries
<1>10. ASSUME ~InRange(r), Verdict(meas', m)[k] PROVE p \in Entries(r)'
  BY <1>1, <1>3, <1>8, <1>10 DEF Entries
<1>11. p \in Entries(r)' => Verdict(meas', m)[k]
  BY <1>1 DEF Entries
<1> QED
  BY <1>4, <1>6, <1>9, <1>10, <1>11

\* The events of a rule are its entries, as a statement on members.
Announced(r) == {feed[i].measured : i \in {j \in DOMAIN feed : feed[j].rule = r}}
Entered(r) == {log[i].measured : i \in Entries(r)}

LEMMA JudgesAnnounces ==
  ASSUME AlertsInv, NEW m, Judges(m), NEW r \in 1..issued - 1
  PROVE  Announced(r)' = Entered(r)'
<1>1. Announced(r) = Entered(r)
  BY DEF Announced, Entered, AlertsInv, EventsAreEntries
<1>2. ASSUME NEW x \in Announced(r)' PROVE x \in Entered(r)'
  <2>1. PICK i \in DOMAIN feed' : feed'[i].rule = r /\ x = feed'[i].measured
    BY <1>2 DEF Announced
  <2>2. CASE i \in 1..Len(feed)
    <3>1. i \in DOMAIN feed /\ feed'[i] = feed[i]
      BY <2>2, JudgesFeed, OldLog
    <3>2. x \in Announced(r)
      BY <2>1, <3>1 DEF Announced
    <3>3. PICK n \in Entries(r) : x = log[n].measured
      BY <1>1, <3>2 DEF Entered
    <3>4. n \in 1..Len(log)
      BY <3>3, OldLog DEF Entries
    <3>5. n \in Entries(r)' /\ log'[n] = log[n]
      BY <3>3, <3>4, JudgesOldEntries, JudgesLog
    <3> QED
      BY <3>3, <3>5 DEF Entered
  <2>3. CASE i \in Len(feed) + 1..Len(feed')
    <3>1. PICK k \in Fired(meas', m) : feed'[i].rule = rules[k].id /\ feed'[i].measured = m.id
      BY <2>3, JudgesFeed
    <3>2. k \in Evaluated(meas', m)
      BY <3>1 DEF Fired
    <3>3. PICK p \in Len(log) + 1..Len(log') : log'[p] = Judgements(meas', m)[k]
      BY <3>2, JudgesLog
    <3>4. log'[p].measured = m.id
      BY <3>2, <3>3, JudgementOf
    <3>5. p \in Entries(r)'
      BY <2>1, <3>1, <3>2, <3>3, JudgesNewEntry
    <3> QED
      BY <2>1, <3>1, <3>4, <3>5 DEF Entered
  <2> QED
    BY <2>1, <2>2, <2>3, JudgesFeed
<1>3. ASSUME NEW x \in Entered(r)' PROVE x \in Announced(r)'
  <2>1. PICK i \in Entries(r)' : x = log'[i].measured
    BY <1>3 DEF Entered
  <2>2. i \in DOMAIN log' /\ log'[i].rule = r
    BY <2>1 DEF Entries
  <2>3. CASE i \in 1..Len(log)
    <3>1. i \in Entries(r) /\ log'[i] = log[i]
      BY <2>1, <2>3, JudgesOldEntries, JudgesLog
    <3>2. x \in Announced(r)
      BY <1>1, <2>1, <3>1 DEF Entered
    <3>3. PICK j \in DOMAIN feed : feed[j].rule = r /\ x = feed[j].measured
      BY <3>2 DEF Announced
    <3>4. j \in DOMAIN feed' /\ feed'[j] = feed[j]
      BY <3>3, JudgesFeed, OldLog
    <3> QED
      BY <3>3, <3>4 DEF Announced
  <2>4. CASE i \in Len(log) + 1..Len(log')
    <3>1. PICK k \in Evaluated(meas', m) : log'[i] = Judgements(meas', m)[k]
      BY <2>4, JudgesLog
    <3>2. rules[k].id = r /\ x = m.id
      BY <2>1, <2>2, <3>1, JudgementOf
    <3>3. k \in Fired(meas', m)
      BY <2>1, <2>4, <3>1, <3>2, JudgesNewEntry
    <3>4. PICK j \in Len(feed) + 1..Len(feed') : feed'[j].rule = rules[k].id /\ feed'[j].measured = m.id
      BY <3>3, JudgesFeed
    <3>5. j \in DOMAIN feed'
      BY <3>4, JudgesFeed
    <3> QED
      BY <3>2, <3>4, <3>5 DEF Announced
  <2> QED
    BY <2>2, <2>3, <2>4, JudgesLog
<1> QED
  BY <1>2, <1>3

LEMMA JudgesEvents ==
  ASSUME AlertsInv, NEW m, Judges(m)
  PROVE  EventsAreEntries' /\ HistoryNotReplayed'
<1>1. issued' = issued /\ known' = known /\ rules' = rules
  BY DEF Judges
<1>2. ASSUME NEW k \in Fired(meas', m)
      PROVE  k \in Evaluated(meas', m) /\ rules[k].id \in 1..issued - 1 /\ m.id \notin known[rules[k].id]
  <2>1. k \in Evaluated(meas', m)
    BY DEF Fired
  <2> QED
    BY <2>1, EvaluatedRule, JudgedOnce
<1>3. ASSUME NEW i \in 1..Len(feed), NEW k \in Evaluated(meas', m), feed[i].rule = rules[k].id
      PROVE  feed[i].measured # m.id
  <2> DEFINE r == rules[k].id
  <2>1. r \in 1..issued - 1
    BY EvaluatedRule
  <2>2. feed[i].measured \in Announced(r)
    BY <1>3, OldLog DEF Announced
  <2>3. Announced(r) = Entered(r)
    BY <2>1 DEF Announced, Entered, AlertsInv, EventsAreEntries
  <2>4. PICK n \in Entries(r) : feed[i].measured = log[n].measured
    BY <2>2, <2>3 DEF Entered
  <2>5. n \in DOMAIN log /\ log[n].rule = rules[k].id
    BY DEF Entries
  <2> QED
    BY <2>4, <2>5, JudgedOnce
<1>4. ASSUME NEW i \in DOMAIN feed', NEW j \in DOMAIN feed', feed'[i] = feed'[j] PROVE i = j
  <2>1. ASSUME NEW x \in 1..Len(feed), NEW y \in Len(feed) + 1..Len(feed'), feed'[x] = feed'[y] PROVE FALSE
    <3>1. feed'[x] = feed[x]
      BY JudgesFeed
    <3>2. PICK k \in Fired(meas', m) : feed'[y].rule = rules[k].id /\ feed'[y].measured = m.id
      BY JudgesFeed
    <3> QED
      BY <1>2, <1>3, <2>1, <3>1, <3>2
  <2>2. CASE i \in 1..Len(feed) /\ j \in 1..Len(feed)
    <3>1. feed[i] = feed[j] /\ i \in DOMAIN feed /\ j \in DOMAIN feed
      BY <1>4, <2>2, JudgesFeed, OldLog
    <3> QED
      BY <3>1 DEF AlertsInv, EventsAreEntries
  <2>3. CASE i \in Len(feed) + 1..Len(feed') /\ j \in Len(feed) + 1..Len(feed')
    BY <1>4, <2>3 DEF Judges, Extends
  <2> QED
    BY <1>4, <2>1, <2>2, <2>3, JudgesFeed
<1>5. EventsAreEntries'
  <2>1. \A r \in 1..issued - 1 : Announced(r)' = Entered(r)'
    BY JudgesAnnounces
  <2> QED
    BY <1>1, <1>4, <2>1 DEF EventsAreEntries, Announced, Entered
<1>6. ASSUME NEW i \in DOMAIN feed' PROVE feed'[i].measured \notin known[feed'[i].rule]
  <2>1. CASE i \in 1..Len(feed)
    <3>1. feed'[i] = feed[i] /\ i \in DOMAIN feed
      BY <2>1, JudgesFeed, OldLog
    <3> QED
      BY <3>1 DEF AlertsInv, OnlyNews, HistoryNotReplayed
  <2>2. CASE i \in Len(feed) + 1..Len(feed')
    BY <1>2, <2>2, JudgesFeed
  <2> QED
    BY <2>1, <2>2, JudgesFeed
<1> QED
  BY <1>1, <1>5, <1>6 DEF HistoryNotReplayed

-----------------------------------------------------------------------------
(* The invariant after a step that judges, and after one that does not.    *)

ClientsNext ==
  /\ received' \in [Pollers -> Seq(Events)] /\ DOMAIN cursor' = Pollers
  /\ \A p \in Pollers : Given(p)'

LEMMA SameClients ==
  ASSUME AlertsInv, UNCHANGED <<cursor, received>>, Len(feed') \in Nat, Len(feed) <= Len(feed'),
         \A i \in 1..Len(feed) : feed'[i] = feed[i]
  PROVE  ClientsNext
<1>1. received' \in [Pollers -> Seq(Events)] /\ DOMAIN cursor' = Pollers
  BY DEF AlertsInv, Typed
<1>2. ASSUME NEW p \in Pollers PROVE Given(p)'
  <2>1. Given(p) /\ Len(feed) \in Nat /\ Len(received[p]) \in Nat
    BY OldLog DEF AlertsInv, Typed
  <2>2. CASE cursor[p] = Missing
    BY <2>1, <2>2 DEF Given
  <2>3. CASE cursor[p] # Missing
    <3>1. /\ cursor[p] \in 0..Len(feed) /\ Len(received[p]) <= cursor[p]
          /\ \A i \in 1..Len(received[p]) : received[p][i] = feed[cursor[p] - Len(received[p]) + i]
      BY <2>1, <2>3 DEF Given
    <3>2. \A i \in 1..Len(received[p]) : cursor[p] - Len(received[p]) + i \in 1..Len(feed)
      BY <2>1, <3>1
    <3>3. cursor[p] \in 0..Len(feed')
      BY <2>1, <3>1
    <3>4. \A i \in 1..Len(received[p]) : received[p][i] = feed'[cursor[p] - Len(received[p]) + i]
      BY <3>1, <3>2
    <3> QED
      BY <2>3, <3>1, <3>3, <3>4 DEF Given
  <2> QED
    BY <2>2, <2>3
<1> QED
  BY <1>1, <1>2 DEF ClientsNext

LEMMA NextTypes ==
  ASSUME AlertsInv, NextHistory, ClientsNext, feed' \in Seq(Events), log' \in Seq(Evaluations),
         active' \in BOOLEAN, revision' \in 0..MaxEdits, issued' \in Nat \ {0}, resets' \in 0..MaxResets,
         DOMAIN rules' \subseteq Recs,
         \A k \in DOMAIN rules' : rules'[k].id \in 1..issued' - 1 /\ rules'[k].threshold \in Thresholds,
         \A r \in DOMAIN state' : state'[r].matched \in BOOLEAN /\ state'[r].last \in Nat
  PROVE  Typed'
<1>1. meas' \in Seq(Measurements) /\ fresh' \in 1..MaxMeasured + 1
  BY DEF NextHistory
<1>2. \A i \in 1..Len(meas') : meas'[i].id \in 1..fresh' - 1 /\ meas'[i].start < meas'[i].end
  BY <1>1 DEF NextHistory
<1>3. \A p \in Pollers : cursor'[p] = Missing \/ cursor'[p] \in 0..Len(feed')
  BY DEF ClientsNext, Given
<1>4. TypeOK'
  BY <1>1, <1>2, <1>3 DEF TypeOK
<1>5. revision' \in Nat
  BY AlertsAssumption
<1> QED
  BY <1>1, <1>4, <1>5 DEF Typed, ClientsNext

LEMMA JudgesInv ==
  ASSUME AlertsInv, NEW m, Judges(m), UNCHANGED <<active, revision, clients>>
  PROVE  AlertsInv'
<1>1. UNCHANGED <<rules, issued, resets, known, active, revision, cursor, received>> /\ DOMAIN state' = DOMAIN state
  BY DEF Judges, clients
<1>2. ClientsNext
  BY <1>1, JudgesFeed, SameClients
<1>3. Typed'
  <2>1. NextHistory /\ feed' \in Seq(Events) /\ log' \in Seq(Evaluations)
    BY DEF Judges
  <2>2. /\ active' \in BOOLEAN /\ revision' \in 0..MaxEdits /\ issued' \in Nat \ {0} /\ resets' \in 0..MaxResets
        /\ DOMAIN rules' \subseteq Recs
        /\ \A k \in DOMAIN rules' : rules'[k].id \in 1..issued' - 1 /\ rules'[k].threshold \in Thresholds
    BY <1>1 DEF AlertsInv, Typed, TypeOK
  <2>3. \A r \in DOMAIN state' : state'[r].matched \in BOOLEAN /\ state'[r].last \in Nat
    BY <1>1, RowsPassMore
  <2> QED
    BY <1>2, <2>1, <2>2, <2>3, NextTypes
<1>4. StateForRules'
  BY <1>1, <1>3 DEF Typed, StateForRules, RuleIds, AlertsInv
<1>5. Distinct'
  BY <1>1 DEF Distinct, Judges, NextHistory, AlertsInv
<1>6. Knows'
  <2>1. RuleIds' \subseteq DOMAIN known'
    BY <1>1 DEF AlertsInv, Knows, RuleIds
  <2>2. fresh \in Nat /\ fresh' \in Nat /\ fresh <= fresh'
    BY AlertsAssumption DEF Judges, NextHistory, AlertsInv, Typed, TypeOK
  <2>3. \A r \in DOMAIN known' : r \in Nat /\ r < issued' /\ \A id \in known'[r] : id \in Nat /\ id < fresh'
    BY <1>1, <2>2 DEF AlertsInv, Knows
  <2>4. ASSUME NEW i \in DOMAIN feed' PROVE feed'[i].rule \in DOMAIN known'
    <3>1. CASE i \in 1..Len(feed)
      <4>1. i \in DOMAIN feed /\ feed'[i] = feed[i]
        BY <3>1, JudgesFeed, OldLog
      <4> QED
        BY <1>1, <4>1 DEF AlertsInv, Knows
    <3>2. CASE i \in Len(feed) + 1..Len(feed')
      <4>1. PICK k \in Fired(meas', m) : feed'[i].rule = rules[k].id
        BY <3>2, JudgesFeed
      <4>2. rules[k].id \in RuleIds
        BY DEF Fired, Evaluated, RuleIds
      <4> QED
        BY <1>1, <4>1, <4>2 DEF AlertsInv, Knows
    <3> QED
      BY <3>1, <3>2, JudgesFeed
  <2> QED
    BY <2>1, <2>3, <2>4 DEF Knows
<1>7. Evaluating'
  <2>1. \A i \in DOMAIN log' : Logged(i)'
    BY JudgesLogged
  <2>2. \A r \in DOMAIN state : Remembers(r)' /\ Passes(r)'
    BY JudgesRemembers, JudgesPasses
  <2> QED
    BY <1>1, <2>1, <2>2 DEF Evaluating
<1>8. EventsAreEntries' /\ OnlyNews'
  BY JudgesEvents, JudgesForward DEF OnlyNews
<1> QED
  BY <1>2, <1>3, <1>4, <1>5, <1>6, <1>7, <1>8 DEF AlertsInv, ClientsNext

\* A step that judges nothing and leaves the rules alone.
LEMMA QuietInv ==
  ASSUME AlertsInv, NextHistory, ClientsNext, active' \in BOOLEAN,
         UNCHANGED <<rules, revision, state, feed, issued, resets, log, known>>
  PROVE  AlertsInv'
<1>1. Typed'
  <2>1. feed' \in Seq(Events) /\ log' \in Seq(Evaluations)
    BY DEF AlertsInv, Typed
  <2>2. /\ revision' \in 0..MaxEdits /\ issued' \in Nat \ {0} /\ resets' \in 0..MaxResets
        /\ DOMAIN rules' \subseteq Recs
        /\ \A k \in DOMAIN rules' : rules'[k].id \in 1..issued' - 1 /\ rules'[k].threshold \in Thresholds
        /\ \A r \in DOMAIN state' : state'[r].matched \in BOOLEAN /\ state'[r].last \in Nat
    BY DEF AlertsInv, Typed, TypeOK
  <2> QED
    BY <2>1, <2>2, NextTypes
<1>2. StateForRules'
  BY <1>1 DEF Typed, StateForRules, RuleIds, AlertsInv
<1>3. Distinct'
  BY DEF Distinct, NextHistory, AlertsInv
<1>4. fresh \in Nat /\ fresh' \in Nat /\ fresh <= fresh'
  BY AlertsAssumption DEF NextHistory, AlertsInv, Typed, TypeOK
<1>5. Knows'
  BY <1>4 DEF AlertsInv, Knows, RuleIds
<1>6. ASSUME NEW i \in DOMAIN log' PROVE Logged(i)'
  <2>1. Logged(i) /\ log'[i] = log[i] /\ log[i].measured \in Nat
    BY OldLog DEF AlertsInv, Evaluating, Evaluations
  <2>2. ASSUME NEW j \in DOMAIN meas', meas'[j].id = log[i].measured
        PROVE  log[i].era = resets /\ meas'[j].end = log[i].end
    <3>1. PICK l \in DOMAIN meas : meas[l] = meas'[j]
      BY <2>1, <2>2 DEF Logged, NextHistory
    <3> QED
      BY <2>1, <2>2, <3>1 DEF Logged
  <2>3. log[i].measured < fresh'
    BY <1>4, <2>1 DEF Logged
  <2> QED
    BY <2>1, <2>2, <2>3 DEF Logged
<1>7. ASSUME NEW r \in DOMAIN state' PROVE Remembers(r)' /\ Passes(r)'
  <2>1. Remembers(r)'
    BY DEF AlertsInv, Evaluating, Remembers, InRange
  <2>2. ASSUME NEW j \in DOMAIN meas', meas'[j].id \in known[r]
        PROVE  state[r].last # 0 /\ meas'[j].end <= state[r].last
    <3>1. r \in DOMAIN known /\ meas'[j].id < fresh
      BY <2>2 DEF AlertsInv, StateForRules, Knows
    <3>2. PICK l \in DOMAIN meas : meas[l] = meas'[j]
      BY <3>1 DEF NextHistory
    <3> QED
      BY <2>2, <3>2 DEF AlertsInv, Evaluating, Passes
  <2> QED
    BY <2>1, <2>2 DEF Passes
<1>8. EventsAreEntries' /\ OnlyNews'
  BY DEF AlertsInv, EventsAreEntries, Entries, OnlyNews, ForwardOnly, HistoryNotReplayed
<1> QED
  BY <1>1, <1>2, <1>3, <1>5, <1>6, <1>7, <1>8 DEF AlertsInv, Evaluating, ClientsNext

LEMMA AddKeeps ==
  ASSUME AlertsInv, NEW w \in Windows, NEW st \in {"success", "unavailable"}, NEW vs \in Values, NEW v \in Versions,
         NEW evaluate \in BOOLEAN, AddMeasurement(w, st, vs, v, evaluate)
  PROVE  AlertsInv'
<1>1. /\ NextHistory
      /\ UNCHANGED <<active, rules, revision, clients, issued, resets, known>>
      /\ \/ UNCHANGED <<state, feed, log>>
         \/ \E j \in DOMAIN meas' : meas'[j] \in Measurements /\ Evaluate(meas', meas'[j])
  BY AddedHistory
<1>2. CASE UNCHANGED <<state, feed, log>>
  <2>1. ClientsNext
    <3>1. UNCHANGED <<cursor, received, feed>> /\ Len(feed) \in Nat
      BY <1>1, <1>2, OldLog DEF clients
    <3> QED
      BY <3>1, SameClients
  <2>2. active' \in BOOLEAN
    BY <1>1 DEF AlertsInv, Typed, TypeOK
  <2> QED
    BY <1>1, <1>2, <2>1, <2>2, QuietInv
<1>3. ASSUME NEW m \in Measurements, Evaluate(meas', m), \E j \in DOMAIN meas' : meas'[j] = m
      PROVE  AlertsInv'
  <2>1. Judges(m)
    BY <1>1, <1>3, EvaluateAdds DEF Judges
  <2> QED
    BY <1>1, <2>1, JudgesInv
<1> QED
  BY <1>1, <1>2, <1>3

-----------------------------------------------------------------------------
(* The other steps on measurements, and polling.                           *)

LEMMA ResetKeeps ==
  ASSUME AlertsInv, NEW w \in Windows, NEW vs \in Values, NEW v \in Versions, w[1] >= Day, Reset(w[1], vs, v)
  PROVE  AlertsInv'
<1> DEFINE start == w[1]
           m == New(<<start - Day, start>>, "success", vs, v)
<1>1. /\ resets < MaxResets /\ fresh <= MaxMeasured
      /\ meas' = <<m>> /\ fresh' = fresh + 1 /\ resets' = resets + 1
      /\ state' = [r \in DOMAIN state |-> [matched |-> FALSE, last |-> start]]
      /\ UNCHANGED <<active, rules, revision, feed, cursor, received, issued, log, known>>
  BY DEF Reset, Rearmed, clients
<1>2. start \in Nat /\ start >= 2 /\ fresh \in 1..MaxMeasured + 1 /\ MaxMeasured \in Nat /\ resets \in 0..MaxResets
      /\ MaxResets \in Nat
  BY AlertsAssumption DEF AlertsInv, Typed, TypeOK, Day
<1>3. m \in Measurements /\ m.id = fresh /\ m.start < m.end
  <2>1. start - 2 \in Nat /\ start \in Nat \ {0} /\ fresh \in Nat /\ start - 2 < start
    BY <1>2
  <2>2. m = [id |-> fresh, start |-> start - 2, end |-> start, status |-> "success", values |-> vs, version |-> v]
    BY DEF New, Day
  <2> HIDE DEF m, start
  <2> QED
    BY <2>1, <2>2 DEF Measurements
<1> HIDE DEF m, start
<1>4. DOMAIN meas' = {1} /\ meas'[1] = m /\ meas' \in Seq(Measurements) /\ fresh' \in 1..MaxMeasured + 1
  BY <1>1, <1>2, <1>3
<1>5. NextHistory
  <2>1. m.id \in 1..fresh' - 1 /\ ~(m.id < fresh) /\ fresh <= fresh'
    BY <1>1, <1>2, <1>3
  <2>2. m.end <= m.end
    BY <1>3 DEF Measurements
  <2> QED
    BY <1>3, <1>4, <2>1, <2>2 DEF NextHistory
<1>6. ClientsNext
  BY <1>1, OldLog, SameClients
<1>7. DOMAIN state' = DOMAIN state /\ \A r \in DOMAIN state : state'[r] = [matched |-> FALSE, last |-> start]
  BY <1>1
<1>8. Typed'
  <2>1. feed' \in Seq(Events) /\ log' \in Seq(Evaluations)
    BY <1>1 DEF AlertsInv, Typed
  <2>2. /\ active' \in BOOLEAN /\ revision' \in 0..MaxEdits /\ issued' \in Nat \ {0}
        /\ DOMAIN rules' \subseteq Recs
        /\ \A k \in DOMAIN rules' : rules'[k].id \in 1..issued' - 1 /\ rules'[k].threshold \in Thresholds
    BY <1>1 DEF AlertsInv, Typed, TypeOK
  <2>3. resets' \in 0..MaxResets
    BY <1>1, <1>2
  <2>4. \A r \in DOMAIN state' : state'[r].matched \in BOOLEAN /\ state'[r].last \in Nat
    <3>1. \A r \in DOMAIN state' : state'[r].matched = FALSE /\ state'[r].last = start
      BY <1>7
    <3> QED
      BY <1>2, <3>1
  <2> QED
    BY <1>5, <1>6, <2>1, <2>2, <2>3, <2>4, NextTypes
<1>9. StateForRules'
  BY <1>1, <1>7, <1>8 DEF Typed, StateForRules, RuleIds, AlertsInv
<1>10. Distinct'
  BY <1>1, <1>5 DEF Distinct, NextHistory, AlertsInv
<1>11. Knows'
  <2>1. \A r \in DOMAIN known : \A id \in known[r] : id \in Nat /\ id < fresh + 1
    BY <1>2 DEF AlertsInv, Knows
  <2> QED
    BY <1>1, <2>1 DEF AlertsInv, Knows, RuleIds
<1>12. \A i \in DOMAIN log : Logged(i) /\ log[i].era \in Nat /\ log[i].measured \in Nat
  BY OldLog DEF AlertsInv, Evaluating, Evaluations
<1>13. \A i \in DOMAIN log : log[i].era # resets + 1 /\ log[i].era <= resets + 1 /\ log[i].measured # fresh
                             /\ log[i].measured < fresh + 1 /\ log[i].rule < issued
  BY <1>2, <1>12 DEF Logged
<1>14. ASSUME NEW i \in DOMAIN log' PROVE Logged(i)'
  <2>1. i \in DOMAIN log /\ log'[i] = log[i]
    BY <1>1
  <2>2. \A j \in DOMAIN meas' : meas'[j].id # log[i].measured
    BY <1>3, <1>4, <1>13, <2>1
  <2> QED
    BY <1>1, <1>13, <2>1, <2>2 DEF Logged
<1>15. ASSUME NEW r \in DOMAIN state' PROVE Remembers(r)' /\ Passes(r)'
  <2>1. ~InRange(r)' /\ state'[r].matched = FALSE
    BY <1>1, <1>7, <1>13 DEF InRange
  <2>2. \A j \in DOMAIN meas' : meas'[j].id \notin known[r]
    <3>1. r \in DOMAIN known
      BY <1>7 DEF AlertsInv, StateForRules, Knows
    <3>2. fresh \notin known[r]
      BY <1>2, <3>1 DEF AlertsInv, Knows
    <3> QED
      BY <1>3, <1>4, <3>2
  <2> QED
    BY <1>1, <2>1, <2>2 DEF Remembers, Passes
<1>16. EventsAreEntries' /\ OnlyNews'
  BY <1>1 DEF AlertsInv, EventsAreEntries, Entries, OnlyNews, ForwardOnly, HistoryNotReplayed
<1> QED
  BY <1>6, <1>8, <1>9, <1>10, <1>11, <1>14, <1>15, <1>16 DEF AlertsInv, Evaluating, ClientsNext

LEMMA PollKeeps ==
  ASSUME AlertsInv, NEW p \in Pollers, Poll(p)
  PROVE  AlertsInv'
<1> DEFINE c == cursor[p]
           hi == IF c + Limit <= Len(feed) THEN c + Limit ELSE Len(feed)
           page == SubSeq(feed, c + 1, hi)
<1>1. UNCHANGED <<active, meas, rules, revision, state, feed, fresh, issued, resets, log, known>>
  BY DEF Poll, settings
<1>2. /\ \A q \in Pollers : Given(q)
      /\ received \in [Pollers -> Seq(Events)] /\ DOMAIN cursor = Pollers
      /\ feed \in Seq(Events) /\ Len(feed) \in Nat
  BY OldLog DEF AlertsInv, Typed
<1>3. ClientsNext
  <2>1. CASE c = Missing
    <3>1. cursor' = [cursor EXCEPT ![p] = Len(feed)] /\ received' = received
      BY <2>1 DEF Poll
    <3>2. received[p] = << >> /\ Len(feed) # Missing
      BY <1>2, <2>1, AlertsAssumption DEF Given
    <3>3. Given(p)'
      <4>1. cursor'[p] = Len(feed) /\ received'[p] = << >> /\ feed' = feed
        BY <1>1, <1>2, <3>1, <3>2
      <4> QED
        BY <1>2, <3>2, <4>1 DEF Given
    <3>4. ASSUME NEW q \in Pollers, q # p PROVE Given(q)'
      <4>1. cursor'[q] = cursor[q] /\ received'[q] = received[q] /\ feed' = feed /\ Given(q)
        BY <1>1, <1>2, <3>1, <3>4
      <4> QED
        BY <4>1 DEF Given
    <3>5. received' \in [Pollers -> Seq(Events)] /\ DOMAIN cursor' = Pollers
      BY <1>2, <3>1
    <3> QED
      BY <3>3, <3>4, <3>5 DEF ClientsNext
  <2>2. CASE c # Missing
    <3>1. /\ c < Len(feed)
          /\ cursor' = [cursor EXCEPT ![p] = c + Len(page)]
          /\ received' = [received EXCEPT ![p] = received[p] \o page]
      BY <2>2 DEF Poll, NextCursor
    <3>2. /\ c \in 0..Len(feed) /\ Len(received[p]) <= c /\ Len(received[p]) \in Nat
          /\ \A i \in 1..Len(received[p]) : received[p][i] = feed[c - Len(received[p]) + i]
      BY <1>2, <2>2 DEF Given
    <3>3. hi \in Nat /\ c < hi /\ hi <= Len(feed)
      BY <1>2, <3>1, <3>2, AlertsAssumption
    <3> HIDE DEF hi
    <3>4. /\ page \in Seq(Events) /\ Len(page) = hi - c
          /\ \A i \in 1..hi - c : page[i] = feed[c + i]
      <4>1. \A i \in c + 1..hi : feed[i] \in Events
        BY <1>2, <3>2, <3>3
      <4>2. c + 1 \in Int /\ hi \in Int /\ c + 1 <= hi /\ hi - (c + 1) + 1 = hi - c
        BY <3>2, <3>3
      <4>3. /\ page \in Seq(Events) /\ Len(page) = hi - (c + 1) + 1
            /\ \A i \in 1..hi - (c + 1) + 1 : page[i] = feed[(c + 1) + i - 1]
        BY <4>1, <4>2, SubSeqProperties
      <4>4. \A i \in 1..hi - c : (c + 1) + i - 1 = c + i
        BY <3>2, <3>3
      <4> HIDE DEF page
      <4> QED
        BY <4>2, <4>3, <4>4
    <3> HIDE DEF page, c
    <3>5. cursor'[p] = hi /\ DOMAIN cursor' = Pollers
      BY <1>2, <3>1, <3>2, <3>3, <3>4
    <3>6. /\ received'[p] = received[p] \o page /\ received[p] \in Seq(Events)
          /\ received' \in [Pollers -> Seq(Events)]
      BY <1>2, <3>1, <3>4
    <3>7. /\ Len(received'[p]) = Len(received[p]) + (hi - c)
          /\ \A i \in 1..Len(received[p]) : received'[p][i] = received[p][i]
          /\ \A i \in 1..hi - c : received'[p][Len(received[p]) + i] = page[i]
      <4>1. Len(received'[p]) = Len(received[p]) + (hi - c)
        <5>1. Len(received[p] \o page) = Len(received[p]) + Len(page)
          BY <3>4, <3>6, ConcatProperties
        <5> QED
          BY <3>4, <3>6, <5>1
      <4>2. \A i \in 1..Len(received[p]) : received'[p][i] = received[p][i]
        BY <3>2, <3>4, <3>6
      <4>3. ASSUME NEW i \in 1..hi - c PROVE received'[p][Len(received[p]) + i] = page[i]
        <5>1. /\ Len(received[p]) + i \in 1..Len(received[p]) + Len(page)
              /\ Len(received[p]) + i > Len(received[p]) /\ (Len(received[p]) + i) - Len(received[p]) = i
          BY <3>2, <3>3, <3>4
        <5>2. (received[p] \o page)[Len(received[p]) + i] = page[(Len(received[p]) + i) - Len(received[p])]
          BY <3>4, <3>6, <5>1
        <5> QED
          BY <3>6, <5>1, <5>2
      <4> QED
        BY <4>1, <4>2, <4>3
    <3>8. ASSUME NEW i \in 1..Len(received'[p])
          PROVE  received'[p][i] = feed[hi - Len(received'[p]) + i]
      <4>1. hi - Len(received'[p]) + i = c - Len(received[p]) + i
        BY <3>2, <3>3, <3>7
      <4>2. CASE i \in 1..Len(received[p])
        BY <3>2, <3>7, <4>1, <4>2
      <4>3. CASE i \notin 1..Len(received[p])
        <5>1. i - Len(received[p]) \in 1..hi - c /\ Len(received[p]) + (i - Len(received[p])) = i
              /\ c + (i - Len(received[p])) = c - Len(received[p]) + i
          <6>1. Len(received[p]) \in Nat /\ c \in Int /\ hi \in Int /\ Len(received'[p]) = Len(received[p]) + (hi - c)
            BY <3>2, <3>3, <3>7
          <6>2. i \in Int /\ 1 <= i /\ i <= Len(received[p]) + (hi - c) /\ ~(i <= Len(received[p]))
            BY <4>3, <6>1
          <6> QED
            BY <6>1, <6>2
        <5> QED
          BY <3>4, <3>7, <4>1, <5>1
      <4> QED
        BY <4>2, <4>3
    <3>9. Given(p)'
      <4>1. hi # Missing /\ hi \in 0..Len(feed) /\ Len(received'[p]) <= hi
        BY <1>2, <3>2, <3>3, <3>7, AlertsAssumption
      <4> QED
        BY <1>1, <3>5, <3>8, <4>1 DEF Given
    <3>10. ASSUME NEW q \in Pollers, q # p PROVE Given(q)'
      <4>1. cursor'[q] = cursor[q] /\ received'[q] = received[q] /\ feed' = feed /\ Given(q)
        BY <1>1, <1>2, <3>1, <3>10
      <4> QED
        BY <4>1 DEF Given
    <3> QED
      BY <3>5, <3>6, <3>9, <3>10 DEF ClientsNext
  <2> QED
    BY <2>1, <2>2
<1>4. active' \in BOOLEAN
  BY <1>1 DEF AlertsInv, Typed, TypeOK
<1> QED
  BY <1>1, <1>3, <1>4, SameHistory, QuietInv

-----------------------------------------------------------------------------
(* Replacing the rules: old ids stay with their rows, new ids are higher.  *)

LEMMA Starts ==
  ASSUME AlertsInv
  PROVE  /\ StartsAt(meas) \in Nat
         /\ \A j \in DOMAIN meas : StartsAt(meas) # 0 /\ meas[j].end <= StartsAt(meas)
<1>1. DOMAIN meas = 1..Len(meas) /\ \A j \in DOMAIN meas : meas[j] \in Measurements
  BY DEF AlertsInv, Typed
<1>2. CASE meas = << >>
  BY <1>2 DEF StartsAt
<1>3. CASE meas # << >>
  <2> DEFINE T == {meas[i].end : i \in 1..Len(meas)}
             t == CHOOSE x \in T : \A i \in 1..Len(meas) : meas[i].end <= x
  <2>1. PICK i \in DOMAIN meas : \A j \in DOMAIN meas : meas[j].end <= meas[i].end
    BY <1>3 DEF AlertsInv, Distinct
  <2>2. t \in T /\ \A j \in 1..Len(meas) : meas[j].end <= t
    <3>1. meas[i].end \in T /\ \A j \in 1..Len(meas) : meas[j].end <= meas[i].end
      BY <1>1, <2>1
    <3> HIDE DEF T
    <3> QED
      BY <3>1
  <2>3. StartsAt(meas) = t
    BY <1>3 DEF StartsAt
  <2>4. T \subseteq Nat \ {0}
    BY <1>1 DEF Measurements
  <2> HIDE DEF t
  <2> QED
    BY <1>1, <2>2, <2>3, <2>4
<1> QED
  BY <1>2, <1>3

\* What a replacement leaves: rules of the old ids or of new ones, rows and
\* knowledge for them, the old ones as they were.
Replaced ==
  /\ DOMAIN rules' \subseteq Recs /\ \A k \in DOMAIN rules' : rules'[k].threshold \in Thresholds
  /\ issued' \in Nat \ {0} /\ issued <= issued'
  /\ \A k \in DOMAIN rules' :
       \/ k \in DOMAIN rules /\ rules'[k].id = rules[k].id
       \/ rules'[k].id \in issued..issued' - 1
  /\ \A k, l \in DOMAIN rules' : rules'[k].id = rules'[l].id => k = l
  /\ DOMAIN state' = RuleIds' /\ DOMAIN known' = DOMAIN known \cup RuleIds'
  /\ \A r \in DOMAIN state' :
       IF r \in DOMAIN state THEN state'[r] = state[r]
       ELSE state'[r] = [matched |-> FALSE, last |-> StartsAt(meas)]
  /\ \A r \in DOMAIN known' :
       IF r \in DOMAIN known THEN known'[r] = known[r]
       ELSE known'[r] = {meas[i].id : i \in 1..Len(meas)}

LEMMA ReplaceReplaces ==
  ASSUME AlertsInv, NEW e \in Editors, NEW choice \in Selections, Replace(e, choice)
  PROVE  /\ Replaced /\ revision < MaxEdits /\ revision' = revision + 1
         /\ UNCHANGED <<active, meas, feed, cursor, received, fresh, resets, log>>
<1> DEFINE S == {k \in DOMAIN choice : ~Kept(k, choice)}
           new == SetToSeq(S)
           Nth(k) == CHOOSE i \in DOMAIN new : new[i] = k
           selected == [k \in DOMAIN choice |->
             [id |-> IF Kept(k, choice) THEN rules[k].id ELSE issued + Nth(k) - 1, threshold |-> choice[k]]]
           rows == {r \in DOMAIN state : KeepsState(r, selected)}
           ids == {selected[k].id : k \in DOMAIN choice}
<1>1. /\ revision < MaxEdits /\ rules' = selected /\ revision' = revision + 1 /\ issued' = issued + Len(new)
      /\ state' = [r \in rows \cup ids |->
                     IF r \in DOMAIN state THEN state[r] ELSE [matched |-> FALSE, last |-> StartsAt(meas)]]
      /\ known' = [r \in DOMAIN known \cup ids |->
                     IF r \in DOMAIN known THEN known[r] ELSE {meas[i].id : i \in 1..Len(meas)}]
      /\ UNCHANGED <<active, meas, feed, cursor, received, fresh, resets, log>>
  BY Zenon DEF Replace
<1>2. DOMAIN choice \subseteq Recs /\ \A k \in DOMAIN choice : choice[k] \in Thresholds
  BY DEF Selections
<1>3. /\ Len(new) \in Nat /\ DOMAIN new = 1..Len(new)
      /\ \A i, j \in DOMAIN new : new[i] = new[j] => i = j
      /\ \A k \in S : \E i \in DOMAIN new : new[i] = k
  <2>1. IsFiniteSet(S)
    <3>1. S \subseteq Recs
      BY <1>2
    <3> QED
      BY <3>1, AlertsAssumption, FS_Subset
  <2> HIDE DEF S
  <2>2. Cardinality(S) \in Nat /\ DOMAIN new = 1..Cardinality(S) /\ Len(new) = Cardinality(S)
    BY <2>1, SetToSeqOrders
  <2>3. \A i, j \in DOMAIN new : new[i] = new[j] => i = j
    BY <2>1, SetToSeqOrders
  <2>4. \A k \in S : \E i \in DOMAIN new : new[i] = k
    BY <2>1, SetToSeqOrders
  <2> QED
    BY <2>2, <2>3, <2>4
<1>4. issued \in Nat \ {0} /\ \A k \in DOMAIN rules : rules[k].id \in 1..issued - 1
  BY DEF AlertsInv, Typed, TypeOK
<1> HIDE DEF new
<1>5. \A k \in S : Nth(k) \in 1..Len(new) /\ new[Nth(k)] = k
  BY <1>3
<1> HIDE DEF Nth
<1>6. \A k \in DOMAIN choice : selected[k].threshold = choice[k]
                               /\ selected[k].id = IF Kept(k, choice) THEN rules[k].id ELSE issued + Nth(k) - 1
  OBVIOUS
<1>7. DOMAIN selected = DOMAIN choice
  OBVIOUS
<1>8. \A k \in DOMAIN choice : Kept(k, choice) => k \in DOMAIN rules /\ selected[k].id = rules[k].id
  BY <1>6 DEF Kept
<1>9. \A k \in DOMAIN choice : ~Kept(k, choice) =>
        k \in S /\ selected[k].id = issued + Nth(k) - 1 /\ selected[k].id \in issued..issued + Len(new) - 1
  BY <1>3, <1>4, <1>5, <1>6
<1>10. rows \subseteq ids
  BY <1>7 DEF KeepsState
<1>11. ids = RuleIds'
  BY <1>1, <1>7 DEF RuleIds
<1> HIDE DEF selected, rows, ids, S
<1>12. ASSUME NEW k \in DOMAIN choice, NEW l \in DOMAIN choice, selected[k].id = selected[l].id PROVE k = l
  <2>1. CASE Kept(k, choice) /\ Kept(l, choice)
    BY <1>8, <1>12, <2>1 DEF AlertsInv, Distinct
  <2>2. CASE ~Kept(k, choice) /\ ~Kept(l, choice)
    <3>1. k \in S /\ l \in S /\ issued + Nth(k) - 1 = issued + Nth(l) - 1
      BY <1>9, <1>12, <2>2
    <3>2. Nth(k) = Nth(l)
      BY <1>3, <1>4, <1>5, <3>1
    <3> QED
      BY <1>5, <3>1, <3>2
  <2>3. \A x, y \in DOMAIN choice : Kept(x, choice) /\ ~Kept(y, choice) => selected[x].id # selected[y].id
    BY <1>3, <1>4, <1>8, <1>9
  <2> QED
    BY <1>12, <2>1, <2>2, <2>3
<1>13. issued' \in Nat \ {0} /\ issued <= issued'
  BY <1>1, <1>3, <1>4
<1>14. DOMAIN state' = RuleIds' /\ DOMAIN known' = DOMAIN known \cup RuleIds'
  BY <1>1, <1>10, <1>11
<1>15. /\ DOMAIN rules' \subseteq Recs /\ \A k \in DOMAIN rules' : rules'[k].threshold \in Thresholds
       /\ \A k, l \in DOMAIN rules' : rules'[k].id = rules'[l].id => k = l
  BY <1>1, <1>2, <1>6, <1>7, <1>12
<1>16. ASSUME NEW k \in DOMAIN rules'
       PROVE  (k \in DOMAIN rules /\ rules'[k].id = rules[k].id) \/ rules'[k].id \in issued..issued' - 1
  <2>1. k \in DOMAIN choice /\ rules'[k].id = selected[k].id /\ issued' = issued + Len(new)
    BY <1>1, <1>7
  <2>2. CASE Kept(k, choice)
    BY <1>8, <2>1, <2>2
  <2>3. CASE ~Kept(k, choice)
    <3>1. selected[k].id \in issued..issued + Len(new) - 1
      BY <1>9, <2>1, <2>3
    <3>2. issued' - 1 = issued + Len(new) - 1
      BY <1>3, <1>4, <2>1
    <3> QED
      BY <2>1, <3>1, <3>2
  <2> QED
    BY <2>2, <2>3
<1>17. /\ \A r \in DOMAIN state' :
            IF r \in DOMAIN state THEN state'[r] = state[r]
            ELSE state'[r] = [matched |-> FALSE, last |-> StartsAt(meas)]
       /\ \A r \in DOMAIN known' :
            IF r \in DOMAIN known THEN known'[r] = known[r]
            ELSE known'[r] = {meas[i].id : i \in 1..Len(meas)}
  BY <1>1
<1> QED
  BY <1>1, <1>13, <1>14, <1>15, <1>16, <1>17 DEF Replaced

LEMMA ReplaceKeeps ==
  ASSUME AlertsInv, Replaced, revision < MaxEdits, revision' = revision + 1,
         UNCHANGED <<active, meas, feed, cursor, received, fresh, resets, log>>
  PROVE  AlertsInv'
<1>1. /\ issued \in Nat \ {0} /\ issued' \in Nat \ {0} /\ issued <= issued'
      /\ \A k \in DOMAIN rules : rules[k].id \in 1..issued - 1
  BY DEF Replaced, AlertsInv, Typed, TypeOK
<1>2. NextHistory
  BY SameHistory
<1>3. ClientsNext
  BY OldLog, SameClients
<1>4. ASSUME NEW r \in RuleIds' PROVE r \in 1..issued' - 1 /\ (r \in DOMAIN state \/ r \in issued..issued' - 1)
  <2>1. PICK k \in DOMAIN rules' : r = rules'[k].id
    BY DEF RuleIds
  <2>2. (k \in DOMAIN rules /\ r = rules[k].id) \/ r \in issued..issued' - 1
    BY <2>1 DEF Replaced
  <2>3. CASE k \in DOMAIN rules /\ r = rules[k].id
    BY <1>1, <2>3 DEF AlertsInv, StateForRules, RuleIds
  <2> QED
    BY <1>1, <2>2, <2>3
<1>5. /\ \A r \in DOMAIN state : r < issued /\ r \in DOMAIN known
      /\ \A r \in DOMAIN known : r < issued
  BY DEF AlertsInv, StateForRules, Knows
<1>6. ASSUME NEW r \in DOMAIN state'
      PROVE  \/ r \in DOMAIN state /\ state'[r] = state[r] /\ known'[r] = known[r]
             \/ /\ r \in issued..issued' - 1
                /\ state'[r].matched = FALSE /\ state'[r].last = StartsAt(meas)
                /\ \A j \in DOMAIN meas : meas[j].id \in known'[r]
  <2>1. r \in RuleIds' /\ r \in DOMAIN known'
    BY DEF Replaced
  <2>2. CASE r \in DOMAIN state
    BY <1>5, <2>1, <2>2 DEF Replaced
  <2>3. CASE r \notin DOMAIN state
    <3>1. r \in issued..issued' - 1
      BY <1>4, <2>1, <2>3
    <3>2. state'[r] = [matched |-> FALSE, last |-> StartsAt(meas)]
      BY <2>3 DEF Replaced
    <3>3. known'[r] = {meas[i].id : i \in 1..Len(meas)}
      <4>1. r \notin DOMAIN known
        BY <1>1, <1>5, <3>1
      <4> QED
        BY <2>1, <4>1 DEF Replaced
    <3>4. DOMAIN meas = 1..Len(meas)
      BY DEF AlertsInv, Typed
    <3> QED
      BY <3>1, <3>2, <3>3, <3>4
  <2> QED
    BY <2>2, <2>3
<1>7. Typed'
  <2>1. feed' \in Seq(Events) /\ log' \in Seq(Evaluations)
    BY DEF AlertsInv, Typed
  <2>2. active' \in BOOLEAN /\ revision' \in 0..MaxEdits /\ resets' \in 0..MaxResets
    BY AlertsAssumption DEF AlertsInv, Typed, TypeOK
  <2>3. \A k \in DOMAIN rules' : rules'[k].id \in 1..issued' - 1 /\ rules'[k].threshold \in Thresholds
    <3>1. \A k \in DOMAIN rules' : rules'[k].id \in RuleIds'
      BY DEF RuleIds
    <3> QED
      BY <1>4, <3>1 DEF Replaced
  <2>4. \A r \in DOMAIN state' : state'[r].matched \in BOOLEAN /\ state'[r].last \in Nat
    BY <1>6, Starts DEF AlertsInv, Typed, TypeOK
  <2>5. DOMAIN rules' \subseteq Recs
    BY DEF Replaced
  <2> QED
    BY <1>1, <1>2, <1>3, <2>1, <2>2, <2>3, <2>4, <2>5, NextTypes
<1>8. StateForRules'
  BY <1>7 DEF Typed, StateForRules, Replaced
<1>9. Distinct'
  BY DEF Distinct, AlertsInv, Replaced
<1>10. Knows'
  <2>1. RuleIds' \subseteq DOMAIN known' /\ DOMAIN known \subseteq DOMAIN known'
    BY DEF Replaced
  <2>2. ASSUME NEW r \in DOMAIN known'
        PROVE  r \in Nat /\ r < issued' /\ \A id \in known'[r] : id \in Nat /\ id < fresh
    <3>1. CASE r \in DOMAIN known
      <4>1. known'[r] = known[r] /\ r \in Nat /\ r < issued /\ \A id \in known[r] : id \in Nat /\ id < fresh
        BY <3>1 DEF Replaced, AlertsInv, Knows
      <4>2. r < issued'
        BY <1>1, <4>1
      <4> QED
        BY <4>1, <4>2
    <3>2. CASE r \notin DOMAIN known
      <4>1. r \in RuleIds' /\ known'[r] = {meas[i].id : i \in 1..Len(meas)}
        BY <3>2 DEF Replaced
      <4>2. \A i \in 1..Len(meas) : meas[i].id \in 1..fresh - 1 /\ fresh \in Nat
        BY AlertsAssumption DEF AlertsInv, Typed, TypeOK
      <4> QED
        BY <1>1, <1>4, <4>1, <4>2
    <3> QED
      BY <3>1, <3>2
  <2> QED
    BY <2>1, <2>2 DEF Knows, AlertsInv
<1>11. ASSUME NEW i \in DOMAIN log'
       PROVE  Logged(i)' /\ log[i].rule < issued
  <2>1. Logged(i) /\ i \in DOMAIN log /\ log[i].rule \in Nat
    BY OldLog DEF AlertsInv, Evaluating, Evaluations
  <2>2. log[i].rule < issued /\ log[i].rule < issued'
    BY <1>1, <2>1 DEF Logged
  <2>3. ASSUME log[i].rule \in DOMAIN state' 
        PROVE  log[i].rule \in DOMAIN state /\ state'[log[i].rule] = state[log[i].rule]
    <3>1. log[i].rule \notin issued..issued' - 1
      BY <1>1, <2>1, <2>2
    <3> QED
      BY <1>6, <2>3, <3>1
  <2> QED
    BY <2>1, <2>2, <2>3 DEF Logged
<1>12. ASSUME NEW r \in DOMAIN state' PROVE Remembers(r)' /\ Passes(r)'
  <2>1. CASE r \in DOMAIN state /\ state'[r] = state[r] /\ known'[r] = known[r]
    BY <2>1 DEF AlertsInv, Evaluating, Remembers, InRange, Passes
  <2>2. CASE /\ r \in issued..issued' - 1
             /\ state'[r].matched = FALSE /\ state'[r].last = StartsAt(meas)
             /\ \A j \in DOMAIN meas : meas[j].id \in known'[r]
    <3>1. \A i \in DOMAIN log : log[i].rule # r
      BY <1>1, <1>11, <2>2, OldLog DEF Evaluations
    <3>2. ~InRange(r)'
      BY <3>1 DEF InRange
    <3>3. Remembers(r)'
      BY <2>2, <3>2 DEF Remembers
    <3>4. Passes(r)'
      BY <2>2, Starts DEF Passes
    <3> QED
      BY <3>3, <3>4
  <2> QED
    BY <1>6, <2>1, <2>2
<1>13. EventsAreEntries'
  <2>1. ASSUME NEW r \in 1..issued' - 1
        PROVE  {feed[i].measured : i \in {j \in DOMAIN feed : feed[j].rule = r}}
               = {log[i].measured : i \in Entries(r)}
    <3>1. CASE r \in 1..issued - 1
      BY <3>1 DEF AlertsInv, EventsAreEntries
    <3>2. CASE r \notin 1..issued - 1
      <4>1. ~(r < issued)
        BY <1>1, <2>1, <3>2
      <4>2. \A j \in DOMAIN feed : feed[j].rule # r
        BY <1>5, <4>1 DEF AlertsInv, Knows
      <4>3. \A i \in DOMAIN log : log[i].rule # r
        BY <1>11, <4>1
      <4>4. Entries(r) = {}
        BY <4>3 DEF Entries
      <4>5. {j \in DOMAIN feed : feed[j].rule = r} = {}
        BY <4>2
      <4> QED
        BY <4>4, <4>5
    <3> QED
      BY <3>1, <3>2
  <2>2. \A i, j \in DOMAIN feed : feed[i] = feed[j] => i = j
    BY DEF AlertsInv, EventsAreEntries
  <2>3. feed' = feed /\ log' = log
    OBVIOUS
  <2>4. \A r \in 1..issued' - 1 :
          {feed'[i].measured : i \in {j \in DOMAIN feed' : feed'[j].rule = r}}
          = {log'[i].measured : i \in Entries(r)'}
    <3>1. \A r : Entries(r)' = Entries(r)
      BY <2>3, Zenon DEF Entries
    <3> TAKE r \in 1..issued' - 1
    <3>2. {log'[i].measured : i \in Entries(r)'} = {log[i].measured : i \in Entries(r)}
      BY <2>3, <3>1
    <3>3. {feed'[i].measured : i \in {j \in DOMAIN feed' : feed'[j].rule = r}}
          = {feed[i].measured : i \in {j \in DOMAIN feed : feed[j].rule = r}}
      BY <2>3
    <3> QED
      BY <2>1, <3>2, <3>3
  <2> QED
    BY <2>2, <2>3, <2>4, Zenon DEF EventsAreEntries
<1>14. OnlyNews'
  <2>1. \A i \in DOMAIN feed : feed[i].rule \in DOMAIN known /\ known'[feed[i].rule] = known[feed[i].rule]
    BY DEF Replaced, AlertsInv, Knows
  <2> QED
    BY <2>1 DEF AlertsInv, OnlyNews, ForwardOnly, HistoryNotReplayed
<1> QED
  BY <1>3, <1>7, <1>8, <1>9, <1>10, <1>11, <1>12, <1>13, <1>14 DEF AlertsInv, Evaluating, ClientsNext

-----------------------------------------------------------------------------
(* The theorems.                                                           *)

LEMMA InitAlerts ==
  ASSUME Init
  PROVE  AlertsInv
<1>1. DOMAIN Empty = {}
  BY DEF Empty
<1>2. TypeOK
  BY <1>1, AlertsAssumption DEF Init, TypeOK
<1>3. Typed
  <2>1. meas \in Seq(Measurements) /\ feed \in Seq(Events) /\ log \in Seq(Evaluations)
    BY DEF Init
  <2>2. received \in [Pollers -> Seq(Events)] /\ DOMAIN cursor = Pollers
    BY DEF Init
  <2> QED
    BY <1>2, <2>1, <2>2 DEF Typed, Init
<1>4. RuleIds = {} /\ DOMAIN state = {} /\ DOMAIN known = {}
  BY <1>1 DEF Init, RuleIds
<1>5. DOMAIN meas = {} /\ DOMAIN feed = {} /\ DOMAIN log = {} /\ issued = 1
  BY DEF Init
<1>6. StateForRules /\ Distinct /\ Knows /\ Evaluating
  BY <1>1, <1>2, <1>4, <1>5 DEF Init, StateForRules, Distinct, Knows, Evaluating
<1>7. EventsAreEntries /\ OnlyNews
  BY <1>5 DEF EventsAreEntries, OnlyNews, ForwardOnly, HistoryNotReplayed
<1>8. \A p \in Pollers : Given(p)
  BY DEF Init, Given
<1> QED
  BY <1>3, <1>6, <1>7, <1>8 DEF AlertsInv

LEMMA StepAlerts ==
  ASSUME AlertsInv, [Next]_vars
  PROVE  AlertsInv'
<1>1. ASSUME NEW w \in Windows, NEW st \in {"success", "unavailable"}, NEW vs \in Values, NEW v \in Versions,
             NEW b \in BOOLEAN, AddMeasurement(w, st, vs, v, b)
      PROVE  AlertsInv'
  BY <1>1, AddKeeps
<1>2. ASSUME NEW on \in BOOLEAN, SetActive(on)
      PROVE  AlertsInv'
  <2>1. /\ active' \in BOOLEAN
        /\ UNCHANGED <<meas, rules, revision, state, feed, cursor, received, fresh, issued, resets, log, known>>
    BY <1>2 DEF SetActive, settings, clients
  <2> QED
    BY <2>1, OldLog, SameClients, SameHistory, QuietInv
<1>3. ASSUME NEW w \in Windows, NEW vs \in Values, NEW v \in Versions, w[1] >= Day, Reset(w[1], vs, v)
      PROVE  AlertsInv'
  BY <1>3, ResetKeeps
<1>4. ASSUME NEW e \in Editors, Open(e)
      PROVE  AlertsInv'
  <2>1. /\ UNCHANGED <<active, meas, rules, revision, state, feed, cursor, received, fresh, issued, resets, log, known>>
        /\ active \in BOOLEAN
    BY <1>4 DEF Open, settings, AlertsInv, Typed, TypeOK
  <2> QED
    BY <2>1, OldLog, SameClients, SameHistory, QuietInv
<1>5. ASSUME NEW e \in Editors, NEW choice \in Selections, Replace(e, choice)
      PROVE  AlertsInv'
  BY <1>5, ReplaceReplaces, ReplaceKeeps
<1>6. ASSUME NEW p \in Pollers, Poll(p)
      PROVE  AlertsInv'
  BY <1>6, PollKeeps
<1>7. CASE UNCHANGED vars
  <2>1. /\ UNCHANGED <<active, meas, rules, revision, state, feed, cursor, received, fresh, issued, resets, log, known>>
        /\ active \in BOOLEAN
    BY <1>7 DEF vars, settings, clients, AlertsInv, Typed, TypeOK
  <2> QED
    BY <2>1, OldLog, SameClients, SameHistory, QuietInv
<1> QED
  BY <1>1, <1>2, <1>3, <1>4, <1>5, <1>6, <1>7 DEF Next

LEMMA AlertsAlways == Spec => []AlertsInv
<1>1. Init => AlertsInv
  BY InitAlerts
<1>2. AlertsInv /\ [Next]_vars => AlertsInv'
  BY StepAlerts
<1> QED
  BY <1>1, <1>2, PTL DEF Spec

\* Across edits and resets exactly the rules in force have a row of evaluation
\* state, which evaluate_measurement reads without looking.
THEOREM StateIsThere == Spec => []StateForRules
<1>1. AlertsInv => StateForRules
  BY DEF AlertsInv
<1> QED
  BY <1>1, AlertsAlways, PTL

\* Whatever is measured, corrected, edited and reset in whatever order, the
\* feed holds one event for each entry of a rule into its range and no other.
THEOREM OneEventPerEntry == Spec => []EventsAreEntries
<1>1. AlertsInv => EventsAreEntries
  BY DEF AlertsInv
<1> QED
  BY <1>1, AlertsAlways, PTL

\* A rule judges periods forwards between resets, and no event is about a
\* measurement that was there when its rule was chosen.
THEOREM EventsAreNews == Spec => []OnlyNews
<1>1. AlertsInv => OnlyNews
  BY DEF AlertsInv
<1> QED
  BY <1>1, AlertsAlways, PTL

\* A client that polls with the cursor it was given receives every event after
\* its first poll, once and in order, whatever the size of the page.
THEOREM PollersGetAll == Spec => []FeedInOrder
<1>1. ASSUME AlertsInv PROVE FeedInOrder
  <2>1. ASSUME NEW p \in Pollers, cursor[p] # Missing
        PROVE  received[p] = SubSeq(feed, cursor[p] - Len(received[p]) + 1, cursor[p])
    <3> DEFINE c == cursor[p]
               n == Len(received[p])
               page == SubSeq(feed, c - n + 1, c)
    <3>1. /\ c \in 0..Len(feed) /\ n <= c /\ n \in Nat /\ received[p] \in Seq(Events)
          /\ \A i \in 1..n : received[p][i] = feed[c - n + i]
          /\ Len(feed) \in Nat /\ \A i \in 1..Len(feed) : feed[i] \in Events
      BY <1>1, <2>1, OldLog DEF AlertsInv, Typed, Given
    <3> HIDE DEF c, n
    <3>2. \A i \in c - n + 1..c : feed[i] \in Events
      BY <3>1
    <3>3. c - n + 1 \in Int /\ c \in Int /\ c - (c - n + 1) + 1 = n
      BY <3>1
    <3>4. /\ page \in Seq(Events)
          /\ Len(page) = IF c - n + 1 <= c THEN c - (c - n + 1) + 1 ELSE 0
          /\ \A i \in 1..c - (c - n + 1) + 1 : page[i] = feed[(c - n + 1) + i - 1]
      BY <3>2, <3>3, SubSeqProperties
    <3>5. Len(page) = n /\ \A i \in 1..n : page[i] = feed[c - n + i]
      <4>1. \A i \in 1..n : (c - n + 1) + i - 1 = c - n + i
        BY <3>1
      <4>2. (c - n + 1 <= c) <=> n # 0
        BY <3>1
      <4> HIDE DEF page
      <4> QED
        BY <3>1, <3>3, <3>4, <4>1, <4>2
    <3> HIDE DEF page
    <3>6. received[p] = page
      <4>1. received[p] \in Seq(Events) /\ page \in Seq(Events) /\ Len(received[p]) = Len(page)
        BY <3>1, <3>4, <3>5 DEF n
      <4>2. \A i \in 1..Len(received[p]) : received[p][i] = page[i]
        BY <3>1, <3>5 DEF n
      <4> QED
        BY <4>1, <4>2, SeqEqual
    <3> QED
      BY <3>6 DEF page, c, n
  <2>2. ASSUME NEW p \in Pollers, cursor[p] = Missing PROVE received[p] = << >>
    BY <1>1, <2>2 DEF AlertsInv, Given
  <2> QED
    BY <2>1, <2>2 DEF FeedInOrder
<1> QED
  BY <1>1, AlertsAlways, PTL
=============================================================================
