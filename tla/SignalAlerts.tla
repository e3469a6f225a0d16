---------------------------- MODULE SignalAlerts ----------------------------
(***************************************************************************)
(* The alerts of one signal (signals/alerts.py): users choose rules from   *)
(* the signal's recommendations, every measurement is evaluated in the     *)
(* transaction that saves it, and entering a rule's range is an event in a *)
(* feed that clients poll with a cursor.  A reset (signals/fast_forward_   *)
(* reset.py) starts the evaluation over.                                   *)
(*                                                                         *)
(* Everything but the feed's sequence is kept by signal id, and one step   *)
(* is one transaction.  When measurements arrive is SignalTracking's       *)
(* business: here they come in any order, again and again.                 *)
(***************************************************************************)
EXTENDS Integers, FiniteSets, Sequences, SequencesExt

CONSTANTS
  Recs,         \* recommendation ids
  KindOf,       \* KindOf[k]: "value", "absolute" or "relative" change
  OperatorOf,   \* OperatorOf[k]: "gt", "gte", "lt" or "lte"
  MetricOf,     \* MetricOf[k]: the metric it is about
  Thresholds,   \* thresholds a user may choose
  Windows,      \* windows measured, <<start, end>>
  Values,       \* what may be measured: [Metrics -> Int \cup {Missing}]
  Versions,     \* of pipeline, definition and Sources
  Editors,      \* clients that edit the rules
  Pollers,      \* clients that poll the feed
  Limit,        \* events on a page of the feed
  MaxMeasured,  \* bound: measurements saved
  MaxEdits,     \* bound: revisions of the rules
  MaxResets,    \* bound: resets
  Missing       \* no value

VARIABLES
  active,    \* whether the signal's status is active
  meas,      \* signal_measurements by rowid
  rules,     \* signal_alert_settings: the selected rules by recommendation
  revision,  \* and how often they were saved
  state,     \* signal_alert_state: rows by rule id
  feed,      \* signal_alert_events by sequence
  opened,    \* what each editor has loaded
  cursor,    \* the cursor of each poller, Missing before its first poll
  received,  \* the events each poller was given
  fresh,     \* next measurement id
  issued,    \* next rule id
  resets,    \* resets so far
  log,       \* history: the evaluations that took place
  known      \* history: the measurements there were when a rule was chosen

settings == <<rules, revision, state>>
clients == <<opened, cursor, received>>
vars == <<active, meas, settings, feed, clients, fresh, issued, resets, log, known>>

Day == 2

ASSUME AlertsAssumption ==
  /\ IsFiniteSet(Recs)
  /\ \A k \in Recs : KindOf[k] \in {"value", "absolute", "relative"}
                     /\ OperatorOf[k] \in {"gt", "gte", "lt", "lte"}
  /\ Thresholds \subseteq Int /\ Missing \notin Int
  /\ \A w \in Windows : w[1] \in Nat /\ w[2] \in Nat /\ w[1] < w[2]
  /\ Limit \in Nat \ {0}
  /\ MaxMeasured \in Nat /\ MaxEdits \in Nat /\ MaxResets \in Nat

Empty == [k \in {} |-> Missing]

Init ==
  /\ active = TRUE
  /\ meas = << >>
  /\ rules = Empty
  /\ revision = 0
  /\ state = Empty
  /\ feed = << >>
  /\ opened = [e \in Editors |-> Missing]
  /\ cursor = [p \in Pollers |-> Missing]
  /\ received = [p \in Pollers |-> << >>]
  /\ fresh = 1
  /\ issued = 1
  /\ resets = 0
  /\ log = << >>
  /\ known = Empty

-----------------------------------------------------------------------------
(* evaluate_measurement.                                                   *)

OneDay(m) == m.end - m.start = Day

\* Latest successful period that ends before m starts; of several, a day's and
\* then the newest row.
Earlier(ms, m) ==
  {i \in 1..Len(ms) : ms[i].status = "success" /\ ms[i].end <= m.start /\ ms[i].id # m.id}

Preferred(ms, i, j) ==
  \/ ms[i].end > ms[j].end
  \/ ms[i].end = ms[j].end /\ OneDay(ms[i]) /\ ~OneDay(ms[j])
  \/ ms[i].end = ms[j].end /\ (OneDay(ms[i]) <=> OneDay(ms[j])) /\ i >= j

Baseline(ms, m) ==
  ms[CHOOSE i \in Earlier(ms, m) : \A j \in Earlier(ms, m) : Preferred(ms, i, j)]

\* comparison_limitations: lengths, versions and order.
Comparable(ms, m) ==
  /\ Earlier(ms, m) # {}
  /\ OneDay(Baseline(ms, m))
  /\ Baseline(ms, m).version = m.version

Abs(n) == IF n < 0 THEN -n ELSE n

\* Whether rule k, chosen with threshold t, can be judged by m at all.
Judged(k, ms, m) ==
  LET metric == MetricOf[k]
      before == Baseline(ms, m).values[metric] IN
  /\ m.values[metric] # Missing
  /\ KindOf[k] # "value" => Comparable(ms, m) /\ before # Missing
  /\ KindOf[k] = "relative" => before # 0

\* Both sides of the comparison; a relative change is scaled by its baseline.
Observed(k, ms, m) ==
  LET now == m.values[MetricOf[k]]
      before == Baseline(ms, m).values[MetricOf[k]] IN
  CASE KindOf[k] = "value" -> now
    [] KindOf[k] = "absolute" -> now - before
    [] KindOf[k] = "relative" -> 100 * (now - before)

Scale(k, ms, m) ==
  IF KindOf[k] = "relative" THEN Abs(Baseline(ms, m).values[MetricOf[k]]) ELSE 1

Matches(k, t, ms, m) ==
  LET x == Observed(k, ms, m)
      y == t * Scale(k, ms, m) IN
  CASE OperatorOf[k] = "gt" -> x > y
    [] OperatorOf[k] = "gte" -> x >= y
    [] OperatorOf[k] = "lt" -> x < y
    [] OperatorOf[k] = "lte" -> x <= y

\* Mutant of Passed: any measurement is judged, the last one or older.
PassedNever(row, m) == FALSE

\* A rule judges only what ends after the last it has judged; last is 0 for NULL.
Passed(row, m) == row.last # 0 /\ m.end <= row.last

\* An event is the entry into the range.
Fires(matched, before) == matched /\ ~before

RuleIds == {rules[k].id : k \in DOMAIN rules}
RecOf(r) == CHOOSE k \in DOMAIN rules : rules[k].id = r

\* The rules that m is put to.
Evaluated(ms, m) ==
  {k \in DOMAIN rules : ~Passed(state[rules[k].id], m) /\ Judged(k, ms, m)}

Evaluate(ms, m) ==
  LET ks == Evaluated(ms, m)
      verdict == [k \in ks |-> Matches(k, rules[k].threshold, ms, m)]
      fired == {k \in ks : Fires(verdict[k], state[rules[k].id].matched)}
      order == SetToSeq(ks)
      alarms == SetToSeq(fired) IN
  /\ state' = [r \in DOMAIN state |->
                IF \E k \in ks : rules[k].id = r
                THEN [matched |-> verdict[RecOf(r)], last |-> m.end] ELSE state[r]]
  /\ feed' = feed \o [i \in DOMAIN alarms |-> [rule |-> rules[alarms[i]].id, measured |-> m.id]]
  /\ log' = log \o [i \in DOMAIN order |->
              [rule |-> rules[order[i]].id, measured |-> m.id, end |-> m.end,
               matched |-> verdict[order[i]], era |-> resets]]

-----------------------------------------------------------------------------
(* Measurements, status and resets.                                        *)

\* _insert_measurement: INSERT OR IGNORE on the signature, then the row.
Same(m, n) ==
  /\ m.start = n.start /\ m.end = n.end /\ m.status = n.status
  /\ m.values = n.values /\ m.version = n.version

New(w, st, vs, v) ==
  [id |-> fresh, start |-> w[1], end |-> w[2], status |-> st,
   values |-> IF st = "success" THEN vs ELSE [x \in DOMAIN vs |-> Missing], version |-> v]

\* add_measurement; registrations and baselines are saved without evaluation.
AddMeasurement(w, st, vs, v, evaluate) ==
  LET m == New(w, st, vs, v)
      old == {i \in 1..Len(meas) : Same(meas[i], m)}
      ms == IF old = {} THEN Append(meas, m) ELSE meas
      row == IF old = {} THEN m ELSE meas[CHOOSE i \in old : TRUE] IN
  /\ fresh <= MaxMeasured
  /\ meas' = ms
  /\ fresh' = IF old = {} THEN fresh + 1 ELSE fresh
  /\ IF evaluate /\ active /\ row.status = "success" /\ OneDay(row)
     THEN Evaluate(ms, row)
     ELSE UNCHANGED <<state, feed, log>>
  /\ UNCHANGED <<active, rules, revision, clients, issued, resets, known>>

SetActive(on) ==
  /\ active # on
  /\ active' = on
  /\ UNCHANGED <<meas, settings, feed, clients, fresh, issued, resets, log, known>>

\* Mutant of Rearmed: the state of the rules survives the archived history.
RearmedNot(start) == state

\* The evaluation starts over at the start of the reset.
Rearmed(start) == [r \in DOMAIN state |-> [matched |-> FALSE, last |-> start]]

Reset(start, vs, v) ==
  /\ active /\ resets < MaxResets /\ fresh <= MaxMeasured
  /\ meas' = <<New(<<start - Day, start>>, "success", vs, v)>>
  /\ fresh' = fresh + 1
  /\ state' = Rearmed(start)
  /\ resets' = resets + 1
  /\ UNCHANGED <<active, rules, revision, feed, clients, issued, log, known>>

-----------------------------------------------------------------------------
(* AlertStore: editing the rules, polling the feed.                        *)

\* GET alert-rules.
Open(e) ==
  /\ opened' = [opened EXCEPT ![e] = [revision |-> revision, rules |-> rules]]
  /\ UNCHANGED <<active, meas, settings, feed, cursor, received, fresh, issued, resets, log, known>>

Current(e) == opened[e].revision = revision

\* Mutant of StartsAt: a new rule looks at what was measured before.
StartsAnew(ms) == 0

\* MAX(end_at) of the history, 0 for NULL.
StartsAt(ms) ==
  IF ms = << >> THEN 0
  ELSE CHOOSE t \in {ms[i].end : i \in 1..Len(ms)} : \A i \in 1..Len(ms) : ms[i].end <= t

\* A rule keeps its id while its threshold stays.
Kept(k, choice) == k \in DOMAIN rules /\ rules[k].threshold = choice[k]

\* Mutant of KeepsState: rows of rules given up stay.
KeepsStateAlways(r, selected) == TRUE

KeepsState(r, selected) == r \in {selected[k].id : k \in DOMAIN selected}

\* replace_rules: refused for another revision, nothing to do for the choice
\* that is in force.
Replace(e, choice) ==
  LET new == SetToSeq({k \in DOMAIN choice : ~Kept(k, choice)})
      selected == [k \in DOMAIN choice |->
        [id |-> IF Kept(k, choice) THEN rules[k].id
                ELSE issued + (CHOOSE i \in DOMAIN new : new[i] = k) - 1,
         threshold |-> choice[k]]]
      rows == {r \in DOMAIN state : KeepsState(r, selected)}
      ids == {selected[k].id : k \in DOMAIN choice} IN
  /\ opened[e] # Missing /\ Current(e) /\ revision < MaxEdits
  /\ selected # rules \/ revision = 0
  /\ rules' = selected
  /\ revision' = revision + 1
  /\ issued' = issued + Len(new)
  /\ state' = [r \in rows \cup ids |->
                IF r \in DOMAIN state THEN state[r]
                ELSE [matched |-> FALSE, last |-> StartsAt(meas)]]
  /\ known' = [r \in DOMAIN known \cup ids |->
                IF r \in DOMAIN known THEN known[r] ELSE {meas[i].id : i \in 1..Len(meas)}]
  /\ opened' = [opened EXCEPT ![e] = Missing]
  /\ UNCHANGED <<active, meas, feed, cursor, received, fresh, resets, log>>

\* Mutant of NextCursor: the page's latest_cursor is taken for it.
NextCursorLatest(p, page) == Len(feed)

\* next_cursor: the sequence of the last event of the page, or what was asked.
NextCursor(p, page) == cursor[p] + Len(page)

\* GET signal-alert-events: without a cursor only the newest sequence, with one
\* the next page.
Poll(p) ==
  LET page == SubSeq(feed, cursor[p] + 1,
                     IF cursor[p] + Limit <= Len(feed) THEN cursor[p] + Limit ELSE Len(feed)) IN
  /\ IF cursor[p] = Missing
     THEN /\ cursor' = [cursor EXCEPT ![p] = Len(feed)]
          /\ UNCHANGED received
     ELSE /\ cursor[p] < Len(feed)
          /\ cursor' = [cursor EXCEPT ![p] = NextCursor(p, page)]
          /\ received' = [received EXCEPT ![p] = @ \o page]
  /\ UNCHANGED <<active, meas, settings, feed, opened, fresh, issued, resets, log, known>>

Selections == UNION {[ks -> Thresholds] : ks \in SUBSET Recs}

Next ==
  \/ \E w \in Windows, st \in {"success", "unavailable"}, vs \in Values, v \in Versions, b \in BOOLEAN :
       AddMeasurement(w, st, vs, v, b)
  \/ \E on \in BOOLEAN : SetActive(on)
  \/ \E w \in Windows, vs \in Values, v \in Versions : w[1] >= Day /\ Reset(w[1], vs, v)
  \/ \E e \in Editors : Open(e) \/ \E choice \in Selections : Replace(e, choice)
  \/ \E p \in Pollers : Poll(p)

Spec == Init /\ [][Next]_vars

-----------------------------------------------------------------------------
(* Properties.                                                             *)

\* The values the tables and the clients take.
TypeOK ==
  /\ active \in BOOLEAN
  /\ \A i \in 1..Len(meas) : meas[i].id \in 1..fresh - 1 /\ meas[i].start < meas[i].end
  /\ DOMAIN rules \subseteq Recs
  /\ \A k \in DOMAIN rules : rules[k].id \in 1..issued - 1 /\ rules[k].threshold \in Thresholds
  /\ revision \in 0..MaxEdits
  /\ \A r \in DOMAIN state : state[r].matched \in BOOLEAN /\ state[r].last \in Nat
  /\ \A p \in Pollers : cursor[p] = Missing \/ cursor[p] \in 0..Len(feed)
  /\ fresh \in 1..MaxMeasured + 1 /\ resets \in 0..MaxResets

\* Every rule in force has its row of evaluation state, which evaluate_measurement
\* reads unseen, and no other row stays behind, across edits and resets: without
\* the row every later measurement of the signal would be rolled back.
StateForRules == TypeOK /\ DOMAIN state = RuleIds

\* Positions in the log at which rule r entered its range since the reset before.
Entries(r) ==
  {i \in DOMAIN log :
     /\ log[i].rule = r /\ log[i].matched
     /\ \A j \in 1..i - 1 :
          log[j].rule = r /\ log[j].era = log[i].era /\ log[j].matched
          => \E k \in j + 1..i - 1 : log[k].rule = r /\ ~log[k].matched}

\* One event for each entry into a rule's range, none while it lasts, none
\* lost, and never two for a rule and a measurement (docs/signal-alerts-fe-
\* handoff.md, when events happen).
EventsAreEntries ==
  /\ \A r \in 1..issued - 1 :
       {feed[i].measured : i \in {j \in DOMAIN feed : feed[j].rule = r}}
       = {log[i].measured : i \in Entries(r)}
  /\ \A i, j \in DOMAIN feed : feed[i] = feed[j] => i = j

\* Between two resets a rule judges periods in the order of their ends, however
\* measurements arrive: corrections of the past and late days never re-arm it.
ForwardOnly ==
  \A i, j \in DOMAIN log :
    i < j /\ log[i].rule = log[j].rule /\ log[i].era = log[j].era => log[i].end < log[j].end

\* Choosing a rule does not replay the history: no event is about a measurement
\* that was there when its rule was chosen.
HistoryNotReplayed == \A i \in DOMAIN feed : feed[i].measured \notin known[feed[i].rule]

\* Both: an event is news, about a period nobody has judged before.
OnlyNews == ForwardOnly /\ HistoryNotReplayed

\* A poller that follows next_cursor is given every event after its first poll,
\* once and in order.
FeedInOrder ==
  \A p \in Pollers :
    IF cursor[p] = Missing THEN received[p] = << >>
    ELSE received[p] = SubSeq(feed, cursor[p] - Len(received[p]) + 1, cursor[p])
=============================================================================
