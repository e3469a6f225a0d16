---------------------------- MODULE Exploration ----------------------------
(***************************************************************************)
(* The exploration Tools of one Run (exploration/reader.py, tools.py,      *)
(* materialization.py, ledger.py, report_validator.py): an agent asks      *)
(* queries one after the other, each scans sources that may change or fail *)
(* at any moment, and ends in a report.  A scan checks the source tokens   *)
(* around every page; a source that changed invalidates all there is, one  *)
(* that fails leaves a prefix.  An event is a natural number, its place in *)
(* the global order, the same in every version of its source.              *)
(***************************************************************************)
EXTENDS Integers, SequencesExt

CONSTANTS
  Null,
  Content,     \* Content[s][v]: the events of source s in its version v, in order
  Customer,    \* the customer of each event
  Script,      \* Script[n]: the queries [kind, sources, cohort] an agent may ask as its n-th;
               \* cohort: of the customers of a row, where the query takes one
  PageSize, RowsPerPage, MaxFaults

Sources == DOMAIN Content
Prepared == 0   \* the version whose token the reader pins

Increasing(q) == \A i, j \in DOMAIN q : i < j => q[i] < q[j]

\* The events of a source as it was prepared.
Own(s) == ToSet(Content[s][Prepared])

Kinds == {"sources", "fields", "values", "summary", "funnel", "evidence"}
Catalogs == {"sources", "fields"}   \* those about sources, not customers
Queries == [kind : Kinds, sources : (SUBSET Sources) \ {{}}, cohort : BOOLEAN]

\* All events of the prepared sources of a selection, and who events are of.
Snapshot(sources) == UNION {Own(s) : s \in sources}
Customers(events) == {Customer[e] : e \in events}

\* The adapter contract: pages are strictly in the global order, of which the
\* source is a part (source_adapter.py, validate_event_page).
ASSUME ExplorationAssumption ==
  /\ IsFiniteSet(Sources) /\ Sources \subseteq Nat /\ Sources # {} /\ Null \notin Nat
  /\ \A s \in Sources :
       /\ Prepared \in DOMAIN Content[s]
       /\ \A v \in DOMAIN Content[s] : Content[s][v] \in Seq(Nat \ {0}) /\ Increasing(Content[s][v])
       /\ \A e \in Own(s) : Customer[e] \in Nat
  /\ \A C \in SUBSET Customers(Snapshot(Sources)) : C # Null
  /\ \A s, t \in Sources : s # t => Own(s) \cap Own(t) = {}
  /\ Script \in Seq(SUBSET Queries)
  /\ {PageSize, RowsPerPage} \subseteq Nat \ {0}
  /\ MaxFaults \in Nat

VARIABLES
  version,   \* the version of each source
  valid,     \* reader._snapshot_valid
  scan,      \* the call in progress
  results,   \* exploration_results and their rows
  pages,     \* ledger: how many pages of each result were read
  report,    \* what submit_exploration_report accepted
  faults, asked
vars == <<version, valid, scan, results, pages, report, faults, asked>>
store == <<results, pages>>

Smallest(S) == CHOOSE x \in S : \A y \in S : x <= y

Idle == [pc |-> "idle", ask |-> Null, todo |-> {}, turn |-> Null, page |-> << >>,
         heads |-> << >>, after |-> << >>, more |-> << >>, done |-> {}, taken |-> << >>, failed |-> {}]

Init ==
  /\ version = [s \in Sources |-> Prepared]
  /\ valid = TRUE /\ scan = Idle /\ results = << >> /\ pages = << >>
  /\ report = Null /\ faults = 0 /\ asked = 0

-----------------------------------------------------------------------------
(* Snapshot barriers: _assert_snapshots.                                   *)

Current(S) == valid /\ \A s \in S : version[s] = Prepared

\* The first token of S, in order, that cannot be read.
Unreadable(S, s) ==
  /\ valid /\ faults < MaxFaults /\ s \in S
  /\ \A t \in S : t < s => version[t] = Prepared

\* invalidate_snapshot and reset_for_snapshot_change: nothing is left, for good.
Invalidate ==
  /\ valid' = FALSE /\ results' = << >> /\ pages' = << >> /\ scan' = Idle
  /\ UNCHANGED <<version, report, faults, asked>>

\* A source gets new data while it is read.
Change(s) ==
  /\ version[s] + 1 \in DOMAIN Content[s]
  /\ version' = [version EXCEPT ![s] = @ + 1]
  /\ UNCHANGED <<valid, scan, store, report, faults, asked>>

-----------------------------------------------------------------------------
(* Results.  ask: [kind, sources, within, parent]; within: the customers   *)
(* of a cohort or of an evidence selection, Null for all.                  *)

\* The customers a result is about, for whom evidence may be asked.
Anchored(res) ==
  IF res.ask.kind \in Catalogs THEN {} ELSE UNION {Customers(res.rows[i].from) : i \in DOMAIN res.rows}

\* select_authorized_customers: at most three of them, and some if there are any.
Selections(res) ==
  IF Anchored(res) = {} THEN {{}} ELSE {S \in SUBSET Anchored(res) \ {{}} : Cardinality(S) <= 3}

\* The cohorts that were published: the customers of a row each.
Cohorts ==
  UNION {{Customers(results[r].rows[i].from) : i \in DOMAIN results[r].rows} :
         r \in {x \in DOMAIN results : results[x].ask.kind \in {"summary", "funnel"}}}

\* Evidence is asked of any result that was observed, be it evidence itself, and
\* reads all sources.
Asks(q) ==
  CASE q.kind = "evidence" ->
         UNION {{[kind |-> q.kind, sources |-> Sources, within |-> S, parent |-> r] :
                 S \in Selections(results[r])} : r \in DOMAIN results}
    [] q.kind \in {"summary", "funnel"} /\ q.cohort ->
         {[kind |-> q.kind, sources |-> q.sources, within |-> C, parent |-> Null] : C \in Cohorts}
    [] OTHER -> {[kind |-> q.kind, sources |-> q.sources, within |-> Null, parent |-> Null]}

Admitted(ask, taken) == {e \in ToSet(taken) : ask.within = Null \/ Customer[e] \in ask.within}

SourceOf(e) == CHOOSE s \in Sources : e \in Own(s)

InOrder(S) == CHOOSE q \in [1..Cardinality(S) -> S] : Increasing(q)

\* What the rows of a result are about: a catalog has one per selected source,
\* evidence one per event, the others here one per customer with events.
Keys(ask, mine) ==
  CASE ask.kind \in {"sources", "fields"} -> ask.sources
    [] ask.kind = "evidence" -> mine
    [] OTHER -> Customers(mine)

\* The events the row of a key is derived from.
From(ask, mine, key) ==
  CASE ask.kind = "sources" -> {e \in mine : SourceOf(e) = key}
    [] ask.kind = "fields" -> {}
    [] ask.kind = "evidence" -> {key}
    [] OTHER -> {e \in mine : Customer[e] = key}

\* A prefix proves no dropoff: a partial funnel has no rows.
Rows(ask, taken, complete) ==
  LET mine == Admitted(ask, taken)
      order == InOrder(Keys(ask, mine))
  IN  IF ask.kind = "funnel" /\ ~complete THEN << >>
      ELSE [i \in DOMAIN order |-> [of |-> order[i], from |-> From(ask, mine, order[i])]]

\* store_result in one transaction, then the first page and its ledger entry.
Publish(complete, remaining) ==
  /\ results' = Append(results, [ask |-> scan.ask, complete |-> complete, remaining |-> remaining,
                                 taken |-> scan.taken, rows |-> Rows(scan.ask, scan.taken, complete)])
  /\ pages' = Append(pages, 1)

HasMore(r) == pages[r] * RowsPerPage < Len(results[r].rows)

\* is_complete.
Complete(r) == results[r].complete /\ ~HasMore(r)

-----------------------------------------------------------------------------
(* A query: scan_events.                                                   *)

Ask(q) ==
  /\ scan.pc = "idle" /\ report = Null /\ asked < Len(Script) /\ q \in Script[asked + 1]
  /\ \E ask \in Asks(q) :
       scan' = [Idle EXCEPT !.pc = "begin", !.ask = ask]
  /\ asked' = asked + 1
  /\ UNCHANGED <<version, valid, store, report, faults>>

\* The streams are asked for their first event in order.
Begin ==
  /\ scan.pc = "begin" /\ Current(Sources)
  /\ LET first == Smallest(scan.ask.sources)
     IN  scan' = [scan EXCEPT !.pc = "assert", !.turn = first, !.todo = scan.ask.sources \ {first},
                              !.heads = [s \in scan.ask.sources |-> << >>],
                              !.after = [s \in scan.ask.sources |-> 0],
                              !.more = [s \in scan.ask.sources |-> TRUE]]
  /\ UNCHANGED <<version, valid, store, report, faults, asked>>

\* _source_stream: the token before the page.
AssertToken ==
  /\ scan.pc = "assert" /\ Current({scan.turn})
  /\ scan' = [scan EXCEPT !.pc = "load"]
  /\ UNCHANGED <<version, valid, store, report, faults, asked>>

\* How many events of q a cursor is past.
Past(q, after) == CHOOSE n \in 0..Len(q) : \A i \in DOMAIN q : q[i] <= after <=> i <= n

\* load_event_page answers from what the source holds now.
Load ==
  /\ scan.pc = "load"
  /\ LET s == scan.turn
         now == Content[s][version[s]]
         rest == SubSeq(now, Past(now, scan.after[s]) + 1, Len(now))
     IN  scan' = [scan EXCEPT !.pc = "recheck", !.more[s] = Len(rest) > PageSize,
                              !.page = SubSeq(rest, 1, IF Len(rest) > PageSize THEN PageSize ELSE Len(rest))]
  /\ UNCHANGED <<version, valid, store, report, faults, asked>>

\* Mutant of Unchanged: the token is not read again after the page.
UnchangedAsBefore(s) == valid

Unchanged(s) == Current({s})

\* An empty page is the end of its source; then the next stream is started.
Recheck ==
  /\ scan.pc = "recheck" /\ Unchanged(scan.turn)
  /\ LET s == scan.turn
         next == IF scan.todo = {} THEN Null ELSE Smallest(scan.todo)
     IN  scan' = [scan EXCEPT !.heads[s] = scan.page, !.page = << >>,
                              !.after[s] = IF scan.page = << >> THEN @ ELSE Last(scan.page),
                              !.done = IF scan.page = << >> THEN @ \cup {s} ELSE @,
                              !.turn = next, !.todo = @ \ {next},
                              !.pc = IF next = Null THEN "merge" ELSE "assert"]
  /\ UNCHANGED <<version, valid, store, report, faults, asked>>

Waiting == {s \in DOMAIN scan.heads : scan.heads[s] # << >>}

\* The smallest event is consumed and its stream asked for another one.
Consume ==
  /\ scan.pc = "merge" /\ Waiting # {}
  /\ LET s == CHOOSE x \in Waiting : \A y \in Waiting : scan.heads[x][1] <= scan.heads[y][1]
         rest == Tail(scan.heads[s])
         ended == rest = << >> /\ ~scan.more[s]
         fetch == rest = << >> /\ scan.more[s]
     IN  scan' = [scan EXCEPT !.taken = Append(@, scan.heads[s][1]), !.heads[s] = rest,
                              !.done = IF ended THEN @ \cup {s} ELSE @,
                              !.turn = IF fetch THEN s ELSE Null,
                              !.pc = IF fetch THEN "assert" ELSE "merge"]
  /\ UNCHANGED <<version, valid, store, report, faults, asked>>

\* All is read: the last barrier, over every prepared source, and the result.
Finish ==
  /\ scan.pc = "merge" /\ Waiting = {} /\ Current(Sources)
  /\ Publish(TRUE, {})
  /\ scan' = Idle
  /\ UNCHANGED <<version, valid, report, faults, asked>>

\* The tokens a step of the scan is about to read.
Reading ==
  CASE scan.pc \in {"begin", "certify"} -> Sources
    [] scan.pc \in {"assert", "recheck"} -> {scan.turn}
    [] scan.pc = "merge" /\ Waiting = {} -> Sources
    [] OTHER -> {}

\* Mutant of SnapshotChanged: the barrier is tried again until it holds.
SnapshotRetried == Reading # {} /\ ~Current(Reading) /\ UNCHANGED vars

SnapshotChanged == Reading # {} /\ ~Current(Reading) /\ Invalidate

\* RetryablePageError, from a token or a page.
Interrupt(s) ==
  /\ scan.pc # "certify"
  /\ Unreadable(IF scan.pc = "load" THEN {scan.turn} ELSE Reading, s)
  /\ faults' = faults + 1
  /\ scan' = [scan EXCEPT !.pc = "certify", !.failed = {s}]
  /\ UNCHANGED <<version, valid, store, report, asked>>

\* remaining_branches: all that is not read to its end.
Unfinished == IF scan.ask.sources \subseteq scan.done THEN scan.failed
              ELSE (scan.ask.sources \ scan.done) \cup scan.failed

\* A prefix counts after another barrier, unless a source outside of it failed.
Certify ==
  /\ scan.pc = "certify" /\ Current(Sources)
  /\ IF scan.failed \subseteq scan.ask.sources THEN Publish(FALSE, Unfinished) ELSE UNCHANGED store
  /\ scan' = Idle
  /\ UNCHANGED <<version, valid, report, faults, asked>>

\* SnapshotBarrierUnavailableError; or the database refuses the result.
GiveUp ==
  /\ \/ scan.pc = "certify" /\ \E s \in Sources : Unreadable(Sources, s)
     \/ (scan.pc = "certify" \/ (scan.pc = "merge" /\ Waiting = {})) /\ Current(Sources) /\ faults < MaxFaults
  /\ faults' = faults + 1
  /\ scan' = Idle
  /\ UNCHANGED <<version, valid, store, report, asked>>

-----------------------------------------------------------------------------
\* _read_page with the cursor the page before gave, behind a barrier of its own.
ReadPage(r) ==
  /\ scan.pc = "idle" /\ report = Null /\ HasMore(r) /\ Current(Sources)
  /\ pages' = [pages EXCEPT ![r] = @ + 1]
  /\ UNCHANGED <<version, valid, scan, results, report, faults, asked>>

PageFindsChange ==
  /\ scan.pc = "idle" /\ report = Null /\ (\E r \in DOMAIN results : HasMore(r)) /\ ~Current(Sources)
  /\ Invalidate

OfKind(kinds) == {r \in DOMAIN results : results[r].ask.kind \in kinds}

Covered(kind) == UNION {results[r].ask.sources : r \in {x \in OfKind({kind}) : Complete(x)}}

\* What was delivered of a result.
Seen(r) == SubSeq(results[r].rows, 1, IF HasMore(r) THEN pages[r] * RowsPerPage ELSE Len(results[r].rows))

\* Mutant of Backed: results are cited whatever their scan.
BackedPages(p) ==
  /\ \A r \in p.cited : ~HasMore(r)
  /\ \A e \in p.evidence : \E r \in p.cited \cap OfKind({"evidence"}) :
       results[r].ask.parent \in p.cited /\ \E i \in DOMAIN Seen(r) : Seen(r)[i].of = e

\* _validate_finding: complete chains only, evidence with the result that authorised it.
Backed(p) ==
  /\ \A r \in p.cited : Complete(r)
  /\ \A e \in p.evidence : \E r \in p.cited \cap OfKind({"evidence"}) :
       results[r].ask.parent \in p.cited /\ \E i \in DOMAIN Seen(r) : Seen(r)[i].of = e

\* _validate_coverage: what a report has to declare as left open.
Abandoned == {r \in DOMAIN results : ~Complete(r)}

\* The evidence that was read.
Issued == UNION {{Seen(r)[i].of : i \in DOMAIN Seen(r)} : r \in OfKind({"evidence"})}

\* High confidence needs all three kinds of result.
Confident(p) ==
  p.high => /\ p.cited \cap OfKind({"summary"}) # {} /\ p.cited \cap OfKind({"funnel"}) # {}
            /\ p.evidence # {}

\* validate_exploration_report: the ledger decides, no source is asked again.
Submit ==
  /\ scan.pc = "idle" /\ report = Null
  /\ Covered("sources") = Sources /\ Covered("fields") = Sources
  /\ \E cited \in SUBSET DOMAIN results, high \in BOOLEAN, evidence \in SUBSET Issued :
       LET p == [cited |-> cited, high |-> high, evidence |-> evidence]
       IN  /\ cited # {} /\ Backed(p) /\ Confident(p)
           /\ report' = [ledger |-> results, on |-> cited, evidence |-> evidence, high |-> high,
                         left |-> Abandoned]
  /\ UNCHANGED <<version, valid, scan, store, faults, asked>>

-----------------------------------------------------------------------------
Step == \/ Begin \/ AssertToken \/ Load \/ Recheck \/ Consume \/ Finish \/ SnapshotChanged \/ Certify

Next ==
  \/ \E q \in UNION Range(Script) : Ask(q)
  \/ Step \/ GiveUp
  \/ \E s \in Sources : Interrupt(s) \/ Change(s)
  \/ \E r \in DOMAIN results : ReadPage(r)
  \/ PageFindsChange \/ Submit

\* A call runs on its own to its end.
Spec == Init /\ [][Next]_vars /\ WF_vars(Step)

-----------------------------------------------------------------------------
TypeOK ==
  /\ (\A s \in Sources : version[s] \in DOMAIN Content[s]) /\ valid \in BOOLEAN
  /\ faults \in 0..MaxFaults /\ asked \in 0..Len(Script) /\ Len(results) <= asked
  /\ DOMAIN pages = DOMAIN results
  /\ scan.pc \in {"idle", "begin", "assert", "load", "recheck", "merge", "certify"}

\* What was consumed are the first events of the selection, in the global order.
ReadsSnapshot(sources, taken) ==
  /\ Increasing(taken) /\ ToSet(taken) \subseteq Snapshot(sources)
  /\ \A e \in Snapshot(sources) \ ToSet(taken) : \A t \in ToSet(taken) : t < e

\* Although sources change between any two calls, a scan hands out events of
\* the prepared version only, in the global order and none left out; a complete
\* result is that of all of them, and a partial one names every source that has
\* events left and claims nothing a prefix cannot prove.
SnapshotRead ==
  /\ TypeOK
  /\ scan.pc # "idle" => ReadsSnapshot(scan.ask.sources, scan.taken)
  /\ \A r \in DOMAIN results :
       LET res == results[r]
           all == Snapshot(res.ask.sources)
       IN  /\ ReadsSnapshot(res.ask.sources, res.taken)
           /\ res.complete => ToSet(res.taken) = all /\ res.remaining = {}
           /\ ~res.complete =>
                /\ res.remaining # {} /\ res.remaining \subseteq res.ask.sources
                /\ \A e \in all \ ToSet(res.taken) : SourceOf(e) \in res.remaining
                /\ res.ask.kind = "funnel" => res.rows = << >>

\* An accepted report rests on complete results of one snapshot: each cited row
\* is what the prepared data say, and what it leaves open is open.  Its evidence
\* was read of a cited result that is about this customer, and however long the
\* chain of evidence asked of evidence is, a scan that is not evidence itself
\* has met the customer in this snapshot; that one may be partial or not cited.
ReportGrounded ==
  report # Null =>
    LET of == report.ledger
    IN  /\ \A r \in report.on :
             /\ ReadsSnapshot(of[r].ask.sources, of[r].taken)
             /\ ToSet(of[r].taken) = Snapshot(of[r].ask.sources)
             /\ \A i \in DOMAIN of[r].rows : of[r].rows[i].from \subseteq Admitted(of[r].ask, of[r].taken)
        /\ \A e \in report.evidence :
             /\ e \in Snapshot(Sources)
             /\ \E r \in report.on :
                  /\ of[r].ask.kind = "evidence" /\ \E i \in DOMAIN of[r].rows : of[r].rows[i].of = e
                  /\ of[r].ask.parent \in report.on /\ Customer[e] \in Anchored(of[of[r].ask.parent])
             /\ \E root \in DOMAIN of : of[root].ask.kind # "evidence" /\ Customer[e] \in Anchored(of[root])
        /\ \A r \in report.left : ~of[r].complete \/ Len(of[r].rows) > RowsPerPage

\* A call comes back, with a result, a prefix or an error.
CallsReturn == scan.pc # "idle" ~> scan.pc = "idle"
=============================================================================
