--------------------------- MODULE SourceAdapters ---------------------------
(***************************************************************************)
(* The sources behind the reader and the executor: tables brought in with  *)
(* a mapping (onboarding/adapter.py), the managed database                 *)
(* (synthetic/adapter.py over data/repository.py), and the registry that   *)
(* checks what they give (data/source_registry.py).                        *)
(*                                                                         *)
(* An adapter is [kind |-> "table", spec, rows] or                         *)
(* [kind |-> "database", manifest, store |-> [events, edges]]; a raw value *)
(* is [form, text] or Null; the key of an event or an edge is a number in  *)
(* the order of what it is sorted by; an evidence id is a path.            *)
(***************************************************************************)
EXTENDS SourcePages, CustomerEvents

CONSTANTS
  Bad,          \* an error
  PageMax,      \* the largest page
  LegacyMax,    \* rows one list of the database holds at most
  HardMax,      \* events a scope may ask for at most
  TopicsMax,    \* topics a manifest lists at most
  Truthy, Falsy, Digits, Numbers   \* texts that read as a boolean, an integer, a number

Through(list, F(_)) == [i \in DOMAIN list |-> F(list[i])]

-----------------------------------------------------------------------------
(* One row of a table as an event (_apply_rule, _as_bool, _as_integer,     *)
(* _as_number, _project_row).                                              *)

ApplyRule(rule, row) ==
  LET raw == row[rule.column]
      mapped == IF rule.map = Null THEN raw.text
                ELSE IF raw.text \in DOMAIN rule.map THEN rule.map[raw.text] ELSE rule.default
      value == IF raw = Null THEN rule.default ELSE mapped
  IN  IF rule.const # Null THEN rule.const ELSE IF value = Null THEN Bad ELSE value

AsBool(raw) ==
  IF raw.form = "truth" \/ (raw.form \in {"whole", "text"} /\ raw.text \in Truthy \cup Falsy)
  THEN [form |-> "boolean", text |-> raw.text \in Truthy] ELSE Bad

AsInteger(raw) ==
  IF raw.form \in {"whole", "integral"} \/ (raw.form = "text" /\ raw.text \in Digits)
  THEN [form |-> "integer", text |-> raw.text] ELSE Bad

AsNumber(raw) ==
  IF raw.form \in {"whole", "integral", "fraction"} \/ (raw.form = "text" /\ raw.text \in Numbers)
  THEN [form |-> "number", text |-> raw.text] ELSE Bad

DimensionOf(item, raw) ==
  IF raw = Null THEN Null
  ELSE IF item.semantic = "boolean" THEN AsBool(raw) ELSE [form |-> "string", text |-> raw.text]

MeasureOf(item, raw) == IF item.semantic = "integer" THEN AsInteger(raw) ELSE AsNumber(raw)

ProjectRow(spec, n, row) ==
  LET dims == [d \in DOMAIN spec.dimensions |-> DimensionOf(spec.dimensions[d], row[d])]
      meas == [m \in {x \in DOMAIN spec.measures : row[x] # Null} |-> MeasureOf(spec.measures[m], row[m])]
      word(f) == ApplyRule(spec.rules[f], row)
      id == spec.ids[n]
  IN  IF \/ row.at = Null \/ row.at.form # "moment" \/ row.customer = Null
         \/ Bad \in {word("type"), word("topic")}
         \/ \E d \in DOMAIN dims : dims[d] = Bad
         \/ \E m \in DOMAIN meas : meas[m] = Bad
      THEN Bad
      ELSE [id |-> id, evidence |-> Append(spec.prefix, id), source |-> spec.source, key |-> 100 * row.at.text + id,
            at |-> row.at.text, customer |-> row.customer.text, type |-> word("type"), topic |-> word("topic"),
            dimensions |-> dims, measures |-> meas, identities |-> {<<spec.namespace, row.customer.text>>}]

-----------------------------------------------------------------------------
(* The manifest of a source and what it says of an event.                  *)

\* require_consistent_internal_field_policy.
PolicyConsistent(m) ==
  /\ DOMAIN m.dimensions \cap DOMAIN m.measures = {}
  /\ m.masked = {d \in DOMAIN m.dimensions : m.dimensions[d].pii}

\* SourceManifest.validate_event.
ManifestAccepts(m, e) ==
  /\ e.source = m.source /\ m.from <= e.at /\ e.at < m.until
  /\ e.type \in m.types /\ e.topic \in m.topics
  /\ DOMAIN e.dimensions \subseteq DOMAIN m.dimensions /\ DOMAIN e.measures \subseteq DOMAIN m.measures
  /\ \A d \in DOMAIN e.dimensions : e.dimensions[d] # Null =>
       e.dimensions[d].form = IF m.dimensions[d].semantic = "boolean" THEN "boolean" ELSE "string"
  /\ \A n \in DOMAIN e.measures : e.measures[n].form \in {"integer", m.measures[n].semantic}
  /\ e.identities # {} /\ \A n \in e.identities : n[1] = m.namespace

\* PublicSourceManifest.from_internal: what is personal has no name outside.
PublicFields(m) == {d \in DOMAIN m.dimensions : ~m.dimensions[d].pii} \cup DOMAIN m.measures

RowsOf(a) == [n \in DOMAIN a.rows |-> ProjectRow(a.spec, n, a.rows[n])]

BuildManifest(a) ==
  LET spec == a.spec
      columns == {"at", "customer"} \cup DOMAIN spec.dimensions \cup DOMAIN spec.measures
                   \cup {spec.rules[f].column : f \in {g \in DOMAIN spec.rules : spec.rules[g].const = Null}}
      of(events) ==
        IF Bad \in events \/ Cardinality({e.topic : e \in events}) > TopicsMax THEN Bad
        ELSE [source |-> spec.source, from |-> Smallest({e.at : e \in events}), until |-> Largest({e.at : e \in events}) + 1,
              types |-> {e.type : e \in events}, topics |-> {e.topic : e \in events},
              dimensions |-> spec.dimensions, measures |-> spec.measures,
              masked |-> {d \in DOMAIN spec.dimensions : spec.dimensions[d].pii}, namespace |-> spec.namespace]
  IN  IF a.rows = << >> \/ ~columns \subseteq DOMAIN a.rows[1] THEN Bad ELSE of(ToSet(RowsOf(a)))

ManifestOf(a) == IF a.kind = "table" THEN BuildManifest(a) ELSE a.manifest

-----------------------------------------------------------------------------
(* Pages.                                                                  *)

ByKey(S) == SetToSortSeq(S, LAMBDA a, b : a.key < b.key)

InScope(e, scope) == scope.from <= e.at /\ e.at < scope.until

PageOf(found, size) ==
  [items |-> Upto(found, size), more |-> Len(found) > size, next |-> IF Len(found) > size THEN found[size].key ELSE Null]

\* Among what was found so far, in order, and no more than a page and one.
Insort(list, e) ==
  LET i == Cardinality({j \in DOMAIN list : list[j].key <= e.key})
  IN  SubSeq(list, 1, i) \o <<e>> \o SubSeq(list, i + 1, Len(list))

Past(key, after) == after = Null \/ key > after

TableEventPage(a, scope, after, size) ==
  LET found == SelectSeq(RowsOf(a), LAMBDA e : InScope(e, scope) /\ Past(e.key, after))
  IN  PageOf(FoldLeft(LAMBDA list, e : Upto(Insort(list, e), size + 1), << >>, found), size)

DatabaseEventPage(a, scope, after, size) ==
  PageOf(ByKey({e \in ToSet(a.store.events) : /\ e.source = a.manifest.source /\ InScope(e, scope)
                                              /\ Past(e.key, after)}), size)

EventPage(a, scope, after, size) ==
  IF a.kind = "table" THEN TableEventPage(a, scope, after, size) ELSE DatabaseEventPage(a, scope, after, size)

\* The link of a row's identity to its customer.
EdgeOf(spec, e) == [key |-> 100 * spec.rank + e.customer, left |-> <<spec.namespace, e.customer>>,
                    right |-> <<"canonical", e.customer>>, link |-> spec.link, confidence |-> spec.confidence]

\* The largest is dropped whenever there is one too many.
Keep(S, edge, size) ==
  LET T == S \cup {edge} IN IF Cardinality(T) > size + 1 THEN {x \in T : \E y \in T : x.key < y.key} ELSE T

TableIdentityPage(a, scope, after, size) ==
  LET edges == Through(SelectSeq(RowsOf(a), LAMBDA e : InScope(e, scope)), LAMBDA e : EdgeOf(a.spec, e))
  IN  PageOf(ByKey(FoldLeft(LAMBDA S, x : Keep(S, x, size), {}, SelectSeq(edges, LAMBDA x : Past(x.key, after)))), size)

\* Every edge that can be reached from the identities of events.
Closure(edges, events) ==
  LET seen == UNION {Component(edges, n) : n \in UNION {e.identities : e \in events}}
  IN  {x \in edges : {x.left, x.right} \subseteq seen}

DatabaseIdentityPage(a, scope, after, size) ==
  LET own == {e \in ToSet(a.store.events) : e.source = a.manifest.source /\ InScope(e, scope)}
  IN  PageOf(ByKey({x \in Closure(a.store.edges, own) : Past(x.key, after)}), size)

IdentityPage(a, scope, after, size) ==
  IF a.kind = "table" THEN TableIdentityPage(a, scope, after, size) ELSE DatabaseIdentityPage(a, scope, after, size)

\* Page after page, until there is no more.
Chain(page(_), bound) ==
  LET next(s) == IF s # << >> /\ ~Last(s).more THEN s ELSE Append(s, page(IF s = << >> THEN Null ELSE Last(s).next))
  IN  FoldLeft(LAMBDA s, i : next(s), << >>, [i \in 1..bound |-> i])

Items(pages) == FlattenSeq(Through(pages, LAMBDA p : p.items))
Held(a) == IF a.kind = "table" THEN Len(a.rows) ELSE Len(a.store.events) + Cardinality(a.store.edges)
EventPages(a, scope, size) == Chain(LAMBDA k : EventPage(a, scope, k, size), Held(a) + 1)
IdentityPages(a, scope, size) == Chain(LAMBDA k : IdentityPage(a, scope, k, size), Held(a) + 1)

-----------------------------------------------------------------------------
(* The bounded reads of the analysis.                                      *)

\* The database lists no more than LegacyMax rows, whatever it is asked for.
DatabaseEvents(a, scope, max) ==
  Upto(InOrder({e \in ToSet(a.store.events) : e.source = a.manifest.source /\ InScope(e, scope)}), Lower(max, LegacyMax))

TableEvents(a, scope, max) ==
  LET next(s) == LET page == TableEventPage(a, scope, s.after, Lower(PageMax, max - Len(s.events)))
                 IN  IF s.done \/ Len(s.events) >= max THEN s
                     ELSE [events |-> s.events \o page.items, after |-> page.next, done |-> ~page.more]
  IN  FoldLeft(LAMBDA s, i : next(s), [events |-> << >>, after |-> Null, done |-> FALSE], [i \in 1..max |-> i]).events

LoadEvents(a, scope, max) == IF a.kind = "database" THEN DatabaseEvents(a, scope, max) ELSE TableEvents(a, scope, max)

DatabaseIdentities(a, events) == Closure(a.store.edges, events)

LoadIdentities(a, scope, max) ==
  LET events == ToSet(LoadEvents(a, scope, max))
  IN  IF a.kind = "database" THEN DatabaseIdentities(a, events)
      ELSE {x \in ToSet(Items(IdentityPages(a, scope, PageMax))) : x.right[2] \in {e.customer : e \in events}}

\* _validate_identity_resolution.
Resolves(events, edges) ==
  \A e \in events : e.identities # {} /\ \A n \in e.identities : Canonicals(Component(edges, n)) = {e.customer}

\* validate_adapter_contract.
CheckedEvents(a, scope, max) ==
  LET checked(events, manifest) ==
        IF /\ Len(events) <= max /\ events = InOrder(ToSet(events))
           /\ \A e \in ToSet(events) : InScope(e, scope) /\ ManifestAccepts(manifest, e)
           /\ Resolves(ToSet(events), LoadIdentities(a, scope, max))
        THEN events ELSE Bad
  IN  checked(Upto(LoadEvents(a, scope, max), max + 1), ManifestOf(a))

Distinct(events) == \A i, j \in DOMAIN events : i # j => events[i].id # events[j].id /\ events[i].evidence # events[j].evidence

\* SourceRegistry.load_events.
RegistryEvents(adapters, scope, max) ==
  LET merged(loads) == IF Bad \in ToSet(loads) \/ ~Distinct(FlattenSeq(loads)) THEN Bad
                       ELSE Upto(InOrder(ToSet(FlattenSeq(loads))), max)
  IN  merged(Through(adapters, LAMBDA a : CheckedEvents(a, scope, max)))

\* SourceRegistry.load_identities: of the very events an authorized read returned.
RegistryIdentities(adapters, scope, max, events) ==
  LET manifest(e) == ManifestOf(CHOOSE a \in ToSet(adapters) : ManifestOf(a).source = e.source)
      own(a) == SelectSeq(events, LAMBDA e : e.source = ManifestOf(a).source)
      edges == UNION {LoadIdentities(a, scope, Len(own(a))) : a \in {x \in ToSet(adapters) : own(x) # << >>}}
      checked(closure) ==
        IF /\ Len(events) <= max /\ events = InOrder(ToSet(events)) /\ Distinct(events)
           /\ \A e \in ToSet(events) : InScope(e, scope) /\ ManifestAccepts(manifest(e), e)
           /\ Resolves(ToSet(events), closure)
        THEN closure ELSE Bad
  IN  checked(Closure(edges, ToSet(events)))

\* _load_complete_events: one more than may be used is asked of each source.
CompleteEvents(adapters, scope, max) ==
  LET probe == Lower(HardMax, max + 1)
      added(s, events) ==
        IF events = Bad THEN [s EXCEPT !.error = "contract"]
        ELSE IF probe = HardMax /\ Len(events) = probe THEN [s EXCEPT !.error = "limit"]
        ELSE IF ~Distinct(s.events \o events) THEN [s EXCEPT !.error = "contract"]
        ELSE IF Len(s.events \o events) > max THEN [s EXCEPT !.error = "limit"]
        ELSE [s EXCEPT !.events = @ \o events]
      read(s, a) == IF s.error # Null THEN s ELSE added(s, CheckedEvents(a, scope, probe))
      ordered(s) == IF s.error # Null THEN s ELSE [s EXCEPT !.events = InOrder(ToSet(@))]
  IN  ordered(FoldLeft(read, [events |-> << >>, error |-> Null], adapters))

-----------------------------------------------------------------------------
(* Evidence.                                                               *)

RecordOf(e) == [evidence |-> e.evidence, source |-> e.source, at |-> e.at]

\* One table's: rows up to the last one that is needed are read.
TableEvidence(a, ids) ==
  LET named(n) == Append(a.spec.prefix, a.spec.ids[n])
      row(id) == CHOOSE n \in DOMAIN a.rows : named(n) = id
  IN  IF ToSet(ids) \subseteq {named(n) : n \in DOMAIN a.rows} /\ \A id \in ToSet(ids) : RowsOf(a)[row(id)] # Bad
      THEN Through(ids, LAMBDA id : RecordOf(RowsOf(a)[row(id)])) ELSE Bad

DatabaseEvidence(a, ids) ==
  LET event(id) == CHOOSE e \in ToSet(a.store.events) : e.evidence = id
  IN  IF ToSet(ids) \subseteq {e.evidence : e \in ToSet(a.store.events)}
      THEN Through(ids, LAMBDA id : RecordOf(event(id))) ELSE Bad

\* CompositeEvidenceProvider: the longest prefix owns an id, what nobody owns is the database's.
Owner(adapters, id) ==
  LET owning == {a \in ToSet(adapters) : a.kind = "table" /\ IsPrefix(a.spec.prefix, id)}
      managed == {a \in ToSet(adapters) : a.kind = "database"}
  IN  IF owning \cup managed = {} THEN Null
      ELSE IF owning = {} THEN CHOOSE a \in managed : TRUE
      ELSE CHOOSE a \in owning : \A b \in owning : Len(b.spec.prefix) <= Len(a.spec.prefix)

ProvidedEvidence(adapters, ids) ==
  LET from(a) == LET own == SelectSeq(ids, LAMBDA id : Owner(adapters, id) = a)
                 IN  IF a = Null THEN Bad ELSE IF a.kind = "table" THEN TableEvidence(a, own) ELSE DatabaseEvidence(a, own)
      given == {from(Owner(adapters, id)) : id \in ToSet(ids)}
      records == UNION {ToSet(g) : g \in given}
  IN  IF Bad \in given THEN Bad ELSE Through(ids, LAMBDA id : CHOOSE r \in records : r.evidence = id)

\* SourceRegistry.get_evidence: only what the caller's events cite, and as they say.
RegistryEvidence(adapters, authorized, ids) ==
  LET records == ProvidedEvidence(adapters, ids)
      event(id) == CHOOSE e \in ToSet(authorized) : e.evidence = id
  IN  IF /\ ids # << >> /\ ToSet(ids) \subseteq {e.evidence : e \in ToSet(authorized)} /\ records # Bad
         /\ \A i \in DOMAIN ids : records[i] = RecordOf(event(ids[i]))
      THEN Through(ids, LAMBDA id : RecordOf(event(id))) ELSE Bad
=============================================================================
