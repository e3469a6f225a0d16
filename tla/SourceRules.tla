----------------------------- MODULE SourceRules -----------------------------
(***************************************************************************)
(* What the sources promise the reader and the executor.  A case is        *)
(*   [adapters, scope |-> [from, until], size, max].                       *)
(***************************************************************************)
EXTENDS SourceAdapters

CONSTANTS Adapters, Scopes, Reads   \* sequences of adapters; how they are read: [size, max]

VARIABLE input

DrawSources == /\ input = [kind |-> "sources", case |-> Null]
               /\ \E adapters \in Adapters, scope \in Scopes, read \in Reads :
                    input' = [input EXCEPT !.case = [adapters |-> adapters, scope |-> scope, size |-> read.size, max |-> read.max]]

-----------------------------------------------------------------------------
\* All the events of a source in a scope, said without pages.
EventsOf(a, scope) ==
  {e \in (IF a.kind = "table" THEN ToSet(RowsOf(a)) ELSE ToSet(a.store.events)) :
     e.source = ManifestOf(a).source /\ InScope(e, scope)}

EdgesOf(a, scope) ==
  IF a.kind = "table" THEN {EdgeOf(a.spec, e) : e \in EventsOf(a, scope)} ELSE Closure(a.store.edges, EventsOf(a, scope))

\* A mapping and its table give a manifest, or no source at all; the manifest is
\* consistent, takes every event of its table and shows no personal field.
MappingSound(a) ==
  \A m \in {ManifestOf(a)} \ {Bad} :
    /\ PolicyConsistent(m) /\ PublicFields(m) \cap m.masked = {}
    /\ a.kind = "table" => Bad \notin ToSet(RowsOf(a)) /\ \A e \in ToSet(RowsOf(a)) : ManifestAccepts(m, e)

\* Pages cover all of the events and edges once, and the reader takes each of them.
PagesSound(adapters, scope, size) ==
  LET named == [s \in {ManifestOf(a).source : a \in ToSet(adapters)} |->
                  CHOOSE a \in ToSet(adapters) : ManifestOf(a).source = s]
      edges == Prepared(Ascending(DOMAIN named), [s \in DOMAIN named |-> IdentityPages(named[s], scope, size)], size)
      read(s) == EventPages(named[s], scope, size)
      session(s, i) == FoldLeft(LAMBDA u, p : AfterPage(p, s, u), NewSession(DOMAIN named), SubSeq(read(s), 1, i - 1))
  IN  /\ \A a \in ToSet(adapters) : /\ Items(EventPages(a, scope, size)) = ByKey(EventsOf(a, scope))
                                    /\ Items(IdentityPages(a, scope, size)) = ByKey(EdgesOf(a, scope))
      /\ edges # Null
      /\ \A s \in DOMAIN named : \A i \in DOMAIN read(s) :
           PageAccepted(read(s)[i], session(s, i).last[s], s, scope, size, session(s, i), Resolution(edges))

\* What the executor is given is all there is: an error otherwise.  It cannot see
\* what one list of the database leaves out.
LoadsComplete(adapters, scope, max) ==
  LET cut == \E a \in ToSet(adapters) : /\ a.kind = "database" /\ Cardinality(EventsOf(a, scope)) > LegacyMax
                                        /\ Lower(HardMax, max + 1) > LegacyMax
  IN  \A load \in {CompleteEvents(adapters, scope, max)}, all \in {UNION {EventsOf(a, scope) : a \in ToSet(adapters)}} :
      /\ load.error = Null /\ ~cut => load.events = InOrder(all)
      /\ load.error = Null => ToSet(load.events) \subseteq all
      /\ Cardinality(all) <= max /\ (max < HardMax - 1 \/ Cardinality(all) < HardMax - 1) => load.error = Null

\* The first events of several sources resolve with the identities of these events alone,
\* and all that they cite is found, in the order it is asked for, under its own source.
RunContextSound(adapters, scope, max) ==
  \A events \in {RegistryEvents(adapters, scope, max)} \ {Bad} :
    /\ \A edges \in {RegistryIdentities(adapters, scope, max, events)} :
         edges # Bad /\ \A x \in edges : x.right[2] \in CustomersOf(events)
    /\ events # << >> => RegistryEvidence(adapters, events, Through(Reverse(events), LAMBDA e : e.evidence))
                          = Reverse(Through(events, RecordOf))

MappingsSound(case) == \A a \in ToSet(case.adapters) : MappingSound(a)

ReadsSound(case) ==
  (\A a \in ToSet(case.adapters) : ManifestOf(a) # Bad) =>
    /\ PagesSound(case.adapters, case.scope, case.size)
    /\ LoadsComplete(case.adapters, case.scope, case.max)
    /\ RunContextSound(case.adapters, case.scope, case.max)
=============================================================================
