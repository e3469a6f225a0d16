---------------------------- MODULE SourcePages ----------------------------
(***************************************************************************)
(* What the reader accepts from a source (exploration/source_adapter.py):  *)
(* pages of events in the order of one key, chained by that key, and pages *)
(* of identity edges whose graph gives every event one customer.  A key is *)
(* a natural number; an event is                                           *)
(*   [key, id, source, at, customer, identities].                          *)
(***************************************************************************)
EXTENDS Integers, SequencesExt

CONSTANT Null   \* None

Increasing(keys) == \A i, j \in DOMAIN keys : i < j => keys[i] < keys[j]

Keys(page) == [i \in DOMAIN page.items |-> page.items[i].key]

\* The continuation of a page: its last key, exactly when there is more.
WellFormed(page) ==
  /\ page.more <=> page.next # Null
  /\ page.more => page.items # << >> /\ page.next = Last(Keys(page))

-----------------------------------------------------------------------------
(* Identity pages.  An edge: [key, left, right, link, confidence], its ends *)
(* <<namespace, value>>; the key stands for the ends and the link.         *)

Ends(e) == <<e.left, e.right>>

Nodes(edges) == UNION {{e.left, e.right} : e \in edges}

Neighbours(edges, S) == UNION {{e.left, e.right} : e \in {x \in edges : {x.left, x.right} \cap S # {}}}

\* _graph_components: everything reached from a node.
Component(edges, n) ==
  FoldLeft(LAMBDA S, i : S \cup Neighbours(edges, S), {n},
           [i \in 1..Cardinality(Nodes(edges)) |-> i])

Canonicals(nodes) == {n[2] : n \in {m \in nodes : m[1] = "canonical"}}

\* _canonical_resolution accepts: one canonical customer in every component.
Resolvable(edges) ==
  \A n \in Nodes(edges) : Cardinality(Canonicals(Component(edges, n))) = 1

Resolution(edges) ==
  [n \in Nodes(edges) |-> CHOOSE c \in Canonicals(Component(edges, n)) : TRUE]

\* One source's chain: ordered over all of its pages, each page past the one before.
ChainAccepted(pages, size) ==
  /\ \A i \in DOMAIN pages : WellFormed(pages[i]) /\ Len(pages[i].items) <= size
  /\ \A i \in DOMAIN pages : pages[i].more <=> i < Len(pages)
  /\ Increasing(FlattenSeq([i \in DOMAIN pages |-> Keys(pages[i])]))

ChainEdges(pages) == UNION {ToSet(pages[i].items) : i \in DOMAIN pages}

\* Edges two sources give differently: another link, or another confidence.
Conflict(a, b) == Ends(a) = Ends(b) /\ (a.link # b.link \/ a.confidence # b.confidence)

\* Merging, source by source: [edges, bad], the ends compared with all that was seen.
Merge(m, edges) ==
  [edges |-> m.edges \cup {e \in edges : \A x \in m.edges : x.key # e.key},
   bad |-> m.bad \/ ~Resolvable(edges) \/ \E a \in m.edges \cup edges, b \in edges : Conflict(a, b)]

Merged(order, chains) ==
  FoldLeft(LAMBDA m, s : Merge(m, ChainEdges(chains[s])), [edges |-> {}, bad |-> FALSE], order)

\* prepare_validated_source_set: the edges of all sources, or Null.
Prepared(order, chains, size) ==
  LET m == Merged(order, chains)
  IN  IF /\ \A s \in ToSet(order) : ChainAccepted(chains[s], size)
         /\ ~m.bad /\ Resolvable(m.edges)
      THEN m.edges ELSE Null

-----------------------------------------------------------------------------
(* Event pages.                                                            *)

\* EventValidationSession.
NewSession(sources) == [ids |-> {}, last |-> [s \in sources |-> Null]]

\* validate_event: in the scope, and all identities one and the same customer.
EventValid(e, scope, resolution) ==
  /\ scope.from <= e.at /\ e.at < scope.until
  /\ e.identities # {}
  /\ \A n \in e.identities : n \in DOMAIN resolution /\ resolution[n] = e.customer

\* Mutant of PageAccepted: the page is compared with itself only.
PageAcceptedAlone(page, after, source, scope, size, session, resolution) ==
  /\ Len(page.items) <= size
  /\ \A i \in DOMAIN page.items : page.items[i].source = source
  /\ WellFormed(page)
  /\ after = session.last[source]
  /\ Increasing(Keys(page))
  /\ \A e \in ToSet(page.items) : EventValid(e, scope, resolution)
  /\ Cardinality({e.id : e \in ToSet(page.items)}) = Len(page.items)

\* validate_event_page.
PageAccepted(page, after, source, scope, size, session, resolution) ==
  /\ Len(page.items) <= size
  /\ \A i \in DOMAIN page.items : page.items[i].source = source
  /\ WellFormed(page)
  /\ after = session.last[source]
  /\ Increasing(Keys(page))
  /\ after # Null /\ page.items # << >> => page.items[1].key > after
  /\ \A e \in ToSet(page.items) : EventValid(e, scope, resolution) /\ e.id \notin session.ids
  /\ Cardinality({e.id : e \in ToSet(page.items)}) = Len(page.items)

AfterPage(page, source, session) ==
  [ids |-> session.ids \cup {e.id : e \in ToSet(page.items)},
   last |-> IF page.items = << >> THEN session.last
            ELSE [session.last EXCEPT ![source] = Last(Keys(page))]]
=============================================================================
