-------------------------- MODULE ExplorationProofs --------------------------
(***************************************************************************)
(* Proofs that a scan hands out the prepared events in order and without a *)
(* gap, that a result says what it lacks, and that an accepted report      *)
(* rests on complete results, whatever sources change or fail meanwhile.   *)
(***************************************************************************)
EXTENDS Exploration, FiniteSetTheorems, SequenceTheorems, WellFoundedInduction, NaturalsInduction, TLAPS

-----------------------------------------------------------------------------
(* The inductive invariant.                                                *)

\* Where the streams of a scan have been started.
Started == {"assert", "load", "recheck", "merge"}
Pcs == {"idle", "begin", "certify"} \cup Started

Fields == {"pc", "ask", "todo", "turn", "page", "heads", "after", "more", "done", "taken", "failed"}

\* The types the proofs need.
ReadingInv ==
  /\ version \in [Sources -> Nat] /\ (\A s \in Sources : version[s] \in DOMAIN Content[s])
  /\ valid \in BOOLEAN
  /\ scan.pc \in Pcs /\ DOMAIN scan = Fields
  /\ faults \in 0..MaxFaults /\ asked \in 0..Len(Script)

\* A scan that is not of evidence has met this customer.
Met(c) == \E root \in DOMAIN results : results[root].ask.kind # "evidence" /\ c \in Anchored(results[root])

\* A query names sources; evidence is of customers of the result that authorises it,
\* all of whom were met before anyone asked for evidence.
AskSound(ask) ==
  /\ ask.kind \in Kinds /\ ask.sources \in SUBSET Sources /\ ask.sources # {}
  /\ ask.kind = "evidence" =>
       /\ ask.parent \in DOMAIN results /\ ask.within # Null
       /\ ask.within \subseteq Anchored(results[ask.parent])
       /\ \A c \in ask.within : Met(c)

\* What was read of source s is consumed or waits in its order.
Streams(s) ==
  /\ scan.heads[s] \in Seq(Nat) /\ Increasing(scan.heads[s]) /\ ToSet(scan.heads[s]) \subseteq Own(s)
  /\ scan.after[s] \in Nat /\ scan.more[s] \in BOOLEAN
  /\ \A e \in Own(s) : e <= scan.after[s] <=> e \in ToSet(scan.taken) \cup ToSet(scan.heads[s])
  /\ ToSet(scan.heads[s]) \cap ToSet(scan.taken) = {}
  /\ ~scan.more[s] /\ s # scan.turn => \A e \in Own(s) : e <= scan.after[s]
  /\ s \in scan.done => scan.heads[s] = << >>
  /\ s \notin scan.todo \cup {scan.turn} \cup scan.done => scan.heads[s] # << >>
  /\ s \in scan.todo => scan.heads[s] = << >>

\* The page that was loaded, if the source was what it is prepared to be.
PageInv ==
  LET s == scan.turn
  IN  /\ scan.page \in Seq(Nat) /\ Increasing(scan.page) /\ ToSet(scan.page) \subseteq Own(s)
      /\ scan.more[s] => scan.page # << >>
      /\ \A e \in ToSet(scan.page) : e > scan.after[s]
      /\ \A e \in Own(s) \ ToSet(scan.page) :
           e <= scan.after[s] \/ (scan.more[s] /\ \A p \in ToSet(scan.page) : p < e)

\* A scan has consumed the first events of its sources, and what is done is all consumed.
Consumed ==
  /\ AskSound(scan.ask)
  /\ scan.taken \in Seq(Nat) /\ ReadsSnapshot(scan.ask.sources, scan.taken)
  /\ scan.done \subseteq scan.ask.sources /\ \A s \in scan.done : Own(s) \subseteq ToSet(scan.taken)
  /\ Len(results) < asked

\* A scan, at each of its places.
ScanInv ==
  /\ scan.pc # "idle" => Consumed
  /\ scan.pc = "begin" => scan.taken = << >> /\ scan.done = {}
  /\ scan.pc \in Started =>
       /\ DOMAIN scan.heads = scan.ask.sources /\ DOMAIN scan.after = scan.ask.sources
       /\ DOMAIN scan.more = scan.ask.sources
       /\ scan.todo \subseteq scan.ask.sources
       /\ scan.todo # {} => scan.taken = << >>
       /\ \A s \in scan.ask.sources : Streams(s)
       /\ IF scan.pc = "merge" THEN scan.turn = Null /\ scan.todo = {}
          ELSE scan.turn \in scan.ask.sources \ scan.todo /\ scan.heads[scan.turn] = << >>
  /\ scan.pc = "recheck" /\ version[scan.turn] = Prepared => PageInv
  /\ scan.pc = "certify" => \E s \in Sources : scan.failed = {s}

\* The rows of a result are of events it consumed.
RowsInv(res) ==
  /\ res.rows \in Seq(Range(res.rows))
  /\ \A i \in DOMAIN res.rows :
       /\ res.rows[i].from \subseteq Admitted(res.ask, res.taken)
       /\ res.ask.kind = "evidence" => res.rows[i].of \in Admitted(res.ask, res.taken)

\* What a stored result says is true of what its scan consumed.
ResultInv(res) ==
  /\ AskSound(res.ask) /\ RowsInv(res)
  /\ res.taken \in Seq(Nat) /\ ReadsSnapshot(res.ask.sources, res.taken)
  /\ res.complete \in BOOLEAN
  /\ res.complete => ToSet(res.taken) = Snapshot(res.ask.sources) /\ res.remaining = {}
  /\ ~res.complete =>
       /\ res.remaining # {} /\ res.remaining \subseteq res.ask.sources
       /\ \A e \in Snapshot(res.ask.sources) \ ToSet(res.taken) : SourceOf(e) \in res.remaining
       /\ res.ask.kind = "funnel" => res.rows = << >>

StoreInv ==
  /\ results \in Seq(Range(results)) /\ pages \in Seq(Nat \ {0}) /\ DOMAIN pages = DOMAIN results
  /\ Len(results) <= asked
  /\ \A r \in DOMAIN results : ResultInv(results[r])

ExploreInv == ReadingInv /\ ScanInv /\ StoreInv /\ ReportGrounded

-----------------------------------------------------------------------------
(* Numbers and increasing sequences.                                       *)

NatOrder == {ss \in Nat \X Nat : ss[1] < ss[2]}

LEMMA SetInduction ==
  ASSUME NEW S \in SUBSET Nat, 0 \in S, \A n \in S : n + 1 \in S
  PROVE  S = Nat
<1> SUFFICES ASSUME Nat \ S # {} PROVE FALSE
  OBVIOUS
<1>1. IsWellFoundedOn(NatOrder, Nat)
  BY NatLessThanWellFounded DEF OpToRel, NatOrder
<1>2. PICK x \in Nat \ S : \A y \in Nat \ S : ~ (<<y, x>> \in NatOrder)
  <2> HIDE DEF NatOrder
  <2> QED
    BY <1>1, WFMin
<1>3. x # 0 /\ x - 1 \in Nat /\ x - 1 < x
  OBVIOUS
<1>4. x - 1 \in S
  BY <1>2, <1>3 DEF NatOrder
<1> QED
  BY <1>3, <1>4

LEMMA LeastNumber ==
  ASSUME NEW S \in SUBSET Nat, S # {}
  PROVE  \E x \in S : \A y \in S : x <= y
<1>1. IsWellFoundedOn(NatOrder, Nat)
  BY NatLessThanWellFounded DEF OpToRel, NatOrder
<1>2. PICK x \in S : \A y \in S : ~ (<<y, x>> \in NatOrder)
  <2> HIDE DEF NatOrder
  <2> QED
    BY <1>1, WFMin
<1>3. ASSUME NEW y \in S PROVE x <= y
  <2>1. x \in Nat /\ y \in Nat
    OBVIOUS
  <2>2. y < x => <<y, x>> \in NatOrder
    BY <2>1 DEF NatOrder
  <2> QED
    BY <1>2, <2>1, <2>2
<1> QED
  BY <1>3

LEMMA SmallestIs ==
  ASSUME NEW S \in SUBSET Nat, S # {}
  PROVE  Smallest(S) \in S
BY LeastNumber DEF Smallest

\* How far a cursor is in a source: the events up to it come first.
LEMMA PastIs ==
  ASSUME NEW q \in Seq(Nat), Increasing(q), NEW a \in Nat
  PROVE  /\ Past(q, a) \in 0..Len(q)
         /\ \A i \in 1..Len(q) : q[i] <= a <=> i <= Past(q, a)
<1>1. \E n \in 0..Len(q) : \A i \in DOMAIN q : q[i] <= a <=> i <= n
  <2>1. CASE \A i \in DOMAIN q : q[i] <= a
    BY <2>1
  <2>2. CASE \E i \in DOMAIN q : q[i] > a
    <3> DEFINE S == {i \in 1..Len(q) : q[i] > a}
    <3>1. PICK k \in S : \A j \in S : k <= j
      <4>1. S \in SUBSET Nat /\ S # {}
        BY <2>2
      <4> HIDE DEF S
      <4> QED
        BY <4>1, LeastNumber
    <3>2. k \in 1..Len(q) /\ q[k] > a /\ k - 1 \in 0..Len(q)
      OBVIOUS
    <3>3. ASSUME NEW i \in DOMAIN q PROVE q[i] <= a <=> i <= k - 1
      <4>1. CASE i < k
        <5>1. i \notin S
          BY <3>1, <4>1
        <5> QED
          BY <4>1, <5>1
      <4>2. CASE i >= k
        <5>1. q[k] <= q[i] /\ q[k] \in Nat /\ q[i] \in Nat
          BY <3>2, <4>2 DEF Increasing
        <5> QED
          BY <3>2, <4>2, <5>1
      <4> QED
        BY <4>1, <4>2
    <3> QED
      BY <3>2, <3>3
  <2>3. \A i \in DOMAIN q : q[i] \in Nat
    OBVIOUS
  <2> QED
    BY <2>1, <2>2, <2>3
<1>2. Past(q, a) \in 0..Len(q) /\ \A i \in DOMAIN q : q[i] <= a <=> i <= Past(q, a)
  BY <1>1, Zenon DEF Past
<1>3. DOMAIN q = 1..Len(q)
  OBVIOUS
<1> QED
  BY <1>2, <1>3

-----------------------------------------------------------------------------
(* Sets of numbers in their order.                                         *)

LEMMA SmallestFirst ==
  ASSUME NEW n \in Nat, NEW m \in Nat, NEW S \in SUBSET Nat, m \in S, \A x \in S : m <= x,
         NEW q \in [1..n -> S \ {m}], Increasing(q)
  PROVE  \E p \in [1..(n + 1) -> S] : Increasing(p)
<1> DEFINE p == [i \in 1..(n + 1) |-> IF i = 1 THEN m ELSE q[i - 1]]
<1>1. ASSUME NEW i \in 1..(n + 1), i # 1 PROVE i - 1 \in 1..n /\ q[i - 1] \in S \ {m} /\ p[i] = q[i - 1]
  <2>1. i - 1 \in 1..n
    BY <1>1
  <2>2. q[i - 1] \in S \ {m}
    BY <2>1
  <2>3. p[i] = q[i - 1]
    BY <1>1
  <2> QED
    BY <2>1, <2>2, <2>3
<1>2. p \in [1..(n + 1) -> S]
  <2>1. \A i \in 1..(n + 1) : (IF i = 1 THEN m ELSE q[i - 1]) \in S
    BY <1>1
  <2> QED
    BY <2>1
<1>3. ASSUME NEW i \in 1..(n + 1), NEW j \in 1..(n + 1), i < j PROVE p[i] < p[j]
  <2>1. j # 1 /\ p[j] = q[j - 1] /\ q[j - 1] \in S \ {m} /\ j - 1 \in 1..n
    BY <1>1, <1>3
  <2>2. CASE i = 1
    <3>1. p[i] = m
      BY <2>2
    <3>2. m <= q[j - 1] /\ q[j - 1] # m /\ q[j - 1] \in Nat
      BY <2>1
    <3> HIDE DEF p
    <3> QED
      BY <2>1, <3>1, <3>2
  <2>3. CASE i # 1
    <3>1. i - 1 \in 1..n /\ p[i] = q[i - 1] /\ i - 1 < j - 1
      BY <1>1, <1>3, <2>3
    <3>2. q[i - 1] < q[j - 1]
      BY <2>1, <3>1 DEF Increasing
    <3> QED
      BY <2>1, <3>1, <3>2
  <2> QED
    BY <2>2, <2>3
<1>4. DOMAIN p = 1..(n + 1)
  OBVIOUS
<1>5. Increasing(p)
  BY <1>3, <1>4 DEF Increasing
<1> QED
  BY <1>2, <1>5

LEMMA OrderExists ==
  ASSUME NEW S \in SUBSET Nat, IsFiniteSet(S)
  PROVE  \E q \in [1..Cardinality(S) -> S] : Increasing(q)
<1> DEFINE Sorted(T, n) == \E q \in [1..n -> T] : Increasing(q)
           N == {n \in Nat : \A T \in SUBSET Nat : IsFiniteSet(T) /\ Cardinality(T) = n => Sorted(T, n)}
<1>1. 0 \in N
  <2>1. ASSUME NEW T \in SUBSET Nat PROVE Sorted(T, 0)
    <3>1. << >> \in [1..0 -> T] /\ DOMAIN << >> = {}
      OBVIOUS
    <3>2. Increasing(<< >>)
      BY <3>1 DEF Increasing
    <3> QED
      BY <3>1, <3>2
  <2> HIDE DEF Sorted
  <2> QED
    BY <2>1
<1>2. ASSUME NEW n \in N PROVE n + 1 \in N
  <2>1. ASSUME NEW T \in SUBSET Nat, IsFiniteSet(T), Cardinality(T) = n + 1 PROVE Sorted(T, n + 1)
    <3>1. T # {}
      BY <2>1, FS_EmptySet
    <3>2. PICK m \in T : \A x \in T : m <= x
      BY <3>1, LeastNumber
    <3>3. IsFiniteSet(T \ {m}) /\ Cardinality(T \ {m}) = n
      BY <2>1, FS_RemoveElement
    <3>4. Sorted(T \ {m}, n)
      <4>1. T \ {m} \in SUBSET Nat
        OBVIOUS
      <4> HIDE DEF Sorted
      <4> QED
        BY <3>3, <4>1
    <3>5. PICK q \in [1..n -> T \ {m}] : Increasing(q)
      BY <3>4
    <3> QED
      BY <3>2, <3>5, SmallestFirst
  <2> HIDE DEF Sorted
  <2> QED
    BY <2>1
<1>3. N = Nat
  <2> HIDE DEF N
  <2>1. N \in SUBSET Nat
    BY DEF N
  <2> QED
    BY <1>1, <1>2, <2>1, SetInduction
<1>4. Cardinality(S) \in N
  BY <1>3, FS_CardinalityType
<1> HIDE DEF Sorted
<1>5. Sorted(S, Cardinality(S))
  BY <1>4
<1> QED
  BY <1>5 DEF Sorted

LEMMA InOrderIs ==
  ASSUME NEW S \in SUBSET Nat, IsFiniteSet(S)
  PROVE  InOrder(S) \in Seq(S) /\ Increasing(InOrder(S))
<1>1. \E q \in [1..Cardinality(S) -> S] : Increasing(q)
  BY OrderExists
<1>2. InOrder(S) \in [1..Cardinality(S) -> S] /\ Increasing(InOrder(S))
  BY <1>1, Zenon DEF InOrder
<1>3. Cardinality(S) \in Nat
  BY FS_CardinalityType
<1> QED
  BY <1>2, <1>3

LEMMA ElementsAreFinite ==
  ASSUME NEW T, NEW q \in Seq(T)
  PROVE  IsFiniteSet(ToSet(q)) /\ ToSet(q) \subseteq T
<1>1. q \in [1..Len(q) -> T] /\ Len(q) \in Nat /\ DOMAIN q = 1..Len(q)
  OBVIOUS
<1>2. q \in Surjection(1..Len(q), ToSet(q))
  BY <1>1 DEF Surjection, ToSet
<1>3. IsFiniteSet(1..Len(q))
  BY <1>1, FS_Interval
<1> QED
  BY <1>1, <1>2, <1>3, FS_Surjection DEF ToSet

\* The values a function has on finitely many arguments are finitely many.
LEMMA ImageIsFinite ==
  ASSUME NEW S, IsFiniteSet(S), NEW f
  PROVE  IsFiniteSet({f[e] : e \in S})
<1> DEFINE g == [e \in S |-> f[e]]
           T == {f[e] : e \in S}
<1>1. g \in [S -> T] /\ \A t \in T : \E e \in S : g[e] = t
  OBVIOUS
<1>2. g \in Surjection(S, T)
  BY <1>1 DEF Surjection
<1> QED
  BY <1>2, FS_Surjection

-----------------------------------------------------------------------------
(* Pages.                                                                  *)

LEMMA Rest ==
  ASSUME NEW q \in Seq(Nat), NEW n \in 0..Len(q)
  PROVE  /\ SubSeq(q, n + 1, Len(q)) \in Seq(Nat) /\ Len(SubSeq(q, n + 1, Len(q))) = Len(q) - n
         /\ \A i \in 1..(Len(q) - n) : SubSeq(q, n + 1, Len(q))[i] = q[n + i]
<1>1. n + 1 \in Int /\ Len(q) \in Int /\ \A i \in (n + 1)..Len(q) : q[i] \in Nat
  OBVIOUS
<1> DEFINE r == SubSeq(q, n + 1, Len(q))
<1>2. r \in Seq(Nat)
  BY <1>1, SubSeqProperties
<1>3. Len(r) = IF n + 1 <= Len(q) THEN Len(q) - (n + 1) + 1 ELSE 0
  BY <1>1, SubSeqProperties
<1>4. \A i \in 1..(Len(q) - (n + 1) + 1) : r[i] = q[(n + 1) + i - 1]
  BY <1>1, SubSeqProperties
<1> HIDE DEF r
<1>5. Len(q) - (n + 1) + 1 = Len(q) - n /\ (~(n + 1 <= Len(q)) => Len(q) - n = 0)
  OBVIOUS
<1>6. \A i \in 1..(Len(q) - n) : (n + 1) + i - 1 = n + i
  OBVIOUS
<1>7. Len(r) = Len(q) - n
  BY <1>3, <1>5
<1>8. \A i \in 1..(Len(q) - n) : r[i] = q[n + i]
  BY <1>4, <1>5, <1>6
<1> QED
  BY <1>2, <1>7, <1>8 DEF r

LEMMA Start ==
  ASSUME NEW q \in Seq(Nat), NEW m \in 0..Len(q)
  PROVE  /\ SubSeq(q, 1, m) \in Seq(Nat) /\ Len(SubSeq(q, 1, m)) = m
         /\ \A i \in 1..m : SubSeq(q, 1, m)[i] = q[i]
OBVIOUS

\* The page holds m events of a source in order, from its n-th on, all after a.
Slice(q, a, n, m, page) ==
  /\ q \in Seq(Nat) /\ Increasing(q) /\ a \in Nat /\ n \in 0..Len(q)
  /\ \A i \in 1..Len(q) : q[i] <= a <=> i <= n
  /\ m \in 0..(Len(q) - n) /\ page \in Seq(Nat) /\ Len(page) = m
  /\ \A i \in 1..m : page[i] = q[n + i]

LEMMA PageAfter ==
  ASSUME NEW q, NEW a, NEW n, NEW m, NEW page, Slice(q, a, n, m, page)
  PROVE  /\ Increasing(page) /\ ToSet(page) \subseteq ToSet(q)
         /\ \A e \in ToSet(page) : e > a
         /\ \A e \in ToSet(q) \ ToSet(page) : e <= a \/ (m < Len(q) - n /\ \A p \in ToSet(page) : p < e)
<1> USE DEF Slice
<1>1. ASSUME NEW i \in 1..m PROVE n + i \in 1..Len(q) /\ page[i] = q[n + i]
  OBVIOUS
<1>2. DOMAIN page = 1..m /\ DOMAIN q = 1..Len(q)
  OBVIOUS
<1>3. Increasing(page)
  <2>1. ASSUME NEW i \in 1..m, NEW j \in 1..m, i < j PROVE page[i] < page[j]
    <3>1. n + i \in 1..Len(q) /\ n + j \in 1..Len(q) /\ page[i] = q[n + i] /\ page[j] = q[n + j]
      BY <1>1
    <3>2. n + i < n + j
      BY <2>1
    <3>3. q[n + i] < q[n + j]
      <4>1. n + i \in DOMAIN q /\ n + j \in DOMAIN q
        BY <1>2, <3>1
      <4> QED
        BY <3>2, <4>1, Zenon DEF Increasing
    <3> QED
      BY <3>1, <3>3
  <2> QED
    BY <1>2, <2>1 DEF Increasing
<1>4. ToSet(page) \subseteq ToSet(q)
  BY <1>1, <1>2 DEF ToSet
<1>5. ASSUME NEW e \in ToSet(page) PROVE e > a
  <2>1. PICK i \in 1..m : e = page[i]
    BY <1>2 DEF ToSet
  <2>2. n + i \in 1..Len(q) /\ e = q[n + i] /\ ~(n + i <= n)
    BY <1>1, <2>1
  <2> QED
    BY <2>2
<1>6. ASSUME NEW e \in ToSet(q) \ ToSet(page), ~(e <= a)
       PROVE  m < Len(q) - n /\ \A p \in ToSet(page) : p < e
  <2>1. PICK k \in 1..Len(q) : e = q[k]
    BY <1>2 DEF ToSet
  <2>2. ~(k <= n)
    BY <1>6, <2>1
  <2>3. k - n \in 1..(Len(q) - n) /\ k = n + (k - n)
    BY <2>2
  <2>4. ~(k - n <= m)
    <3> SUFFICES ASSUME k - n <= m PROVE FALSE
      OBVIOUS
    <3>1. k - n \in 1..m
      BY <2>3
    <3>2. page[k - n] = e
      BY <1>1, <2>1, <2>3, <3>1
    <3> QED
      BY <1>2, <3>1, <3>2 DEF ToSet
  <2>5. m < Len(q) - n
    BY <2>3, <2>4
  <2>6. ASSUME NEW i \in 1..m PROVE page[i] < e
    <3>1. n + i \in 1..Len(q) /\ page[i] = q[n + i] /\ n + i < k
      BY <1>1, <2>3, <2>4
    <3> QED
      BY <1>2, <2>1, <3>1 DEF Increasing
  <2> QED
    BY <1>2, <2>5, <2>6 DEF ToSet
<1> QED
  BY <1>3, <1>4, <1>5, <1>6

\* What load_event_page answers about a source in order: the events after the
\* cursor, without a gap, as many as fit on a page.
LEMMA NextPage ==
  ASSUME NEW q \in Seq(Nat), Increasing(q), NEW a \in Nat, NEW size \in Nat \ {0}
  PROVE  LET rest == SubSeq(q, Past(q, a) + 1, Len(q))
             more == Len(rest) > size
             page == SubSeq(rest, 1, IF Len(rest) > size THEN size ELSE Len(rest))
         IN  /\ page \in Seq(Nat) /\ Increasing(page) /\ ToSet(page) \subseteq ToSet(q)
             /\ more => page # << >>
             /\ \A e \in ToSet(page) : e > a
             /\ \A e \in ToSet(q) \ ToSet(page) : e <= a \/ (more /\ \A p \in ToSet(page) : p < e)
<1> DEFINE n == Past(q, a)
           rest == SubSeq(q, n + 1, Len(q))
           more == Len(rest) > size
           m == IF Len(rest) > size THEN size ELSE Len(rest)
           page == SubSeq(rest, 1, m)
<1>1. n \in 0..Len(q) /\ \A i \in 1..Len(q) : q[i] <= a <=> i <= n
  BY PastIs
<1> HIDE DEF n
<1>2. rest \in Seq(Nat) /\ Len(rest) = Len(q) - n /\ \A i \in 1..(Len(q) - n) : rest[i] = q[n + i]
  BY <1>1, Rest
<1> HIDE DEF rest
<1>3. m \in 0..Len(rest) /\ (m < Len(rest) => m >= 1) /\ (Len(rest) > size <=> m < Len(rest))
  BY <1>2
<1> HIDE DEF m
<1>4. page \in Seq(Nat) /\ Len(page) = m /\ \A i \in 1..m : page[i] = rest[i]
  BY <1>2, <1>3, Start
<1> HIDE DEF page
<1>5. m \in 0..(Len(q) - n) /\ (m < Len(q) - n => m >= 1) /\ \A i \in 1..m : page[i] = q[n + i]
  <2>1. \A i \in 1..m : i \in 1..(Len(q) - n)
    BY <1>1, <1>2, <1>3
  <2> QED
    BY <1>2, <1>3, <1>4, <2>1
<1>6. /\ Increasing(page) /\ ToSet(page) \subseteq ToSet(q)
      /\ \A e \in ToSet(page) : e > a
      /\ \A e \in ToSet(q) \ ToSet(page) : e <= a \/ (m < Len(q) - n /\ \A p \in ToSet(page) : p < e)
  <2>1. Slice(q, a, n, m, page)
    BY <1>1, <1>4, <1>5, Zenon DEF Slice
  <2> QED
    BY <2>1, PageAfter
<1>7. Len(rest) > size <=> m < Len(q) - n
  BY <1>2, <1>3
<1>8. Len(rest) > size => page # << >>
  BY <1>4, <1>5, <1>7
<1> QED
  BY <1>4, <1>6, <1>7, <1>8, Zenon DEF page, m, rest, n

-----------------------------------------------------------------------------
(* What the actions do to a scan, field by field.                          *)

LEMMA IdleFields ==
  DOMAIN Idle = Fields /\ Idle.pc = "idle" /\ Idle.taken = << >> /\ Idle.done = {}
BY DEF Idle, Fields

LEMMA AskScan ==
  ASSUME NEW q, Ask(q)
  PROVE  \E ask \in Asks(q) :
           /\ DOMAIN scan' = Fields /\ scan'.pc = "begin" /\ scan'.ask = ask
           /\ scan'.taken = << >> /\ scan'.done = {}
BY IdleFields DEF Ask, Fields

LEMMA BeginScan ==
  ASSUME ReadingInv, Begin
  PROVE  LET S == scan.ask.sources
         IN  /\ DOMAIN scan' = Fields /\ scan'.pc = "assert" /\ scan'.ask = scan.ask
             /\ scan'.turn = Smallest(S) /\ scan'.todo = S \ {Smallest(S)}
             /\ scan'.heads = [s \in S |-> << >>] /\ scan'.after = [s \in S |-> 0]
             /\ scan'.more = [s \in S |-> TRUE]
             /\ scan'.done = scan.done /\ scan'.taken = scan.taken
BY DEF ReadingInv, Begin, Fields

LEMMA AssertScan ==
  ASSUME ReadingInv, AssertToken
  PROVE  /\ DOMAIN scan' = Fields /\ scan'.pc = "load" /\ scan'.ask = scan.ask /\ scan'.todo = scan.todo
         /\ scan'.turn = scan.turn /\ scan'.heads = scan.heads /\ scan'.after = scan.after
         /\ scan'.more = scan.more /\ scan'.done = scan.done /\ scan'.taken = scan.taken
BY DEF ReadingInv, AssertToken, Fields

LEMMA LoadScan ==
  ASSUME ReadingInv, Load
  PROVE  LET s == scan.turn
             now == Content[s][version[s]]
             rest == SubSeq(now, Past(now, scan.after[s]) + 1, Len(now))
         IN  /\ DOMAIN scan' = Fields /\ scan'.pc = "recheck" /\ scan'.ask = scan.ask /\ scan'.todo = scan.todo
             /\ scan'.turn = s /\ scan'.heads = scan.heads /\ scan'.after = scan.after
             /\ scan'.more = [scan.more EXCEPT ![s] = Len(rest) > PageSize]
             /\ scan'.page = SubSeq(rest, 1, IF Len(rest) > PageSize THEN PageSize ELSE Len(rest))
             /\ scan'.done = scan.done /\ scan'.taken = scan.taken
BY DEF ReadingInv, Load, Fields

LEMMA RecheckScan ==
  ASSUME ReadingInv, Recheck
  PROVE  LET s == scan.turn
             next == IF scan.todo = {} THEN Null ELSE Smallest(scan.todo)
         IN  /\ DOMAIN scan' = Fields /\ scan'.pc = (IF next = Null THEN "merge" ELSE "assert")
             /\ scan'.ask = scan.ask /\ scan'.turn = next /\ scan'.todo = scan.todo \ {next}
             /\ scan'.heads = [scan.heads EXCEPT ![s] = scan.page]
             /\ scan'.after = [scan.after EXCEPT ![s] = IF scan.page = << >> THEN scan.after[s] ELSE Last(scan.page)]
             /\ scan'.more = scan.more
             /\ scan'.done = IF scan.page = << >> THEN scan.done \cup {s} ELSE scan.done
             /\ scan'.taken = scan.taken
BY DEF ReadingInv, Recheck, Fields

LEMMA InterruptScan ==
  ASSUME ReadingInv, NEW s, Interrupt(s)
  PROVE  /\ DOMAIN scan' = Fields /\ scan'.pc = "certify" /\ scan'.failed = {s} /\ scan'.ask = scan.ask
         /\ scan'.done = scan.done /\ scan'.taken = scan.taken
BY DEF ReadingInv, Interrupt, Fields

First == CHOOSE x \in Waiting : \A y \in Waiting : scan.heads[x][1] <= scan.heads[y][1]

LEMMA ConsumeScan ==
  ASSUME ReadingInv, Consume
  PROVE  LET s == First
             rest == Tail(scan.heads[s])
             ended == rest = << >> /\ ~scan.more[s]
             fetch == rest = << >> /\ scan.more[s]
         IN  /\ DOMAIN scan' = Fields /\ scan'.pc = (IF fetch THEN "assert" ELSE "merge")
             /\ scan'.ask = scan.ask /\ scan'.turn = (IF fetch THEN s ELSE Null) /\ scan'.todo = scan.todo
             /\ scan'.heads = [scan.heads EXCEPT ![s] = rest]
             /\ scan'.after = scan.after /\ scan'.more = scan.more
             /\ scan'.done = (IF ended THEN scan.done \cup {s} ELSE scan.done)
             /\ scan'.taken = Append(scan.taken, scan.heads[s][1])
BY DEF ReadingInv, Consume, First, Fields

-----------------------------------------------------------------------------
(* Steps that leave the results.                                           *)

LEMMA OwnIs ==
  ASSUME NEW s \in Sources
  PROVE  /\ Content[s][Prepared] \in Seq(Nat) /\ Increasing(Content[s][Prepared])
         /\ Own(s) = ToSet(Content[s][Prepared])
         /\ Own(s) \subseteq Nat \ {0} /\ IsFiniteSet(Own(s))
<1>1. Content[s][Prepared] \in Seq(Nat \ {0}) /\ Increasing(Content[s][Prepared])
  BY ExplorationAssumption
<1>2. Content[s][Prepared] \in Seq(Nat)
  BY <1>1
<1>3. IsFiniteSet(Own(s)) /\ Own(s) \subseteq Nat \ {0}
  BY <1>1, ElementsAreFinite DEF Own
<1> QED
  BY <1>1, <1>2, <1>3 DEF Own

LEMMA SameResults ==
  ASSUME results' = results
  PROVE  /\ \A ask : AskSound(ask)' <=> AskSound(ask)
         /\ \A res : ResultInv(res)' <=> ResultInv(res)
<1>1. \A ask : AskSound(ask)' <=> AskSound(ask)
  BY DEF AskSound, Met
<1> QED
  BY <1>1 DEF ResultInv

LEMMA StoreStays ==
  ASSUME StoreInv, UNCHANGED store, asked' \in {asked, asked + 1}, ReadingInv
  PROVE  StoreInv'
<1>1. results' = results /\ pages' = pages
  BY DEF store
<1>2. Len(results') <= asked'
  <2>1. Len(results) \in Nat /\ asked \in Nat /\ Len(results) <= asked
    BY ExplorationAssumption DEF StoreInv, ReadingInv
  <2> QED
    BY <1>1, <2>1
<1>3. ASSUME NEW r \in DOMAIN results' PROVE ResultInv(results[r])'
  <2>1. ResultInv(results[r])
    BY <1>1 DEF StoreInv
  <2>2. results[r]' = results[r]
    BY <1>1
  <2> DEFINE res == results[r]
  <2>3. ResultInv(res)' <=> ResultInv(res)
    BY <1>1, SameResults
  <2> QED
    BY <2>1, <2>3
<1> QED
  BY <1>1, <1>2, <1>3 DEF StoreInv

LEMMA ScanStays ==
  ASSUME ReadingInv, ScanInv, UNCHANGED <<scan, results, asked>>,
         \A s \in Sources : version'[s] = Prepared => version[s] = Prepared
  PROVE  ScanInv'
<1>1. scan' = scan /\ results' = results /\ asked' = asked
  OBVIOUS
<1>2. Consumed' <=> Consumed
  BY <1>1, SameResults DEF Consumed
<1>3. \A s : Streams(s)' <=> Streams(s)
  BY <1>1 DEF Streams
<1>4. PageInv' <=> PageInv
  BY <1>1 DEF PageInv
<1>5. scan.pc = "recheck" => scan.turn \in Sources
  BY DEF ScanInv, Started, Consumed, AskSound
<1>6. scan.pc = "recheck" /\ version'[scan.turn] = Prepared => PageInv
  BY <1>5 DEF ScanInv
<1> QED
  BY <1>1, <1>2, <1>3, <1>4, <1>6 DEF ScanInv

LEMMA ScanEnds ==
  ASSUME scan' = Idle
  PROVE  ScanInv'
BY IdleFields DEF ScanInv, Started

\* The consumed events, if none is consumed now.
LEMMA ConsumedStays ==
  ASSUME Consumed, scan'.ask = scan.ask, scan'.done = scan.done, scan'.taken = scan.taken,
         results' = results, asked' = asked
  PROVE  Consumed'
BY SameResults DEF Consumed

LEMMA BeginInv ==
  ASSUME ReadingInv, ScanInv, Begin
  PROVE  ScanInv'
<1> DEFINE S == scan.ask.sources
<1>1. /\ scan'.pc = "assert" /\ scan'.ask = scan.ask
      /\ scan'.turn = Smallest(S) /\ scan'.todo = S \ {Smallest(S)}
      /\ scan'.heads = [s \in S |-> << >>] /\ scan'.after = [s \in S |-> 0]
      /\ scan'.more = [s \in S |-> TRUE]
      /\ scan'.done = scan.done /\ scan'.taken = scan.taken
  BY BeginScan, Zenon
<1>2. results' = results /\ asked' = asked /\ scan.pc = "begin"
  BY DEF Begin, store
<1>3. Consumed /\ scan.taken = << >> /\ scan.done = {} /\ S \subseteq Sources /\ S # {}
  BY <1>2 DEF ScanInv, Consumed, AskSound
<1>4. Smallest(S) \in S
  BY <1>3, ExplorationAssumption, SmallestIs
<1>5. Consumed'
  BY <1>1, <1>2, <1>3, ConsumedStays
<1>6. << >> \in Seq(Nat) /\ Increasing(<< >>) /\ ToSet(<< >>) = {}
  BY DEF Increasing, ToSet
<1>7. ASSUME NEW s \in S PROVE Streams(s)'
  <2>1. scan'.heads[s] = << >> /\ scan'.after[s] = 0 /\ scan'.more[s] = TRUE
    BY <1>1
  <2>2. \A e \in Own(s) : ~(e <= 0)
    BY <1>3, OwnIs
  <2>3. s \in scan'.todo \/ s = scan'.turn
    BY <1>1
  <2>4. scan'.taken = << >> /\ s \notin scan'.done
    BY <1>1, <1>3
  <2> HIDE DEF S
  <2>5. /\ scan'.heads[s] \in Seq(Nat) /\ Increasing(scan'.heads[s]) /\ ToSet(scan'.heads[s]) = {}
        /\ ToSet(scan'.taken) = {}
    BY <1>6, <2>1, <2>4
  <2>6. scan'.more[s] \in BOOLEAN /\ scan'.more[s]
    BY <2>1
  <2>7. \A e \in Own(s) : ~(e <= scan'.after[s])
    BY <2>1, <2>2
  <2>8. scan'.after[s] \in Nat
    BY <2>1
  <2> QED
    BY <2>1, <2>3, <2>4, <2>5, <2>6, <2>7, <2>8 DEF Streams
<1>8. /\ DOMAIN scan'.heads = S /\ DOMAIN scan'.after = S /\ DOMAIN scan'.more = S
      /\ scan'.turn \in S \ scan'.todo /\ scan'.heads[scan'.turn] = << >>
  BY <1>1, <1>4
<1> HIDE DEF S
<1> QED
  BY <1>1, <1>3, <1>5, <1>7, <1>8 DEF ScanInv, Started, S

LEMMA AssertInv ==
  ASSUME ReadingInv, ScanInv, AssertToken
  PROVE  ScanInv'
<1>1. /\ scan'.pc = "load" /\ scan'.ask = scan.ask /\ scan'.todo = scan.todo
      /\ scan'.turn = scan.turn /\ scan'.heads = scan.heads /\ scan'.after = scan.after
      /\ scan'.more = scan.more /\ scan'.done = scan.done /\ scan'.taken = scan.taken
  BY AssertScan
<1>2. results' = results /\ asked' = asked /\ scan.pc = "assert"
  BY DEF AssertToken, store
<1>3. Consumed'
  BY <1>1, <1>2, ConsumedStays DEF ScanInv
<1>4. \A s : Streams(s)' <=> Streams(s)
  BY <1>1 DEF Streams
<1> QED
  BY <1>1, <1>2, <1>3, <1>4 DEF ScanInv, Started

LEMMA LoadInv ==
  ASSUME ReadingInv, ScanInv, Load
  PROVE  ScanInv'
<1> DEFINE s == scan.turn
           now == Content[s][version[s]]
           rest == SubSeq(now, Past(now, scan.after[s]) + 1, Len(now))
           more == Len(rest) > PageSize
           page == SubSeq(rest, 1, IF Len(rest) > PageSize THEN PageSize ELSE Len(rest))
<1>1. /\ scan'.pc = "recheck" /\ scan'.ask = scan.ask /\ scan'.todo = scan.todo
      /\ scan'.turn = s /\ scan'.heads = scan.heads /\ scan'.after = scan.after
      /\ scan'.more = [scan.more EXCEPT ![s] = more] /\ scan'.page = page
      /\ scan'.done = scan.done /\ scan'.taken = scan.taken
  BY LoadScan, Zenon
<1>2. results' = results /\ asked' = asked /\ version' = version /\ scan.pc = "load"
  BY DEF Load, store
<1>3. /\ s \in scan.ask.sources \ scan.todo /\ s \in Sources /\ Streams(s) /\ scan.heads[s] = << >>
      /\ scan.ask.sources \subseteq Sources /\ DOMAIN scan.more = scan.ask.sources
  BY <1>2 DEF ScanInv, Started, Consumed, AskSound
<1>4. version[s] = Prepared => PageInv'
  <2> SUFFICES ASSUME version[s] = Prepared PROVE PageInv'
    OBVIOUS
  <2>1. now \in Seq(Nat) /\ Increasing(now) /\ ToSet(now) = Own(s)
    BY <1>3, OwnIs
  <2>2. scan.after[s] \in Nat /\ PageSize \in Nat \ {0}
    BY <1>3, ExplorationAssumption DEF Streams
  <2> HIDE DEF now
  <2>3. /\ page \in Seq(Nat) /\ Increasing(page) /\ ToSet(page) \subseteq ToSet(now)
        /\ more => page # << >>
        /\ \A e \in ToSet(page) : e > scan.after[s]
        /\ \A e \in ToSet(now) \ ToSet(page) :
             e <= scan.after[s] \/ (more /\ \A p \in ToSet(page) : p < e)
    BY <2>1, <2>2, NextPage, Zenon
  <2> HIDE DEF page, more
  <2>4. scan'.more[s] = more
    BY <1>1, <1>3
  <2> HIDE DEF s
  <2> QED
    BY <1>1, <2>1, <2>3, <2>4 DEF PageInv
<1>5. Consumed'
  BY <1>1, <1>2, ConsumedStays DEF ScanInv
<1>6. more \in BOOLEAN
  OBVIOUS
<1> HIDE DEF more, page
<1>7. ASSUME NEW t \in scan.ask.sources PROVE Streams(t)'
  <2>1. Streams(t)
    BY <1>2 DEF ScanInv, Started
  <2>2. CASE t = s
    <3>1. scan'.more[t] = more
      BY <1>1, <1>3, <2>2
    <3> QED
      BY <1>1, <1>6, <2>1, <2>2, <3>1 DEF Streams
  <2>3. CASE t # s
    <3>1. scan'.more[t] = scan.more[t]
      BY <1>1, <1>3, <2>3
    <3> QED
      BY <1>1, <2>1, <3>1 DEF Streams
  <2> QED
    BY <2>2, <2>3
<1>8. DOMAIN scan'.more = scan.ask.sources
  BY <1>1, <1>3
<1> HIDE DEF s
<1> QED
  BY <1>1, <1>2, <1>3, <1>4, <1>5, <1>7, <1>8 DEF ScanInv, Started, s

-----------------------------------------------------------------------------
(* A page is taken over.                                                   *)

LEMMA LastIsLargest ==
  ASSUME NEW q \in Seq(Nat), Increasing(q), q # << >>
  PROVE  Last(q) \in Nat /\ Last(q) \in ToSet(q) /\ \A p \in ToSet(q) : p <= Last(q)
<1>1. Len(q) \in 1..Len(q) /\ DOMAIN q = 1..Len(q) /\ Last(q) = q[Len(q)]
  BY DEF Last
<1>2. Last(q) \in Nat /\ Last(q) \in ToSet(q)
  BY <1>1 DEF ToSet
<1>3. ASSUME NEW i \in 1..Len(q) PROVE q[i] <= q[Len(q)]
  <2>1. i < Len(q) => q[i] < q[Len(q)]
    BY <1>1 DEF Increasing
  <2>2. q[i] \in Nat /\ q[Len(q)] \in Nat
    BY <1>1
  <2> QED
    BY <2>1, <2>2
<1> QED
  BY <1>1, <1>2, <1>3 DEF ToSet

LEMMA RecheckInv ==
  ASSUME ReadingInv, ScanInv, Recheck
  PROVE  ScanInv'
<1> DEFINE s == scan.turn
           next == IF scan.todo = {} THEN Null ELSE Smallest(scan.todo)
           page == scan.page
           last == IF scan.page = << >> THEN scan.after[s] ELSE Last(scan.page)
           S == scan.ask.sources
<1>1. /\ scan'.pc = (IF next = Null THEN "merge" ELSE "assert")
      /\ scan'.ask = scan.ask /\ scan'.turn = next /\ scan'.todo = scan.todo \ {next}
      /\ scan'.heads = [scan.heads EXCEPT ![s] = page] /\ scan'.after = [scan.after EXCEPT ![s] = last]
      /\ scan'.more = scan.more
      /\ scan'.done = (IF page = << >> THEN scan.done \cup {s} ELSE scan.done)
      /\ scan'.taken = scan.taken
  BY RecheckScan, Zenon
<1>2. results' = results /\ asked' = asked /\ scan.pc = "recheck" /\ Unchanged(s)
  BY DEF Recheck, store
<1>3. /\ s \in S \ scan.todo /\ S \in SUBSET Sources /\ scan.heads[s] = << >>
      /\ DOMAIN scan.heads = S /\ DOMAIN scan.after = S /\ DOMAIN scan.more = S
      /\ scan.todo \subseteq S /\ (scan.todo # {} => scan.taken = << >>)
      /\ Consumed /\ \A t \in S : Streams(t)
  BY <1>2 DEF ScanInv, Started, Consumed, AskSound
<1>4. PageInv
  <2>1. version[s] = Prepared
    BY <1>2 DEF Unchanged, Current
  <2> QED
    BY <1>2, <2>1 DEF ScanInv
<1>5. /\ page \in Seq(Nat) /\ Increasing(page) /\ ToSet(page) \subseteq Own(s)
      /\ scan.more[s] => page # << >>
      /\ \A e \in ToSet(page) : e > scan.after[s]
      /\ \A e \in Own(s) \ ToSet(page) :
           e <= scan.after[s] \/ (scan.more[s] /\ \A p \in ToSet(page) : p < e)
  BY <1>4 DEF PageInv
<1>6. /\ scan.after[s] \in Nat /\ scan.more[s] \in BOOLEAN
      /\ \A e \in Own(s) : e <= scan.after[s] <=> e \in ToSet(scan.taken)
  <2>1. Streams(s) /\ ToSet(<< >>) = {}
    BY <1>3 DEF ToSet
  <2> QED
    BY <1>3, <2>1 DEF Streams
<1>7. Own(s) \subseteq Nat
  BY <1>3, OwnIs
<1>8. \A t \in scan.done : t \in S /\ Own(t) \subseteq ToSet(scan.taken)
  BY <1>3 DEF Consumed
<1> HIDE DEF s, page, S
<1>9. /\ last \in Nat /\ scan.after[s] <= last /\ \A p \in ToSet(page) : p <= last
      /\ \A e \in Own(s) : e <= last <=> e \in ToSet(scan.taken) \cup ToSet(page)
      /\ ~scan.more[s] => \A e \in Own(s) : e <= last
  <2>1. CASE page = << >>
    <3>1. last = scan.after[s] /\ ToSet(page) = {}
      BY <2>1 DEF page, ToSet
    <3> HIDE DEF last
    <3>2. ~scan.more[s] /\ \A e \in Own(s) : e <= scan.after[s]
      BY <1>5, <2>1, <3>1
    <3> QED
      BY <1>6, <3>1, <3>2
  <2>2. CASE page # << >>
    <3>1. last = Last(page)
      BY <2>2 DEF page
    <3>2. last \in Nat /\ last \in ToSet(page) /\ \A p \in ToSet(page) : p <= last
      BY <1>5, <2>2, <3>1, LastIsLargest
    <3> HIDE DEF last
    <3>3. scan.after[s] < last
      BY <1>5, <3>2
    <3>4. ASSUME NEW e \in Own(s), e <= last, e \notin ToSet(page) PROVE e <= scan.after[s]
      <4>1. e \in Nat /\ ~(last < e)
        BY <1>7, <3>2, <3>4
      <4> QED
        BY <1>5, <3>2, <3>4, <4>1
    <3>5. ASSUME NEW e \in Own(s), e \in ToSet(scan.taken) PROVE e <= last
      BY <1>6, <1>7, <3>2, <3>3, <3>5
    <3>6. ASSUME NEW e \in Own(s), ~scan.more[s] PROVE e <= last
      <4>1. e \in ToSet(page) \/ e <= scan.after[s]
        BY <1>5, <3>6
      <4> QED
        BY <1>6, <1>7, <3>2, <3>3, <4>1
    <3>7. scan.after[s] <= last
      BY <1>6, <3>2, <3>3
    <3>8. ASSUME NEW e \in Own(s) PROVE e <= last <=> e \in ToSet(scan.taken) \cup ToSet(page)
      <4>1. e <= last /\ e \notin ToSet(page) => e \in ToSet(scan.taken)
        BY <1>6, <3>4
      <4>2. e \in ToSet(scan.taken) \cup ToSet(page) => e <= last
        BY <3>2, <3>5
      <4> QED
        BY <4>1, <4>2
    <3> QED
      BY <3>2, <3>6, <3>7, <3>8
  <2> QED
    BY <2>1, <2>2
<1>10. page = << >> => Own(s) \subseteq ToSet(scan.taken)
  <2>1. page = << >> => ToSet(page) = {}
    BY DEF ToSet
  <2> QED
    BY <1>5, <1>6, <2>1
<1>11. ToSet(page) \cap ToSet(scan.taken) = {}
  <2> SUFFICES ASSUME NEW e \in ToSet(page), e \in ToSet(scan.taken) PROVE FALSE
    OBVIOUS
  <2>1. e \in Own(s) /\ e > scan.after[s] /\ e \in Nat /\ e <= scan.after[s]
    BY <1>5, <1>6, <1>7
  <2> QED
    BY <1>6, <2>1
<1>12. s \in scan.done => page = << >>
  <2> SUFFICES ASSUME s \in scan.done, page # << >> PROVE FALSE
    OBVIOUS
  <2>1. Last(page) \in ToSet(page)
    BY <1>5, LastIsLargest
  <2>2. Last(page) \in ToSet(scan.taken)
    BY <1>5, <1>8, <2>1
  <2> QED
    BY <1>11, <2>1, <2>2
<1>13. next # Null => next \in scan.todo /\ scan.todo # {}
  <2>1. scan.todo # {} => Smallest(scan.todo) \in scan.todo
    BY <1>3, ExplorationAssumption, SmallestIs
  <2> QED
    BY <2>1
<1>14. next = Null => scan.todo = {}
  <2>1. scan.todo # {} => Smallest(scan.todo) \in Nat
    BY <1>3, ExplorationAssumption, SmallestIs
  <2> QED
    BY <2>1, ExplorationAssumption
<1> HIDE DEF next, last
<1>15. ASSUME NEW t \in S, t = s PROVE Streams(t)'
  <2>1. scan'.heads[t] = page /\ scan'.after[t] = last /\ scan'.more[t] = scan.more[t]
    BY <1>15, <1>1, <1>3
  <2>2. t \in scan'.done => page = << >>
    BY <1>15, <1>1, <1>12
  <2>3. t \notin scan'.done => page # << >>
    BY <1>15, <1>1
  <2>4. t \notin scan'.todo /\ scan'.taken = scan.taken
    BY <1>15, <1>1, <1>3
  <2>5. /\ scan'.heads[t] \in Seq(Nat) /\ Increasing(scan'.heads[t]) /\ ToSet(scan'.heads[t]) \subseteq Own(t)
        /\ scan'.after[t] \in Nat /\ scan'.more[t] \in BOOLEAN
    BY <1>15, <1>5, <1>6, <1>9, <2>1
  <2>6. /\ \A e \in Own(t) : e <= scan'.after[t] <=> e \in ToSet(scan'.taken) \cup ToSet(scan'.heads[t])
        /\ ~scan'.more[t] => \A e \in Own(t) : e <= scan'.after[t]
    BY <1>15, <1>9, <2>1, <2>4
  <2>7. ToSet(scan'.heads[t]) \cap ToSet(scan'.taken) = {}
    BY <1>15, <1>11, <2>1, <2>4
  <2> QED
    BY <2>1, <2>2, <2>3, <2>4, <2>5, <2>6, <2>7 DEF Streams
<1>16. ASSUME NEW t \in S, t # s PROVE Streams(t)'
  <2>1. scan'.heads[t] = scan.heads[t] /\ scan'.after[t] = scan.after[t] /\ scan'.more[t] = scan.more[t]
    BY <1>1, <1>3, <1>16
  <2>2. t \in scan'.done <=> t \in scan.done
    BY <1>1, <1>16
  <2>3. (t \in scan'.todo => t \in scan.todo) /\ (t \in scan.todo => t \in scan'.todo \/ t = scan'.turn)
    BY <1>1
  <2>4. Streams(t) /\ t # scan.turn /\ scan'.taken = scan.taken
    BY <1>1, <1>3, <1>16 DEF s
  <2> QED
    BY <2>1, <2>2, <2>3, <2>4 DEF Streams
<1>17. Consumed'
  <2>1. scan'.done \subseteq S /\ \A t \in scan'.done : Own(t) \subseteq ToSet(scan.taken)
    BY <1>1, <1>3, <1>8, <1>10
  <2> QED
    BY <1>1, <1>2, <1>3, <2>1, SameResults DEF Consumed, S
<1>18. /\ DOMAIN scan'.heads = S /\ DOMAIN scan'.after = S /\ DOMAIN scan'.more = S
       /\ scan'.todo \subseteq S /\ (scan'.todo # {} => scan'.taken = << >>)
       /\ scan'.ask.sources = S
  <2>1. scan'.todo \subseteq scan.todo
    BY <1>1
  <2> QED
    BY <1>1, <1>3, <2>1 DEF S
<1>19. \A t \in scan'.ask.sources : Streams(t)'
  <2>1. \A t \in S : Streams(t)'
    BY <1>15, <1>16
  <2> QED
    BY <1>18, <2>1
<1>20. CASE next = Null
  <2>1. scan'.pc = "merge" /\ scan'.turn = Null /\ scan'.todo = {}
    BY <1>1, <1>14, <1>20
  <2> QED
    BY <1>19, <1>17, <1>18, <2>1 DEF ScanInv, Started
<1>21. CASE next # Null
  <2>1. scan'.pc = "assert" /\ scan'.turn = next /\ next \in scan.todo /\ next \notin scan'.todo
    BY <1>1, <1>13, <1>21
  <2>2. next \in S /\ next # s /\ scan.heads[next] = << >>
    BY <1>3, <2>1 DEF Streams
  <2>3. scan'.heads[next] = << >>
    BY <1>1, <1>3, <2>2
  <2> QED
    BY <1>19, <1>17, <1>18, <2>1, <2>2, <2>3 DEF ScanInv, Started
<1> QED
  BY <1>20, <1>21

-----------------------------------------------------------------------------
(* An event is consumed.                                                   *)

LEMMA TailIs ==
  ASSUME NEW q \in Seq(Nat), Increasing(q), q # << >>
  PROVE  /\ Tail(q) \in Seq(Nat) /\ Increasing(Tail(q)) /\ q[1] \in Nat /\ q[1] \in ToSet(q)
         /\ ToSet(q) = {q[1]} \cup ToSet(Tail(q)) /\ q[1] \notin ToSet(Tail(q))
         /\ \A p \in ToSet(q) : q[1] <= p
<1> DEFINE r == Tail(q)
<1>1. /\ r \in Seq(Nat) /\ Len(r) = Len(q) - 1 /\ Len(q) \in Nat \ {0}
      /\ \A i \in 1..(Len(q) - 1) : r[i] = q[i + 1]
  OBVIOUS
<1>2. DOMAIN q = 1..Len(q) /\ DOMAIN r = 1..(Len(q) - 1) /\ q[1] \in Nat
  BY <1>1
<1> HIDE DEF r
<1>3. ASSUME NEW i \in DOMAIN r, NEW j \in DOMAIN r, i < j PROVE r[i] < r[j]
  <2>1. i \in 1..(Len(q) - 1) /\ j \in 1..(Len(q) - 1) /\ Len(q) \in Nat
    BY <1>1, <1>2
  <2>2. i + 1 \in 1..Len(q) /\ j + 1 \in 1..Len(q) /\ i + 1 < j + 1
    BY <1>3, <2>1
  <2>3. q[i + 1] < q[j + 1]
    BY <1>2, <2>2 DEF Increasing
  <2>4. r[i] = q[i + 1] /\ r[j] = q[j + 1]
    BY <1>1, <2>1
  <2> QED
    BY <2>3, <2>4
<1>4. ASSUME NEW i \in DOMAIN r PROVE q[1] < r[i] /\ r[i] \in ToSet(q)
  <2>1. i \in 1..(Len(q) - 1) /\ Len(q) \in Nat
    BY <1>1, <1>2
  <2>2. i + 1 \in 1..Len(q) /\ 1 \in 1..Len(q) /\ 1 < i + 1
    BY <2>1
  <2>3. q[1] < q[i + 1] /\ q[i + 1] \in ToSet(q)
    BY <1>2, <2>2 DEF Increasing, ToSet
  <2>4. r[i] = q[i + 1]
    BY <1>1, <2>1
  <2> QED
    BY <2>3, <2>4
<1>5. ASSUME NEW i \in DOMAIN q PROVE i = 1 \/ q[i] \in ToSet(r)
  <2>1. i # 1 => i - 1 \in 1..(Len(q) - 1) /\ (i - 1) + 1 = i
    BY <1>1, <1>2
  <2>2. i # 1 => r[i - 1] = q[i]
    BY <1>1, <2>1
  <2> QED
    BY <1>2, <2>1, <2>2 DEF ToSet
<1>6. 1 \in DOMAIN q
  BY <1>1, <1>2
<1>7. \A p \in ToSet(r) : q[1] < p /\ p \in ToSet(q) /\ p \in Nat
  BY <1>1, <1>4 DEF ToSet
<1>8. \A p \in ToSet(q) : p = q[1] \/ p \in ToSet(r)
  BY <1>5 DEF ToSet
<1>9. q[1] \in ToSet(q)
  BY <1>6 DEF ToSet
<1>10. \A p \in ToSet(q) : q[1] <= p
  <2> SUFFICES ASSUME NEW p \in ToSet(q) PROVE q[1] <= p
    OBVIOUS
  <2> QED
    BY <1>2, <1>7, <1>8
<1>11. q[1] \notin ToSet(r)
  BY <1>2, <1>7
<1>12. ToSet(q) = {q[1]} \cup ToSet(r)
  BY <1>7, <1>8, <1>9
<1>13. Increasing(r)
  BY <1>3 DEF Increasing
<1> QED
  BY <1>1, <1>2, <1>9, <1>10, <1>11, <1>12, <1>13 DEF r

LEMMA AppendIs ==
  ASSUME NEW q \in Seq(Nat), Increasing(q), NEW m \in Nat, \A t \in ToSet(q) : t < m
  PROVE  /\ Append(q, m) \in Seq(Nat) /\ Increasing(Append(q, m))
         /\ ToSet(Append(q, m)) = ToSet(q) \cup {m}
<1> DEFINE r == Append(q, m)
<1>1. /\ r \in Seq(Nat) /\ Len(q) \in Nat /\ DOMAIN q = 1..Len(q) /\ DOMAIN r = 1..(Len(q) + 1)
      /\ r[Len(q) + 1] = m /\ \A i \in 1..Len(q) : r[i] = q[i]
  OBVIOUS
<1> HIDE DEF r
<1>2. ASSUME NEW i \in DOMAIN r, NEW j \in DOMAIN r, i < j PROVE r[i] < r[j]
  <2>1. i \in 1..Len(q) /\ r[i] = q[i] /\ q[i] \in ToSet(q)
    <3>1. i \in 1..Len(q)
      BY <1>1, <1>2
    <3> QED
      BY <1>1, <3>1 DEF ToSet
  <2>2. CASE j = Len(q) + 1
    BY <1>1, <2>1, <2>2
  <2>3. CASE j # Len(q) + 1
    <3>1. j \in 1..Len(q) /\ r[j] = q[j]
      BY <1>1, <2>3
    <3> QED
      BY <1>1, <1>2, <2>1, <3>1 DEF Increasing
  <2> QED
    BY <2>2, <2>3
<1>3. \A i \in DOMAIN r : i = Len(q) + 1 \/ i \in DOMAIN q
  BY <1>1
<1>4. ToSet(r) = ToSet(q) \cup {m}
  <2>1. ASSUME NEW x \in ToSet(r) PROVE x \in ToSet(q) \cup {m}
    BY <1>1, <1>3 DEF ToSet
  <2>2. ASSUME NEW x \in ToSet(q) PROVE x \in ToSet(r)
    <3>1. PICK i \in DOMAIN q : x = q[i]
      BY DEF ToSet
    <3>2. i \in DOMAIN r /\ r[i] = x
      BY <1>1, <3>1
    <3> QED
      BY <3>2 DEF ToSet
  <2>3. m \in ToSet(r)
    <3>1. Len(q) + 1 \in DOMAIN r
      BY <1>1
    <3> QED
      BY <1>1, <3>1 DEF ToSet
  <2> QED
    BY <2>1, <2>2, <2>3
<1>5. Increasing(r)
  BY <1>2 DEF Increasing
<1> QED
  BY <1>1, <1>4, <1>5 DEF r

\* The stream with the smallest waiting event.
LEMMA FirstIs ==
  ASSUME ScanInv, scan.pc = "merge", Waiting # {}
  PROVE  /\ First \in scan.ask.sources /\ scan.heads[First] # << >>
         /\ \A t \in scan.ask.sources : scan.heads[t] # << >> =>
              scan.heads[First][1] <= scan.heads[t][1]
<1>1. DOMAIN scan.heads = scan.ask.sources /\ \A t \in scan.ask.sources : Streams(t)
  BY DEF ScanInv, Started
<1>2. ASSUME NEW t \in Waiting PROVE scan.heads[t][1] \in Nat
  <2>1. scan.heads[t] \in Seq(Nat) /\ scan.heads[t] # << >>
    BY <1>1, <1>2 DEF Waiting, Streams
  <2> QED
    BY <2>1
<1> DEFINE H == {scan.heads[t][1] : t \in Waiting}
<1>3. H \in SUBSET Nat /\ H # {}
  BY <1>2
<1>4. PICK m \in H : \A n \in H : m <= n
  <2> HIDE DEF H
  <2> QED
    BY <1>3, LeastNumber
<1>5. \E x \in Waiting : \A y \in Waiting : scan.heads[x][1] <= scan.heads[y][1]
  BY <1>4
<1>6. First \in Waiting /\ \A y \in Waiting : scan.heads[First][1] <= scan.heads[y][1]
  BY <1>5, Zenon DEF First
<1> QED
  BY <1>1, <1>6 DEF Waiting

LEMMA SnapshotIs ==
  ASSUME NEW S \in SUBSET Sources
  PROVE  /\ Snapshot(S) \subseteq Nat \ {0}
         /\ \A e : e \in Snapshot(S) <=> \E t \in S : e \in Own(t)
BY OwnIs DEF Snapshot

LEMMA ConsumeInv ==
  ASSUME ReadingInv, ScanInv, Consume
  PROVE  ScanInv'
<1> DEFINE s == First
           m == scan.heads[s][1]
           rest == Tail(scan.heads[s])
           S == scan.ask.sources
<1>1. /\ scan'.pc = (IF rest = << >> /\ scan.more[s] THEN "assert" ELSE "merge")
      /\ scan'.ask = scan.ask /\ scan'.turn = (IF rest = << >> /\ scan.more[s] THEN s ELSE Null)
      /\ scan'.todo = scan.todo /\ scan'.heads = [scan.heads EXCEPT ![s] = rest]
      /\ scan'.after = scan.after /\ scan'.more = scan.more
      /\ scan'.done = (IF rest = << >> /\ ~scan.more[s] THEN scan.done \cup {s} ELSE scan.done)
      /\ scan'.taken = Append(scan.taken, m)
  BY ConsumeScan, Zenon
<1>2. results' = results /\ asked' = asked /\ scan.pc = "merge" /\ Waiting # {}
  BY DEF Consume, store
<1>3. /\ S \in SUBSET Sources /\ DOMAIN scan.heads = S /\ DOMAIN scan.after = S /\ DOMAIN scan.more = S
      /\ scan.todo = {} /\ scan.turn = Null /\ Consumed /\ \A t \in S : Streams(t)
  BY <1>2 DEF ScanInv, Started, Consumed, AskSound
<1>4. \A t \in S : t # Null
  BY <1>3, ExplorationAssumption
<1>5. s \in S /\ scan.heads[s] # << >> /\ \A t \in S : scan.heads[t] # << >> => m <= scan.heads[t][1]
  BY <1>2, FirstIs
<1> HIDE DEF s, S
<1>6. /\ scan.heads[s] \in Seq(Nat) /\ Increasing(scan.heads[s]) /\ ToSet(scan.heads[s]) \subseteq Own(s)
      /\ ToSet(scan.heads[s]) \cap ToSet(scan.taken) = {} /\ scan.after[s] \in Nat /\ scan.more[s] \in BOOLEAN
      /\ \A e \in Own(s) : e <= scan.after[s] <=> e \in ToSet(scan.taken) \cup ToSet(scan.heads[s])
      /\ s \notin scan.done
      /\ ~scan.more[s] => \A e \in Own(s) : e <= scan.after[s]
  <2>1. Streams(s) /\ s # scan.turn
    BY <1>3, <1>4, <1>5
  <2> QED
    BY <1>5, <2>1 DEF Streams
<1>7. /\ rest \in Seq(Nat) /\ Increasing(rest) /\ m \in Nat /\ m \in ToSet(scan.heads[s])
      /\ ToSet(scan.heads[s]) = {m} \cup ToSet(rest) /\ m \notin ToSet(rest)
  BY <1>5, <1>6, TailIs, Zenon
<1> HIDE DEF rest, m
<1>8. m \in Own(s) /\ m \notin ToSet(scan.taken) /\ m <= scan.after[s]
  BY <1>6, <1>7
<1>9. /\ scan.taken \in Seq(Nat) /\ Increasing(scan.taken) /\ ToSet(scan.taken) \subseteq Snapshot(S)
      /\ \A e \in Snapshot(S) \ ToSet(scan.taken) : \A t \in ToSet(scan.taken) : t < e
      /\ scan.done \subseteq S /\ \A t \in scan.done : Own(t) \subseteq ToSet(scan.taken)
  BY <1>3 DEF Consumed, ReadsSnapshot, S
<1>10. m \in Snapshot(S)
  BY <1>3, <1>5, <1>8, SnapshotIs
<1>11. \A t \in ToSet(scan.taken) : t < m
  BY <1>8, <1>9, <1>10
<1>12. /\ scan'.taken \in Seq(Nat) /\ Increasing(scan'.taken)
       /\ ToSet(scan'.taken) = ToSet(scan.taken) \cup {m}
  <2>1. /\ Append(scan.taken, m) \in Seq(Nat) /\ Increasing(Append(scan.taken, m))
        /\ ToSet(Append(scan.taken, m)) = ToSet(scan.taken) \cup {m}
    BY <1>7, <1>9, <1>11, AppendIs
  <2> QED
    BY <1>1, <2>1
<1>13. ASSUME NEW e \in Snapshot(S), e \notin ToSet(scan.taken), e # m PROVE m < e
  <2>1. PICK t \in S : e \in Own(t)
    BY <1>3, <1>13, SnapshotIs
  <2>2. e \in Nat
    BY <1>3, <1>13, SnapshotIs
  <2>3. t \notin scan.done
    BY <1>9, <1>13, <2>1
  <2>4. /\ scan.heads[t] # << >> /\ scan.heads[t] \in Seq(Nat) /\ Increasing(scan.heads[t])
        /\ ToSet(scan.heads[t]) \subseteq Own(t) /\ scan.after[t] \in Nat
        /\ \A x \in Own(t) : x <= scan.after[t] <=> x \in ToSet(scan.taken) \cup ToSet(scan.heads[t])
    BY <1>3, <1>4, <2>1, <2>3 DEF Streams
  <2>5. /\ scan.heads[t][1] \in Nat /\ scan.heads[t][1] \in ToSet(scan.heads[t])
        /\ \A p \in ToSet(scan.heads[t]) : scan.heads[t][1] <= p
    BY <2>4, TailIs
  <2>6. scan.heads[t][1] <= scan.after[t]
    BY <2>4, <2>5
  <2>7. scan.heads[t][1] <= e
    <3>1. CASE e \in ToSet(scan.heads[t])
      BY <2>5, <3>1
    <3>2. CASE e \notin ToSet(scan.heads[t])
      <4>1. ~(e <= scan.after[t])
        BY <1>13, <2>1, <2>4, <3>2
      <4> QED
        BY <2>2, <2>4, <2>5, <2>6, <4>1
    <3> QED
      BY <3>1, <3>2
  <2>8. m <= scan.heads[t][1]
    BY <1>5, <2>1, <2>4
  <2> QED
    BY <1>7, <1>13, <2>2, <2>5, <2>7, <2>8
<1>14. ReadsSnapshot(S, scan'.taken)
  <2>1. ToSet(scan'.taken) \subseteq Snapshot(S)
    BY <1>9, <1>10, <1>12
  <2>2. ASSUME NEW e \in Snapshot(S) \ ToSet(scan'.taken), NEW t \in ToSet(scan'.taken) PROVE t < e
    <3>1. e \notin ToSet(scan.taken) /\ e # m
      BY <1>12
    <3>2. t \in ToSet(scan.taken) \/ t = m
      BY <1>12
    <3> QED
      BY <1>9, <1>13, <3>1, <3>2
  <2> QED
    BY <1>12, <2>1, <2>2 DEF ReadsSnapshot
<1>15. scan'.done \subseteq S /\ \A t \in scan'.done : Own(t) \subseteq ToSet(scan'.taken)
  <2>1. ASSUME rest = << >>, ~scan.more[s] PROVE Own(s) \subseteq ToSet(scan'.taken)
    <3>1. ToSet(rest) = {}
      BY <2>1 DEF ToSet
    <3> QED
      BY <1>6, <1>7, <1>12, <2>1, <3>1
  <2>2. \A t \in scan.done : Own(t) \subseteq ToSet(scan'.taken)
    BY <1>9, <1>12
  <2> QED
    BY <1>1, <1>5, <1>9, <2>1, <2>2
<1>16. Consumed'
  <2>1. AskSound(scan.ask) /\ Len(results) < asked
    BY <1>3 DEF Consumed
  <2>2. AskSound(scan.ask)'
    BY <1>1, <1>2, <2>1, SameResults
  <2> QED
    BY <1>1, <1>2, <1>12, <1>14, <1>15, <2>1, <2>2 DEF Consumed, S
<1>17. ASSUME NEW t \in S, t = s PROVE Streams(t)'
  <2>1. scan'.heads[t] = rest /\ scan'.after[t] = scan.after[t] /\ scan'.more[t] = scan.more[t]
    BY <1>1, <1>3, <1>17
  <2>2. t \in scan'.done => rest = << >>
    BY <1>1, <1>6, <1>17
  <2>3. t \notin {scan'.turn} \cup scan'.done => rest # << >>
    BY <1>1, <1>6, <1>17
  <2>4. t \notin scan'.todo
    BY <1>1, <1>3
  <2>5. \A e \in Own(t) : e <= scan'.after[t] <=> e \in ToSet(scan'.taken) \cup ToSet(scan'.heads[t])
    BY <1>6, <1>7, <1>12, <1>17, <2>1
  <2>6. ToSet(scan'.heads[t]) \cap ToSet(scan'.taken) = {} /\ ToSet(scan'.heads[t]) \subseteq Own(t)
    BY <1>6, <1>7, <1>12, <1>17, <2>1
  <2>7. ~scan'.more[t] => \A e \in Own(t) : e <= scan'.after[t]
    BY <1>6, <1>17, <2>1
  <2> QED
    BY <1>6, <1>7, <1>17, <2>1, <2>2, <2>3, <2>4, <2>5, <2>6, <2>7 DEF Streams
<1>18. ASSUME NEW t \in S, t # s PROVE Streams(t)'
  <2>1. scan'.heads[t] = scan.heads[t] /\ scan'.after[t] = scan.after[t] /\ scan'.more[t] = scan.more[t]
    BY <1>1, <1>3, <1>18
  <2>2. Streams(t) /\ t # scan.turn /\ t # scan'.turn /\ (t \in scan'.done <=> t \in scan.done)
    BY <1>1, <1>3, <1>4, <1>18
  <2>3. m \notin Own(t)
    BY <1>3, <1>5, <1>8, <1>18, ExplorationAssumption
  <2>4. scan'.todo = scan.todo
    BY <1>1
  <2>5. /\ scan.heads[t] \in Seq(Nat) /\ Increasing(scan.heads[t]) /\ ToSet(scan.heads[t]) \subseteq Own(t)
        /\ scan.after[t] \in Nat /\ scan.more[t] \in BOOLEAN
        /\ \A e \in Own(t) : e <= scan.after[t] <=> e \in ToSet(scan.taken) \cup ToSet(scan.heads[t])
        /\ ToSet(scan.heads[t]) \cap ToSet(scan.taken) = {}
        /\ ~scan.more[t] => \A e \in Own(t) : e <= scan.after[t]
        /\ t \in scan.done => scan.heads[t] = << >>
        /\ t \notin scan.todo \cup scan.done => scan.heads[t] # << >>
        /\ t \in scan.todo => scan.heads[t] = << >>
    BY <2>2 DEF Streams
  <2>6. \A e \in Own(t) : e <= scan'.after[t] <=> e \in ToSet(scan'.taken) \cup ToSet(scan'.heads[t])
    BY <1>12, <2>1, <2>3, <2>5
  <2>7. ToSet(scan'.heads[t]) \cap ToSet(scan'.taken) = {}
    BY <1>12, <2>1, <2>3, <2>5
  <2> QED
    BY <2>1, <2>2, <2>4, <2>5, <2>6, <2>7 DEF Streams
<1>19. /\ DOMAIN scan'.heads = S /\ DOMAIN scan'.after = S /\ DOMAIN scan'.more = S
       /\ scan'.todo = {} /\ scan'.ask.sources = S
  BY <1>1, <1>3 DEF S
<1>20. \A t \in scan'.ask.sources : Streams(t)'
  <2>1. \A t \in S : Streams(t)'
    BY <1>17, <1>18
  <2> QED
    BY <1>19, <2>1
<1>21. CASE rest = << >> /\ scan.more[s]
  <2>1. scan'.pc = "assert" /\ scan'.turn = s /\ scan'.heads[s] = << >>
    BY <1>1, <1>3, <1>5, <1>21
  <2> QED
    BY <1>5, <1>16, <1>19, <1>20, <2>1 DEF ScanInv, Started
<1>22. CASE ~(rest = << >> /\ scan.more[s])
  <2>1. scan'.pc = "merge" /\ scan'.turn = Null
    BY <1>1, <1>22
  <2> QED
    BY <1>16, <1>19, <1>20, <2>1 DEF ScanInv, Started
<1> QED
  BY <1>21, <1>22

-----------------------------------------------------------------------------
(* A query begins, or is interrupted.                                      *)

\* The customers of a result are some of those of the prepared sources.
LEMMA AnchoredAreKnown ==
  ASSUME StoreInv, NEW r \in DOMAIN results
  PROVE  Anchored(results[r]) \in SUBSET Customers(Snapshot(Sources))
<1> DEFINE res == results[r]
<1>1. /\ AskSound(res.ask) /\ ReadsSnapshot(res.ask.sources, res.taken)
      /\ \A i \in DOMAIN res.rows : res.rows[i].from \subseteq Admitted(res.ask, res.taken)
  BY DEF StoreInv, ResultInv, RowsInv
<1>2. ASSUME NEW c \in Anchored(res) PROVE c \in Customers(Snapshot(Sources))
  <2>1. PICK i \in DOMAIN res.rows : c \in Customers(res.rows[i].from)
    BY <1>2 DEF Anchored
  <2>2. PICK x \in res.rows[i].from : c = Customer[x]
    BY <2>1 DEF Customers
  <2>3. x \in Snapshot(res.ask.sources)
    BY <1>1, <2>1, <2>2 DEF Admitted, ReadsSnapshot
  <2>4. x \in Snapshot(Sources)
    BY <1>1, <2>3 DEF AskSound, Snapshot
  <2> QED
    BY <2>2, <2>4 DEF Customers
<1> QED
  BY <1>2

\* Whoever a result is about was met by a scan that is not of evidence.
LEMMA AnchoredAreMet ==
  ASSUME StoreInv, NEW r \in DOMAIN results, NEW c \in Anchored(results[r])
  PROVE  Met(c)
<1> DEFINE res == results[r]
<1>1. /\ AskSound(res.ask)
      /\ \A i \in DOMAIN res.rows : res.rows[i].from \subseteq Admitted(res.ask, res.taken)
  BY DEF StoreInv, ResultInv, RowsInv
<1>2. CASE res.ask.kind # "evidence"
  BY <1>2 DEF Met
<1>3. CASE res.ask.kind = "evidence"
  <2>1. PICK i \in DOMAIN res.rows : c \in Customers(res.rows[i].from)
    BY DEF Anchored
  <2>2. PICK x \in res.rows[i].from : c = Customer[x]
    BY <2>1 DEF Customers
  <2>3. res.ask.within = Null \/ Customer[x] \in res.ask.within
    BY <1>1, <2>1, <2>2 DEF Admitted
  <2> QED
    BY <1>1, <1>3, <2>2, <2>3 DEF AskSound
<1> QED
  BY <1>2, <1>3

LEMMA AsksAreSound ==
  ASSUME StoreInv, NEW q \in Queries, NEW ask \in Asks(q)
  PROVE  AskSound(ask)
<1>1. q.kind \in Kinds /\ q.sources \in SUBSET Sources /\ q.sources # {}
  BY DEF Queries
<1>2. CASE q.kind = "evidence"
  <2>1. Asks(q) = UNION {{[kind |-> q.kind, sources |-> Sources, within |-> S, parent |-> r] :
                          S \in Selections(results[r])} : r \in DOMAIN results}
    BY Zenon, <1>2 DEF Asks
  <2>2. PICK r \in DOMAIN results :
          ask \in {[kind |-> q.kind, sources |-> Sources, within |-> S, parent |-> r] :
                   S \in Selections(results[r])}
    BY Zenon, <2>1
  <2>3. PICK S \in Selections(results[r]) :
          ask = [kind |-> q.kind, sources |-> Sources, within |-> S, parent |-> r]
    BY Zenon, <2>2
  <2>4. ask.kind = "evidence" /\ ask.sources = Sources /\ ask.within = S /\ ask.parent = r
    BY <1>2, <2>3
  <2>5. S \subseteq Anchored(results[r])
    BY DEF Selections
  <2>6. S # Null
    <3>1. S \in SUBSET Customers(Snapshot(Sources))
      BY <2>5, AnchoredAreKnown
    <3> QED
      BY <3>1, ExplorationAssumption
  <2>7. \A c \in S : Met(c)
    BY <2>5, AnchoredAreMet
  <2>8. Sources # {} /\ "evidence" \in Kinds
    BY ExplorationAssumption DEF Kinds
  <2> QED
    BY <2>4, <2>5, <2>6, <2>7, <2>8 DEF AskSound
<1>3. CASE q.kind # "evidence"
  <2> DEFINE Made(W) == [kind |-> q.kind, sources |-> q.sources, within |-> W, parent |-> Null]
  <2>1. Asks(q) \in {{Made(C) : C \in Cohorts}, {Made(Null)}}
    BY <1>3 DEF Asks
  <2>2. \E W : ask = Made(W)
    BY <2>1
  <2>3. ask.kind = q.kind /\ ask.sources = q.sources
    BY <2>2
  <2> QED
    BY <1>1, <1>3, <2>3 DEF AskSound
<1> QED
  BY <1>2, <1>3

LEMMA NothingRead ==
  ASSUME NEW S
  PROVE  << >> \in Seq(Nat) /\ ReadsSnapshot(S, << >>)
BY DEF ReadsSnapshot, Increasing, ToSet

LEMMA AskInv ==
  ASSUME ReadingInv, StoreInv, NEW q, Ask(q)
  PROVE  ScanInv'
<1>1. PICK ask \in Asks(q) : /\ scan'.pc = "begin" /\ scan'.ask = ask
                             /\ scan'.taken = << >> /\ scan'.done = {}
  BY AskScan
<1>2. results' = results /\ asked' = asked + 1 /\ asked + 1 \in 1..Len(Script) /\ q \in Script[asked + 1]
  <2>1. asked \in Nat /\ Len(Script) \in Nat
    BY ExplorationAssumption DEF ReadingInv
  <2> QED
    BY <2>1 DEF Ask, store
<1>3. q \in Queries
  BY <1>2, ExplorationAssumption
<1>4. AskSound(ask)
  BY <1>1, <1>3, AsksAreSound
<1>5. Len(results') < asked'
  <2>1. Len(results) \in Nat /\ Len(results) <= asked /\ asked \in Nat
    BY <1>2, ExplorationAssumption DEF StoreInv, ReadingInv
  <2> QED
    BY <1>2, <2>1
<1>6. AskSound(ask)'
  BY <1>2, <1>4, SameResults
<1>7. Consumed'
  BY <1>1, <1>5, <1>6, NothingRead DEF Consumed
<1> QED
  BY <1>1, <1>7 DEF ScanInv, Started

\* The tokens that are read are those of sources, and only by a scan.
LEMMA ReadingSources ==
  ASSUME ScanInv, NEW s, s \in (IF scan.pc = "load" THEN {scan.turn} ELSE Reading)
  PROVE  s \in Sources /\ scan.pc # "idle"
BY DEF ScanInv, Started, Consumed, AskSound, Reading

LEMMA InterruptInv ==
  ASSUME ReadingInv, ScanInv, NEW s, Interrupt(s)
  PROVE  ScanInv'
<1>1. /\ scan'.pc = "certify" /\ scan'.failed = {s} /\ scan'.ask = scan.ask
      /\ scan'.done = scan.done /\ scan'.taken = scan.taken
  BY InterruptScan
<1>2. s \in Sources /\ scan.pc # "idle"
  BY ReadingSources DEF Interrupt, Unreadable
<1>3. results' = results /\ asked' = asked
  BY DEF Interrupt, store
<1>4. Consumed'
  BY <1>1, <1>2, <1>3, ConsumedStays DEF ScanInv
<1> QED
  BY <1>1, <1>2, <1>4 DEF ScanInv, Started

-----------------------------------------------------------------------------
(* The rows of a result.                                                   *)

LEMMA CustomersAreFinite ==
  ASSUME NEW S, IsFiniteSet(S)
  PROVE  IsFiniteSet(Customers(S))
BY ImageIsFinite DEF Customers

LEMMA KeysAreNumbers ==
  ASSUME NEW ask, AskSound(ask), NEW mine, IsFiniteSet(mine), mine \subseteq Snapshot(ask.sources)
  PROVE  Keys(ask, mine) \in SUBSET Nat /\ IsFiniteSet(Keys(ask, mine))
<1>1. ask.sources \in SUBSET Sources
  BY DEF AskSound
<1>2. ask.sources \subseteq Nat /\ IsFiniteSet(ask.sources)
  BY <1>1, ExplorationAssumption, FS_Subset
<1>3. mine \subseteq Nat
  BY <1>1, SnapshotIs
<1>4. IsFiniteSet(Customers(mine))
  BY CustomersAreFinite
<1>5. ASSUME NEW e \in mine PROVE Customer[e] \in Nat
  BY <1>1, SnapshotIs, ExplorationAssumption
<1>6. Customers(mine) \subseteq Nat
  BY <1>5 DEF Customers
<1>7. Keys(ask, mine) \in {ask.sources, mine, Customers(mine)}
  BY DEF Keys
<1> QED
  BY <1>2, <1>3, <1>4, <1>6, <1>7

LEMMA FromMine ==
  ASSUME NEW ask, NEW mine, NEW key \in Keys(ask, mine)
  PROVE  From(ask, mine, key) \subseteq mine /\ (ask.kind = "evidence" => key \in mine)
BY DEF From, Keys

LEMMA RowsAre ==
  ASSUME NEW ask, AskSound(ask), NEW taken \in Seq(Nat), ReadsSnapshot(ask.sources, taken),
         NEW complete \in BOOLEAN
  PROVE  LET rows == Rows(ask, taken, complete)
         IN  /\ rows \in Seq(Range(rows))
             /\ \A i \in DOMAIN rows :
                  /\ rows[i].from \subseteq Admitted(ask, taken)
                  /\ ask.kind = "evidence" => rows[i].of \in Admitted(ask, taken)
             /\ ask.kind = "funnel" /\ ~complete => rows = << >>
<1> DEFINE mine == Admitted(ask, taken)
           order == InOrder(Keys(ask, mine))
           full == [i \in DOMAIN order |-> [of |-> order[i], from |-> From(ask, mine, order[i])]]
<1>1. IsFiniteSet(mine) /\ mine \subseteq Snapshot(ask.sources)
  <2>1. mine \subseteq ToSet(taken)
    BY DEF Admitted
  <2>2. IsFiniteSet(ToSet(taken))
    BY ElementsAreFinite
  <2> QED
    BY <2>1, <2>2, FS_Subset DEF ReadsSnapshot
<1>2. Keys(ask, mine) \in SUBSET Nat /\ IsFiniteSet(Keys(ask, mine))
  <2> HIDE DEF mine
  <2> QED
    BY <1>1, KeysAreNumbers
<1>3. order \in Seq(Keys(ask, mine))
  BY <1>2, InOrderIs
<1> HIDE DEF mine
<1>4. DOMAIN order = 1..Len(order) /\ Len(order) \in Nat /\ \A i \in DOMAIN order : order[i] \in Keys(ask, mine)
  BY <1>3
<1> HIDE DEF order
<1>5. full \in Seq(Range(full))
  <2>1. DOMAIN full = 1..Len(order) /\ \A i \in DOMAIN full : full[i] \in Range(full)
    BY <1>4 DEF Range
  <2>2. full \in [1..Len(order) -> Range(full)]
    <3>1. full = [i \in 1..Len(order) |-> full[i]]
      BY <1>4
    <3> HIDE DEF full
    <3> QED
      BY <2>1, <3>1
  <2> HIDE DEF full
  <2> QED
    BY <1>4, <2>2
<1>6. ASSUME NEW i \in DOMAIN full
       PROVE full[i].from \subseteq mine /\ (ask.kind = "evidence" => full[i].of \in mine)
  <2>1. order[i] \in Keys(ask, mine) /\ full[i].of = order[i] /\ full[i].from = From(ask, mine, order[i])
    BY <1>4
  <2> HIDE DEF full
  <2> QED
    BY <2>1, FromMine
<1>7. Rows(ask, taken, complete) = IF ask.kind = "funnel" /\ ~complete THEN << >> ELSE full
  BY Zenon DEF Rows, full, order, mine
<1> HIDE DEF full
<1>8. CASE ask.kind = "funnel" /\ ~complete
  <2>1. Rows(ask, taken, complete) = << >>
    BY <1>7, <1>8
  <2> QED
    BY <2>1
<1>9. CASE ~(ask.kind = "funnel" /\ ~complete)
  <2>1. Rows(ask, taken, complete) = full
    BY <1>7, <1>9
  <2> QED
    BY <1>5, <1>6, <1>9, <2>1 DEF mine
<1> QED
  BY <1>8, <1>9

-----------------------------------------------------------------------------
(* A result is stored.                                                     *)

\* What is appended to a sequence changes nothing of it.
LEMMA AppendKeeps ==
  ASSUME NEW T, NEW q \in Seq(T), NEW x
  PROVE  LET r == Append(q, x)
         IN  /\ r \in Seq(Range(r)) /\ DOMAIN r = DOMAIN q \cup {Len(q) + 1} /\ Len(r) = Len(q) + 1
             /\ (\A i \in DOMAIN q : r[i] = q[i]) /\ r[Len(q) + 1] = x
<1> DEFINE r == Append(q, x)
<1>1. /\ Len(q) \in Nat /\ DOMAIN q = 1..Len(q) /\ DOMAIN r = 1..(Len(q) + 1) /\ Len(r) = Len(q) + 1
      /\ (\A i \in 1..Len(q) : r[i] = q[i]) /\ r[Len(q) + 1] = x
  OBVIOUS
<1>2. r \in Seq(T \cup {x})
  OBVIOUS
<1> HIDE DEF r
<1>3. \A i \in 1..(Len(q) + 1) : r[i] \in Range(r)
  BY <1>1 DEF Range
<1>4. r \in [1..(Len(q) + 1) -> Range(r)]
  <2>1. r = [i \in 1..(Len(q) + 1) |-> r[i]]
    BY <1>1, <1>2
  <2> QED
    BY <1>3, <2>1
<1>5. r \in Seq(Range(r))
  BY <1>1, <1>4
<1>6. DOMAIN r = DOMAIN q \cup {Len(q) + 1}
  BY <1>1
<1> QED
  BY <1>1, <1>5, <1>6 DEF r

LEMMA OldResults ==
  ASSUME StoreInv, NEW new, results' = Append(results, new)
  PROVE  /\ \A ask : AskSound(ask) => AskSound(ask)'
         /\ \A res : ResultInv(res) => ResultInv(res)'
<1>1. /\ DOMAIN results \subseteq DOMAIN results'
      /\ \A r \in DOMAIN results : results'[r] = results[r]
  <2>1. results \in Seq(Range(results))
    BY DEF StoreInv
  <2> QED
    BY <2>1, AppendKeeps
<1>2. ASSUME NEW c, Met(c) PROVE Met(c)'
  BY <1>1, <1>2 DEF Met
<1>3. ASSUME NEW ask, AskSound(ask) PROVE AskSound(ask)'
  BY <1>1, <1>2, <1>3 DEF AskSound
<1> QED
  BY <1>3 DEF ResultInv

\* What a result says must be so of what was consumed.
Certified(complete, remaining) ==
  /\ complete \in BOOLEAN
  /\ complete => ToSet(scan.taken) = Snapshot(scan.ask.sources) /\ remaining = {}
  /\ ~complete =>
       /\ remaining # {} /\ remaining \subseteq scan.ask.sources
       /\ \A e \in Snapshot(scan.ask.sources) \ ToSet(scan.taken) : SourceOf(e) \in remaining

LEMMA PublishInv ==
  ASSUME ReadingInv, StoreInv, Consumed, NEW complete, NEW remaining,
         Publish(complete, remaining), Certified(complete, remaining), asked' = asked
  PROVE  StoreInv'
<1> DEFINE rows == Rows(scan.ask, scan.taken, complete)
           new == [ask |-> scan.ask, complete |-> complete, remaining |-> remaining,
                   taken |-> scan.taken, rows |-> rows]
<1>1. results' = Append(results, new) /\ pages' = Append(pages, 1)
  BY DEF Publish
<1>2. /\ new.ask = scan.ask /\ new.complete = complete /\ new.remaining = remaining
      /\ new.taken = scan.taken /\ new.rows = rows
  OBVIOUS
<1> HIDE DEF new
<1>3. /\ results \in Seq(Range(results)) /\ pages \in Seq(Nat \ {0}) /\ DOMAIN pages = DOMAIN results
      /\ \A r \in DOMAIN results : ResultInv(results[r])
  BY DEF StoreInv
<1>4. /\ results' \in Seq(Range(results')) /\ DOMAIN results' = DOMAIN results \cup {Len(results) + 1}
      /\ Len(results') = Len(results) + 1
      /\ (\A r \in DOMAIN results : results'[r] = results[r]) /\ results'[Len(results) + 1] = new
  BY <1>1, <1>3, AppendKeeps
<1>5. pages' \in Seq(Nat \ {0}) /\ DOMAIN pages' = DOMAIN results'
  <2>1. Len(pages) = Len(results) /\ 1 \in Nat \ {0}
    BY <1>3
  <2>2. pages' \in Seq(Nat \ {0}) /\ DOMAIN pages' = DOMAIN pages \cup {Len(pages) + 1}
    BY <1>1, <1>3, <2>1, AppendKeeps
  <2> QED
    BY <1>3, <1>4, <2>1, <2>2
<1>6. Len(results') <= asked'
  <2>1. Len(results) \in Nat /\ asked \in Nat /\ Len(results) < asked
    BY <1>3, ExplorationAssumption DEF ReadingInv, Consumed
  <2> QED
    BY <1>4, <2>1
<1>7. AskSound(scan.ask) /\ scan.taken \in Seq(Nat) /\ ReadsSnapshot(scan.ask.sources, scan.taken)
  BY DEF Consumed
<1>8. /\ rows \in Seq(Range(rows))
      /\ \A i \in DOMAIN rows :
           /\ rows[i].from \subseteq Admitted(scan.ask, scan.taken)
           /\ scan.ask.kind = "evidence" => rows[i].of \in Admitted(scan.ask, scan.taken)
      /\ scan.ask.kind = "funnel" /\ ~complete => rows = << >>
  <2>1. complete \in BOOLEAN
    BY DEF Certified
  <2> QED
    BY <1>7, <2>1, RowsAre, Zenon
<1> HIDE DEF rows
<1>9. ResultInv(new)
  <2>1. RowsInv(new)
    BY <1>2, <1>8 DEF RowsInv
  <2> QED
    BY <1>2, <1>7, <1>8, <2>1 DEF ResultInv, Certified
<1>10. \A res : ResultInv(res) => ResultInv(res)'
  BY <1>1, OldResults
<1>11. ASSUME NEW r \in DOMAIN results' PROVE ResultInv(results[r])'
  <2>1. CASE r \in DOMAIN results
    <3>1. results'[r] = results[r] /\ ResultInv(results[r])
      BY <1>3, <1>4, <2>1
    <3> QED
      BY <1>10, <3>1
  <2>2. CASE r \notin DOMAIN results
    <3>1. results'[r] = new
      BY <1>4, <2>2
    <3> QED
      BY <1>9, <1>10, <3>1
  <2> QED
    BY <2>1, <2>2
<1> QED
  BY <1>4, <1>5, <1>6, <1>11 DEF StoreInv

LEMMA SourceOfIs ==
  ASSUME NEW t \in Sources, NEW e \in Own(t)
  PROVE  SourceOf(e) = t
<1>1. SourceOf(e) \in Sources /\ e \in Own(SourceOf(e))
  BY Zenon DEF SourceOf
<1> QED
  BY <1>1, ExplorationAssumption

LEMMA FinishInv ==
  ASSUME ReadingInv, ScanInv, StoreInv, Finish
  PROVE  ScanInv' /\ StoreInv'
<1>1. /\ scan.pc = "merge" /\ Waiting = {} /\ Publish(TRUE, {}) /\ scan' = Idle /\ asked' = asked
  BY DEF Finish
<1> DEFINE S == scan.ask.sources
<1>2. /\ S \in SUBSET Sources /\ DOMAIN scan.heads = S /\ scan.todo = {} /\ scan.turn = Null
      /\ Consumed /\ \A t \in S : Streams(t)
  BY <1>1 DEF ScanInv, Started, Consumed, AskSound
<1>3. ASSUME NEW t \in S PROVE Own(t) \subseteq ToSet(scan.taken)
  <2>1. scan.heads[t] = << >>
    BY <1>1, <1>2 DEF Waiting
  <2>2. t # Null
    BY <1>2, ExplorationAssumption
  <2>3. t \in scan.done
    BY <1>2, <2>1, <2>2 DEF Streams
  <2> QED
    BY <1>2, <2>3 DEF Consumed
<1>4. ToSet(scan.taken) = Snapshot(S)
  <2>1. ToSet(scan.taken) \subseteq Snapshot(S)
    BY <1>2 DEF Consumed, ReadsSnapshot
  <2> QED
    BY <1>2, <1>3, <2>1, SnapshotIs
<1>5. Certified(TRUE, {})
  BY <1>4 DEF Certified
<1> QED
  BY <1>1, <1>2, <1>5, PublishInv, ScanEnds

LEMMA CertifyInv ==
  ASSUME ReadingInv, ScanInv, StoreInv, Certify
  PROVE  ScanInv' /\ StoreInv'
<1>1. scan.pc = "certify" /\ scan' = Idle /\ asked' = asked
  BY DEF Certify
<1>2. Consumed /\ \E s \in Sources : scan.failed = {s}
  BY <1>1 DEF ScanInv
<1>3. CASE scan.failed \subseteq scan.ask.sources
  <2> DEFINE S == scan.ask.sources
  <2>1. Publish(FALSE, Unfinished)
    BY <1>3 DEF Certify
  <2>2. S \in SUBSET Sources /\ \A t \in scan.done : Own(t) \subseteq ToSet(scan.taken)
    BY <1>2 DEF Consumed, AskSound
  <2>3. Unfinished # {} /\ Unfinished \subseteq S
    BY <1>2, <1>3 DEF Unfinished
  <2>4. ASSUME NEW e \in Snapshot(S) \ ToSet(scan.taken) PROVE SourceOf(e) \in Unfinished
    <3>1. PICK t \in S : e \in Own(t)
      BY <2>2, SnapshotIs
    <3>2. t \notin scan.done /\ SourceOf(e) = t
      BY <2>2, <2>4, <3>1, SourceOfIs
    <3> QED
      BY <3>1, <3>2 DEF Unfinished
  <2>5. Certified(FALSE, Unfinished)
    BY <2>3, <2>4 DEF Certified
  <2> QED
    BY <1>1, <1>2, <2>1, <2>5, PublishInv, ScanEnds
<1>4. CASE ~(scan.failed \subseteq scan.ask.sources)
  <2>1. UNCHANGED store
    BY <1>4 DEF Certify
  <2> QED
    BY <1>1, <2>1, StoreStays, ScanEnds
<1> QED
  BY <1>3, <1>4

\* After a change nothing is left.
LEMMA InvalidateInv ==
  ASSUME ReadingInv, Invalidate
  PROVE  ScanInv' /\ StoreInv'
<1>1. results' = << >> /\ pages' = << >> /\ scan' = Idle /\ asked' = asked
  BY DEF Invalidate
<1>2. asked \in Nat
  BY ExplorationAssumption DEF ReadingInv
<1>3. ScanInv'
  BY <1>1, ScanEnds
<1>4. /\ << >> \in Seq(Range(<< >>)) /\ << >> \in Seq(Nat \ {0}) /\ Len(<< >>) = 0 /\ DOMAIN << >> = {}
  OBVIOUS
<1>5. StoreInv'
  BY <1>1, <1>2, <1>4 DEF StoreInv
<1> QED
  BY <1>3, <1>5

LEMMA ReadPageInv ==
  ASSUME ReadingInv, ScanInv, StoreInv, NEW r \in DOMAIN results, ReadPage(r)
  PROVE  ScanInv' /\ StoreInv'
<1>1. /\ pages' = [pages EXCEPT ![r] = pages[r] + 1] /\ results' = results /\ scan' = scan
      /\ asked' = asked /\ version' = version
  BY DEF ReadPage
<1>2. ScanInv'
  BY <1>1, ScanStays
<1>3. pages \in Seq(Nat \ {0}) /\ DOMAIN pages = DOMAIN results
  BY DEF StoreInv
<1>4. pages' \in Seq(Nat \ {0}) /\ DOMAIN pages' = DOMAIN results
  <2>1. pages[r] + 1 \in Nat \ {0}
    <3>1. pages[r] \in Nat \ {0}
      BY <1>3
    <3> QED
      BY <3>1
  <2> QED
    BY <1>1, <1>3, <2>1
<1>5. \A q \in DOMAIN results : ResultInv(results[q])'
  <2>1. \A res : ResultInv(res)' <=> ResultInv(res)
    BY <1>1, SameResults
  <2>2. ASSUME NEW q \in DOMAIN results PROVE ResultInv(results[q])'
    <3>1. ResultInv(results[q]) /\ results' = results
      BY <1>1 DEF StoreInv
    <3> QED
      BY <2>1, <3>1
  <2> QED
    BY <2>2
<1> QED
  BY <1>1, <1>2, <1>4, <1>5 DEF StoreInv

-----------------------------------------------------------------------------
(* A report is accepted.                                                   *)

\* A complete result was delivered whole.
LEMMA CompleteIsSeen ==
  ASSUME StoreInv, NEW r \in DOMAIN results, Complete(r)
  PROVE  /\ ToSet(results[r].taken) = Snapshot(results[r].ask.sources)
         /\ DOMAIN Seen(r) = DOMAIN results[r].rows
         /\ \A i \in DOMAIN Seen(r) : Seen(r)[i] = results[r].rows[i]
<1> DEFINE rows == results[r].rows
<1>1. ResultInv(results[r])
  BY DEF StoreInv
<1>2. rows \in Seq(Range(rows))
  BY <1>1 DEF ResultInv, RowsInv
<1>3. Seen(r) = SubSeq(rows, 1, Len(rows))
  BY DEF Seen, Complete
<1> HIDE DEF rows
<1>4. SubSeq(rows, 1, Len(rows)) = rows
  BY <1>2
<1>5. ToSet(results[r].taken) = Snapshot(results[r].ask.sources)
  BY <1>1 DEF Complete, ResultInv
<1> QED
  BY <1>3, <1>4, <1>5 DEF rows

\* What was not read to its end, and not cut short, has more than a page.
LEMMA HasMoreIsLong ==
  ASSUME StoreInv, NEW r \in DOMAIN results, HasMore(r)
  PROVE  Len(results[r].rows) > RowsPerPage
<1> DEFINE n == pages[r]
           len == Len(results[r].rows)
<1>1. n \in Nat \ {0}
  BY DEF StoreInv
<1>2. ResultInv(results[r])
  BY DEF StoreInv
<1>3. len \in Nat
  <2>1. results[r].rows \in Seq(Range(results[r].rows))
    BY <1>2 DEF ResultInv, RowsInv
  <2> QED
    BY <2>1
<1>4. RowsPerPage \in Nat
  BY ExplorationAssumption
<1>5. n * RowsPerPage < len
  BY DEF HasMore
<1> HIDE DEF n, len
<1>6. ASSUME NEW x \in Nat, NEW y \in Nat \ {0} PROVE x <= y * x
  <2>1. y - 1 \in Nat /\ y * x = (y - 1) * x + x
    OBVIOUS
  <2>2. (y - 1) * x \in Nat
    BY <2>1
  <2> QED
    BY <2>1, <2>2
<1>7. RowsPerPage <= n * RowsPerPage /\ n * RowsPerPage \in Nat
  BY <1>1, <1>4, <1>6
<1> QED
  BY <1>3, <1>4, <1>5, <1>7 DEF len

\* A row of evidence is of a customer of the result that authorised it, and of one
\* a scan that is not of evidence has met.
LEMMA EvidenceIsAnchored ==
  ASSUME StoreInv, NEW r \in DOMAIN results, results[r].ask.kind = "evidence",
         NEW e \in Admitted(results[r].ask, results[r].taken)
  PROVE  /\ e \in Snapshot(Sources)
         /\ Customer[e] \in Anchored(results[results[r].ask.parent])
         /\ Met(Customer[e])
<1> DEFINE ask == results[r].ask
<1>1. AskSound(ask) /\ ToSet(results[r].taken) \subseteq Snapshot(ask.sources)
  BY DEF StoreInv, ResultInv, ReadsSnapshot
<1>2. e \in Snapshot(ask.sources) /\ (ask.within = Null \/ Customer[e] \in ask.within)
  BY <1>1 DEF Admitted
<1>3. e \in Snapshot(Sources)
  BY <1>1, <1>2 DEF AskSound, Snapshot
<1> QED
  BY <1>1, <1>2, <1>3 DEF AskSound

\* ReportGrounded, of the parts of a report.
GroundedIn(of, on, evidence, left) ==
  /\ \A r \in on :
       /\ ReadsSnapshot(of[r].ask.sources, of[r].taken)
       /\ ToSet(of[r].taken) = Snapshot(of[r].ask.sources)
       /\ \A i \in DOMAIN of[r].rows : of[r].rows[i].from \subseteq Admitted(of[r].ask, of[r].taken)
  /\ \A e \in evidence :
       /\ e \in Snapshot(Sources)
       /\ \E r \in on :
            /\ of[r].ask.kind = "evidence" /\ \E i \in DOMAIN of[r].rows : of[r].rows[i].of = e
            /\ of[r].ask.parent \in on /\ Customer[e] \in Anchored(of[of[r].ask.parent])
       /\ \E root \in DOMAIN of : of[root].ask.kind # "evidence" /\ Customer[e] \in Anchored(of[root])
  /\ \A r \in left : ~of[r].complete \/ Len(of[r].rows) > RowsPerPage

LEMMA SubmitGrounded ==
  ASSUME StoreInv, Submit
  PROVE  ReportGrounded'
<1>1. PICK cited \in SUBSET DOMAIN results, high \in BOOLEAN, evidence \in SUBSET Issued :
        LET p == [cited |-> cited, high |-> high, evidence |-> evidence]
        IN  /\ cited # {} /\ Backed(p) /\ Confident(p)
            /\ report' = [ledger |-> results, on |-> cited, evidence |-> evidence, high |-> high,
                          left |-> Abandoned]
  BY DEF Submit
<1> DEFINE p == [cited |-> cited, high |-> high, evidence |-> evidence]
<1>2. Backed(p)
  BY <1>1
<1>3. p.cited = cited /\ p.evidence = evidence
  OBVIOUS
<1>4. /\ \A r \in cited : Complete(r)
      /\ \A e \in evidence : \E r \in cited \cap OfKind({"evidence"}) :
           results[r].ask.parent \in cited /\ \E i \in DOMAIN Seen(r) : Seen(r)[i].of = e
  BY <1>2, <1>3 DEF Backed
<1>5. /\ report'.ledger = results /\ report'.on = cited /\ report'.evidence = evidence
      /\ report'.left = Abandoned
  BY <1>1
<1>6. ASSUME NEW r \in cited
      PROVE  /\ ReadsSnapshot(results[r].ask.sources, results[r].taken)
             /\ ToSet(results[r].taken) = Snapshot(results[r].ask.sources)
             /\ \A i \in DOMAIN results[r].rows :
                  results[r].rows[i].from \subseteq Admitted(results[r].ask, results[r].taken)
  <2>1. ResultInv(results[r])
    BY DEF StoreInv
  <2> QED
    BY <1>4, <2>1, CompleteIsSeen DEF ResultInv, RowsInv
<1>7. ASSUME NEW e \in evidence
      PROVE  /\ e \in Snapshot(Sources)
             /\ \E r \in cited :
                  /\ results[r].ask.kind = "evidence" /\ \E i \in DOMAIN results[r].rows : results[r].rows[i].of = e
                  /\ results[r].ask.parent \in cited
                  /\ Customer[e] \in Anchored(results[results[r].ask.parent])
             /\ Met(Customer[e])
  <2>1. PICK r \in cited : /\ r \in OfKind({"evidence"}) /\ results[r].ask.parent \in cited
                           /\ \E i \in DOMAIN Seen(r) : Seen(r)[i].of = e
    BY <1>4
  <2>2. r \in DOMAIN results /\ results[r].ask.kind = "evidence" /\ Complete(r)
    BY <1>4, <2>1 DEF OfKind
  <2>3. PICK i \in DOMAIN results[r].rows : results[r].rows[i].of = e
    BY <2>1, <2>2, CompleteIsSeen
  <2>4. ResultInv(results[r])
    BY <2>2 DEF StoreInv
  <2>5. e \in Admitted(results[r].ask, results[r].taken)
    BY <2>2, <2>3, <2>4 DEF ResultInv, RowsInv
  <2>6. /\ e \in Snapshot(Sources) /\ Customer[e] \in Anchored(results[results[r].ask.parent])
        /\ Met(Customer[e])
    BY <2>2, <2>5, EvidenceIsAnchored
  <2> QED
    BY <2>1, <2>2, <2>3, <2>6
<1>8. ASSUME NEW r \in Abandoned
      PROVE  ~results[r].complete \/ Len(results[r].rows) > RowsPerPage
  BY HasMoreIsLong DEF Abandoned, Complete
<1> HIDE DEF p
<1>9. GroundedIn(results, cited, evidence, Abandoned)
  BY <1>6, <1>7, <1>8 DEF GroundedIn, Met
<1>10. GroundedIn(report'.ledger, report'.on, report'.evidence, report'.left)
  BY Zenon, <1>5, <1>9
<1> QED
  BY Zenon, <1>10 DEF ReportGrounded, GroundedIn

-----------------------------------------------------------------------------
(* The invariant.                                                          *)

LEMMA ReadingNext ==
  ASSUME ReadingInv, [Next]_vars
  PROVE  ReadingInv'
<1> USE DEF ReadingInv
<1>1. faults \in Nat /\ MaxFaults \in Nat /\ asked \in Nat /\ Len(Script) \in Nat
  BY ExplorationAssumption
<1>2. Idle.pc \in Pcs /\ DOMAIN Idle = Fields
  BY IdleFields DEF Pcs
<1>3. ASSUME UNCHANGED vars PROVE ReadingInv'
  BY <1>3 DEF vars
<1>4. ASSUME NEW q, Ask(q) PROVE ReadingInv'
  <2>1. scan'.pc \in Pcs /\ DOMAIN scan' = Fields
    BY <1>4, AskScan DEF Pcs
  <2>2. asked' \in 0..Len(Script)
    BY <1>1, <1>4 DEF Ask
  <2> QED
    BY <1>4, <2>1, <2>2 DEF Ask
<1>5. ASSUME Step PROVE ReadingInv'
  <2>1. scan'.pc \in Pcs /\ DOMAIN scan' = Fields
    <3>1. Begin => scan'.pc = "assert" /\ DOMAIN scan' = Fields
      BY BeginScan
    <3>2. AssertToken => scan'.pc = "load" /\ DOMAIN scan' = Fields
      BY AssertScan
    <3>3. Load => scan'.pc = "recheck" /\ DOMAIN scan' = Fields
      BY LoadScan
    <3>4. Recheck => scan'.pc \in {"merge", "assert"} /\ DOMAIN scan' = Fields
      BY RecheckScan
    <3>5. Consume => scan'.pc \in {"merge", "assert"} /\ DOMAIN scan' = Fields
      BY ConsumeScan
    <3>6. Finish \/ SnapshotChanged \/ Certify => scan' = Idle
      <4>1. Finish => scan' = Idle
        BY Zenon DEF Finish
      <4>2. SnapshotChanged => scan' = Idle
        BY Zenon DEF SnapshotChanged, Invalidate
      <4>3. Certify => scan' = Idle
        BY Zenon DEF Certify
      <4> QED
        BY <4>1, <4>2, <4>3
    <3> QED
      BY <1>2, <1>5, <3>1, <3>2, <3>3, <3>4, <3>5, <3>6 DEF Step, Pcs, Started
  <2>2. version' = version /\ valid' \in {valid, FALSE} /\ faults' = faults /\ asked' = asked
    <3>1. CASE SnapshotChanged
      BY Zenon, <3>1 DEF SnapshotChanged, Invalidate
    <3>2. CASE Finish
      BY Zenon, <3>2 DEF Finish
    <3>3. CASE Certify
      BY Zenon, <3>3 DEF Certify
    <3>4. CASE Begin \/ AssertToken \/ Load \/ Recheck \/ Consume
      BY Zenon, <3>4 DEF Begin, AssertToken, Load, Recheck, Consume
    <3> QED
      BY Zenon, <1>5, <3>1, <3>2, <3>3, <3>4 DEF Step
  <2> QED
    BY <2>1, <2>2
<1>6. ASSUME GiveUp PROVE ReadingInv'
  <2>1. scan' = Idle /\ version' = version /\ valid' = valid /\ asked' = asked
    BY <1>6 DEF GiveUp
  <2>2. faults' = faults + 1 /\ faults < MaxFaults
    BY <1>6 DEF GiveUp, Unreadable
  <2> QED
    BY <1>1, <1>2, <2>1, <2>2
<1>7. ASSUME NEW s \in Sources, Interrupt(s) PROVE ReadingInv'
  <2>1. scan'.pc \in Pcs /\ DOMAIN scan' = Fields
    BY <1>7, InterruptScan DEF Pcs
  <2>2. faults' = faults + 1 /\ faults < MaxFaults /\ version' = version /\ valid' = valid /\ asked' = asked
    BY <1>7 DEF Interrupt, Unreadable
  <2> QED
    BY <1>1, <2>1, <2>2
<1>8. ASSUME NEW s \in Sources, Change(s) PROVE ReadingInv'
  <2>1. version' = [version EXCEPT ![s] = version[s] + 1] /\ version[s] + 1 \in DOMAIN Content[s]
    BY <1>8 DEF Change
  <2>2. version' \in [Sources -> Nat] /\ \A t \in Sources : version'[t] \in DOMAIN Content[t]
    <3>1. version[s] + 1 \in Nat
      OBVIOUS
    <3> QED
      BY <2>1, <3>1
  <2> QED
    BY <1>8, <2>2 DEF Change
<1>9. ASSUME NEW r \in DOMAIN results, ReadPage(r) PROVE ReadingInv'
  BY <1>9 DEF ReadPage
<1>10. ASSUME PageFindsChange \/ Submit PROVE ReadingInv'
  <2>1. scan' \in {scan, Idle} /\ version' = version /\ valid' \in {valid, FALSE} /\ faults' = faults /\ asked' = asked
    <3>1. CASE PageFindsChange
      BY Zenon, <3>1 DEF PageFindsChange, Invalidate
    <3>2. CASE Submit
      BY Zenon, <3>2 DEF Submit
    <3> QED
      BY Zenon, <1>10, <3>1, <3>2
  <2> QED
    BY <1>2, <2>1
<1> HIDE DEF ReadingInv
<1> QED
  BY <1>3, <1>4, <1>5, <1>6, <1>7, <1>8, <1>9, <1>10 DEF Next

LEMMA ReportStays ==
  ASSUME ReportGrounded, report' = report
  PROVE  ReportGrounded'
<1>1. CASE report = Null
  BY <1>1 DEF ReportGrounded
<1>2. CASE report # Null
  <2>1. GroundedIn(report.ledger, report.on, report.evidence, report.left)
    BY Zenon, <1>2 DEF ReportGrounded, GroundedIn
  <2>2. GroundedIn(report'.ledger, report'.on, report'.evidence, report'.left)
    BY Zenon, <2>1
  <2> QED
    BY Zenon, <2>2 DEF ReportGrounded, GroundedIn
<1> QED
  BY <1>1, <1>2

LEMMA ExploreInit ==
  ASSUME Init
  PROVE  ExploreInv
<1>1. << >> \in Seq(Range(<< >>)) /\ << >> \in Seq(Nat \ {0}) /\ Len(<< >>) = 0 /\ DOMAIN << >> = {}
  OBVIOUS
<1>2. Len(Script) \in Nat /\ MaxFaults \in Nat /\ \A s \in Sources : Prepared \in DOMAIN Content[s]
  BY ExplorationAssumption
<1>3. ReadingInv
  BY <1>2, IdleFields DEF Init, ReadingInv, Pcs, Prepared
<1>4. ScanInv
  BY IdleFields DEF Init, ScanInv, Started
<1>5. StoreInv
  BY <1>1 DEF Init, StoreInv
<1>6. ReportGrounded
  BY DEF Init, ReportGrounded
<1> QED
  BY <1>3, <1>4, <1>5, <1>6 DEF ExploreInv

LEMMA ExploreNext ==
  ASSUME ExploreInv, [Next]_vars
  PROVE  ExploreInv'
<1>1. ReadingInv /\ ScanInv /\ StoreInv /\ ReportGrounded
  BY DEF ExploreInv
<1>2. ReadingInv'
  BY <1>1, ReadingNext
<1>3. asked \in Nat
  BY <1>1, ExplorationAssumption DEF ReadingInv
<1>4. ASSUME UNCHANGED vars PROVE ScanInv' /\ StoreInv' /\ ReportGrounded'
  <2>1. UNCHANGED store /\ asked' = asked /\ UNCHANGED <<scan, results, asked>> /\ report' = report /\ version' = version
    BY <1>4 DEF vars, store
  <2> QED
    BY <1>1, <2>1, ScanStays, StoreStays, ReportStays
<1>5. ASSUME NEW q, Ask(q) PROVE ScanInv' /\ StoreInv' /\ ReportGrounded'
  <2>1. UNCHANGED store /\ asked' = asked + 1 /\ report' = report
    BY <1>5 DEF Ask
  <2> QED
    BY <1>1, <1>5, <2>1, AskInv, StoreStays, ReportStays
<1>6. ASSUME Begin \/ AssertToken \/ Load \/ Recheck \/ Consume PROVE ScanInv' /\ StoreInv' /\ ReportGrounded'
  <2>1. UNCHANGED store /\ asked' = asked /\ report' = report
    BY <1>6 DEF Begin, AssertToken, Load, Recheck, Consume
  <2>2. ScanInv'
    BY <1>1, <1>6, BeginInv, AssertInv, LoadInv, RecheckInv, ConsumeInv
  <2> QED
    BY <1>1, <2>1, <2>2, StoreStays, ReportStays
<1>7. ASSUME Finish \/ Certify PROVE ScanInv' /\ StoreInv' /\ ReportGrounded'
  <2>1. report' = report
    BY <1>7 DEF Finish, Certify
  <2> QED
    BY <1>1, <1>7, <2>1, FinishInv, CertifyInv, ReportStays
<1>8. ASSUME SnapshotChanged \/ PageFindsChange PROVE ScanInv' /\ StoreInv' /\ ReportGrounded'
  <2>1. Invalidate
    BY <1>8 DEF SnapshotChanged, PageFindsChange
  <2>2. report' = report
    BY <2>1 DEF Invalidate
  <2> QED
    BY <1>1, <2>1, <2>2, InvalidateInv, ReportStays
<1>9. ASSUME GiveUp PROVE ScanInv' /\ StoreInv' /\ ReportGrounded'
  <2>1. UNCHANGED store /\ asked' = asked /\ report' = report /\ scan' = Idle
    BY <1>9 DEF GiveUp
  <2> QED
    BY <1>1, <2>1, ScanEnds, StoreStays, ReportStays
<1>10. ASSUME NEW s \in Sources, Interrupt(s) PROVE ScanInv' /\ StoreInv' /\ ReportGrounded'
  <2>1. UNCHANGED store /\ asked' = asked /\ report' = report
    BY <1>10 DEF Interrupt
  <2> QED
    BY <1>1, <1>10, <2>1, InterruptInv, StoreStays, ReportStays
<1>11. ASSUME NEW s \in Sources, Change(s) PROVE ScanInv' /\ StoreInv' /\ ReportGrounded'
  <2>1. UNCHANGED store /\ asked' = asked /\ report' = report /\ UNCHANGED <<scan, results, asked>>
    BY <1>11 DEF Change, store
  <2>2. ASSUME NEW t \in Sources, version'[t] = Prepared PROVE version[t] = Prepared
    <3>1. version' = [version EXCEPT ![s] = version[s] + 1] /\ version \in [Sources -> Nat]
      BY <1>1, <1>11 DEF Change, ReadingInv
    <3>2. version[s] + 1 # 0
      BY <3>1
    <3> QED
      BY <2>2, <3>1, <3>2 DEF Prepared
  <2> QED
    BY <1>1, <2>1, <2>2, ScanStays, StoreStays, ReportStays
<1>12. ASSUME NEW r \in DOMAIN results, ReadPage(r) PROVE ScanInv' /\ StoreInv' /\ ReportGrounded'
  <2>1. report' = report
    BY <1>12 DEF ReadPage
  <2> QED
    BY <1>1, <1>12, <2>1, ReadPageInv, ReportStays
<1>13. ASSUME Submit PROVE ScanInv' /\ StoreInv' /\ ReportGrounded'
  <2>1. UNCHANGED store /\ asked' = asked /\ UNCHANGED <<scan, results, asked>> /\ version' = version
    BY <1>13 DEF Submit, store
  <2> QED
    BY <1>1, <1>13, <2>1, SubmitGrounded, ScanStays, StoreStays
<1>14. ScanInv' /\ StoreInv' /\ ReportGrounded'
  BY <1>4, <1>5, <1>6, <1>7, <1>8, <1>9, <1>10, <1>11, <1>12, <1>13 DEF Next, Step
<1> QED
  BY <1>2, <1>14 DEF ExploreInv

LEMMA ExplorationSafe == Spec => []ExploreInv
<1>1. Init => ExploreInv
  BY ExploreInit
<1>2. ExploreInv /\ [Next]_vars => ExploreInv'
  BY ExploreNext
<1> QED
  BY <1>1, <1>2, PTL DEF Spec

\* Whatever sources change or fail between any two calls of an exploration, its
\* scans hand out the events of the prepared versions, in the global order and
\* none left out; a complete result is of all of them, and a partial one names
\* every source with events left and claims no dropoff (scan_events,
\* _assert_snapshots, remaining_branches).
THEOREM ScansAreSnapshots == Spec => []SnapshotRead
<1>1. ASSUME ExploreInv PROVE SnapshotRead
  <2>1. ReadingInv /\ ScanInv /\ StoreInv
    BY <1>1 DEF ExploreInv
  <2>2. TypeOK
    BY <2>1 DEF ReadingInv, StoreInv, TypeOK, Pcs, Started
  <2>3. scan.pc # "idle" => ReadsSnapshot(scan.ask.sources, scan.taken)
    BY <2>1 DEF ScanInv, Consumed
  <2>4. \A r \in DOMAIN results : ResultInv(results[r])
    BY <2>1 DEF StoreInv
  <2> QED
    BY <2>2, <2>3, <2>4 DEF SnapshotRead, ResultInv
<1> QED
  BY <1>1, ExplorationSafe, PTL

\* An accepted report rests on complete results of one snapshot; its evidence is
\* of customers of the result it was asked of, which is cited as well, and of
\* customers whom a scan that is not of evidence has met, however long the chain of
\* evidence asked of evidence; and what it leaves open is open (_compute_evidence,
\* validate_exploration_report, _validate_finding, _validate_coverage).
THEOREM ExplorationsAreGrounded == Spec => []ReportGrounded
<1>1. ExploreInv => ReportGrounded
  BY DEF ExploreInv
<1> QED
  BY <1>1, ExplorationSafe, PTL
=============================================================================
