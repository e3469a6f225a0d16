----------------------------- MODULE RulesProofs ----------------------------
(***************************************************************************)
(* Lemmas about the rules of ExplorationRules, for every timeline, query,  *)
(* page and edge: what the Tools let in from a source and what they show   *)
(* of a graph is right, and a query reports what it promises.              *)
(*                                                                         *)
(* The rules are folds and recursive functions. A recursive function with  *)
(* a value at every argument satisfies its equation, so for each of them   *)
(* a function is built that does (FoldExists, FoldTrace), and what it      *)
(* computes is shown for all prefixes or all sets up to a size: the set of *)
(* those it holds for has the first one and, with each, the next           *)
(* (SetInduction, SeqInduction).                                           *)
(***************************************************************************)
EXTENDS ExplorationRules, FiniteSetTheorems, SequenceTheorems, WellFoundedInduction, TLAPS

NatOrder == {ss \in Nat \X Nat : ss[1] < ss[2]}

LEMMA SetInduction ==
  ASSUME NEW S \in SUBSET Nat, 0 \in S, \A n \in S : n + 1 \in S
  PROVE  S = Nat
<1> SUFFICES ASSUME Nat \ S # {} PROVE FALSE
  OBVIOUS
<1>1. IsWellFoundedOn(NatOrder, Nat)
  BY NatLessThanWellFounded DEF OpToRel, NatOrder
<1>2. PICK x \in Nat \ S : \A y \in Nat \ S : ~ (<<y, x>> \in NatOrder)
  <2> HIDE DEF NatOrder
  <2> QED
    BY <1>1, WFMin
<1>3. x # 0 /\ x - 1 \in Nat /\ x - 1 < x
  OBVIOUS
<1>4. x - 1 \in S
  BY <1>2, <1>3 DEF NatOrder
<1> QED
  BY <1>3, <1>4

LEMMA LeastNumber ==
  ASSUME NEW S \in SUBSET Nat, S # {}
  PROVE  \E x \in S : \A y \in S : x <= y
<1>1. IsWellFoundedOn(NatOrder, Nat)
  BY NatLessThanWellFounded DEF OpToRel, NatOrder
<1>2. PICK x \in S : \A y \in S : ~ (<<y, x>> \in NatOrder)
  <2> HIDE DEF NatOrder
  <2> QED
    BY <1>1, WFMin
<1>3. ASSUME NEW y \in S PROVE x <= y
  <2>1. x \in Nat /\ y \in Nat
    OBVIOUS
  <2>2. y < x => <<y, x>> \in NatOrder
    BY <2>1 DEF NatOrder
  <2> QED
    BY <1>2, <2>1, <2>2
<1> QED
  BY <1>3

LEMMA MaxOf ==
  ASSUME NEW n \in Nat, NEW s \in SUBSET (1..n), n \in s
  PROVE  Max(s) = n
<1>1. n \in s /\ \A y \in s : n >= y
  OBVIOUS
<1>2. Max(s) \in s /\ Max(s) >= n
  BY <1>1 DEF Max
<1>3. Max(s) \in 1..n
  BY <1>2
<1> QED
  BY <1>2, <1>3

LEMMA MaxIn ==
  ASSUME NEW n \in Nat, NEW s \in SUBSET (1..n), s # {}
  PROVE  Max(s) \in s
<1> DEFINE S == {m \in Nat : \A t \in SUBSET (1..m) : t # {} => \E x \in t : \A y \in t : x >= y}
<1>1. 0 \in S
  <2>1. \A t \in SUBSET (1..0) : t = {}
    OBVIOUS
  <2> QED
    BY <2>1
<1>2. ASSUME NEW m \in S PROVE m + 1 \in S
  <2>1. ASSUME NEW t \in SUBSET (1..(m + 1)), t # {} PROVE \E x \in t : \A y \in t : x >= y
    <3>1. CASE m + 1 \in t
      BY <3>1
    <3>2. CASE m + 1 \notin t
      <4>1. t \in SUBSET (1..m)
        BY <3>2
      <4> QED
        BY <2>1, <4>1
    <3> QED
      BY <3>1, <3>2
  <2> QED
    BY <2>1
<1>3. S = Nat
  <2> HIDE DEF S
  <2>1. S \in SUBSET Nat
    BY DEF S
  <2> QED
    BY <1>1, <1>2, <2>1, SetInduction
<1>4. \E x \in s : \A y \in s : x >= y
  BY <1>3
<1> QED
  BY <1>4 DEF Max

LEMMA IntervalIs ==
  ASSUME NEW n \in Nat
  PROVE  IsFiniteSet(1..n) /\ Cardinality(1..n) = n
<1>1. 1 \in Int /\ n \in Int /\ n >= 0
  OBVIOUS
<1>2. IsFiniteSet(1..n) /\ Cardinality(1..n) = (IF 1 > n THEN 0 ELSE n - 1 + 1)
  BY <1>1, FS_Interval
<1> QED
  BY <1>1, <1>2

LEMMA ElementsAreFinite ==
  ASSUME NEW T, NEW q \in Seq(T)
  PROVE  IsFiniteSet(ToSet(q)) /\ ToSet(q) \subseteq T
<1>1. q \in [1..Len(q) -> T] /\ Len(q) \in Nat /\ DOMAIN q = 1..Len(q)
  OBVIOUS
<1>2. q \in Surjection(1..Len(q), ToSet(q))
  BY <1>1 DEF Surjection, ToSet
<1>3. IsFiniteSet(1..Len(q))
  BY <1>1, IntervalIs
<1> QED
  BY <1>1, <1>2, <1>3, FS_Surjection DEF ToSet

LEMMA ImageIsFinite ==
  ASSUME NEW S, IsFiniteSet(S), NEW f
  PROVE  IsFiniteSet({f[e] : e \in S})
<1> DEFINE g == [e \in S |-> f[e]]
           T == {f[e] : e \in S}
<1>1. g \in [S -> T] /\ \A t \in T : \E e \in S : g[e] = t
  OBVIOUS
<1>2. g \in Surjection(S, T)
  BY <1>1 DEF Surjection
<1> QED
  BY <1>2, FS_Surjection

-----------------------------------------------------------------------------
(* Folds of sequences.                                                     *)

\* What holds at 0 and passes from one place to the next holds at each place.
LEMMA Reaches ==
  ASSUME NEW n \in Nat, NEW r, NEW T, r[0] \in T[0], \A i \in 1..n : r[i - 1] \in T[i - 1] => r[i] \in T[i]
  PROVE  \A i \in 0..n : r[i] \in T[i]
<1> DEFINE S == {m \in Nat : m <= n => r[m] \in T[m]}
<1>1. 0 \in S
  OBVIOUS
<1>2. ASSUME NEW m \in S PROVE m + 1 \in S
  <2>1. ASSUME m + 1 <= n PROVE r[m + 1] \in T[m + 1]
    <3>1. m + 1 \in 1..n /\ (m + 1) - 1 = m /\ r[m] \in T[m]
      BY <2>1
    <3> QED
      BY <3>1
  <2> QED
    BY <2>1
<1>3. S \in SUBSET Nat
  OBVIOUS
<1> HIDE DEF S
<1>4. S = Nat
  BY <1>1, <1>2, <1>3, SetInduction
<1> QED
  BY <1>4 DEF S

LEMMA Tops ==
  ASSUME NEW m \in Nat, NEW s \in SUBSET (1..(m + 1))
  PROVE  /\ m + 1 \in s => s # {} /\ Max(s) = m + 1 /\ s \ {m + 1} \in SUBSET (1..m)
         /\ m + 1 \notin s => s \in SUBSET (1..m)
         /\ s # {} => Max(s) \in 1..(m + 1) /\ s \ {Max(s)} \in SUBSET (1..m)
<1>1. m + 1 \in s => s # {} /\ Max(s) = m + 1 /\ s \ {m + 1} \in SUBSET (1..m)
  BY MaxOf
<1>2. m + 1 \notin s => s \in SUBSET (1..m)
  OBVIOUS
<1>3. s # {} => Max(s) \in s
  <2>1. m + 1 \in Nat
    OBVIOUS
  <2> QED
    BY <2>1, MaxIn
<1> QED
  BY <1>1, <1>2, <1>3

\* f is F folded over any of the first m places, in their order.
FoldOf(F, base, m, f) ==
  \A s \in SUBSET (1..m) : f[s] = IF s = {} THEN base ELSE F[<<f[s \ {Max(s)}], Max(s)>>]

LEMMA FoldExists ==
  ASSUME NEW V, NEW base \in V, NEW n \in Nat, NEW F \in [V \X (1..n) -> V]
  PROVE  \E f \in [SUBSET (1..n) -> V] : FoldOf(F, base, n, f)
<1> DEFINE Has(m) == \E f \in [SUBSET (1..m) -> V] : FoldOf(F, base, m, f)
           S == {m \in Nat : m <= n => Has(m)}
<1>1. 0 \in S
  <2> DEFINE f == [s \in SUBSET (1..0) |-> base]
  <2>1. f \in [SUBSET (1..0) -> V]
    OBVIOUS
  <2>2. FoldOf(F, base, 0, f)
    <3>1. \A s \in SUBSET (1..0) : s = {}
      OBVIOUS
    <3> QED
      BY <3>1 DEF FoldOf
  <2> QED
    BY <2>1, <2>2
<1>2. ASSUME NEW m \in S PROVE m + 1 \in S
  <2>1. ASSUME m + 1 <= n PROVE Has(m + 1)
    <3>1. PICK f \in [SUBSET (1..m) -> V] : FoldOf(F, base, m, f)
      <4>1. m <= n
        BY <2>1
      <4> QED
        BY <4>1
    <3> DEFINE g == [s \in SUBSET (1..(m + 1)) |-> IF m + 1 \in s THEN F[<<f[s \ {m + 1}], m + 1>>] ELSE f[s]]
    <3>2. ASSUME NEW s \in SUBSET (1..(m + 1))
          PROVE  g[s] \in V /\ g[s] = IF s = {} THEN base ELSE F[<<g[s \ {Max(s)}], Max(s)>>]
      <4>1. CASE m + 1 \in s
        <5>1. s # {} /\ Max(s) = m + 1 /\ s \ {m + 1} \in SUBSET (1..m) /\ s \ {m + 1} \in SUBSET (1..(m + 1))
              /\ m + 1 \notin s \ {m + 1} /\ m + 1 \in 1..n
          BY <2>1, <4>1, Tops
        <5>2. f[s \ {m + 1}] \in V /\ g[s \ {m + 1}] = f[s \ {m + 1}]
          BY <5>1
        <5>3. g[s] = F[<<g[s \ {m + 1}], m + 1>>]
          BY <4>1, <5>2
        <5>4. F[<<f[s \ {m + 1}], m + 1>>] \in V
          BY <5>1, <5>2
        <5> HIDE DEF g
        <5> QED
          BY <5>1, <5>2, <5>3, <5>4
      <4>2. CASE m + 1 \notin s
        <5>1. s \in SUBSET (1..m)
          BY <4>2, Tops
        <5>2. s \ {Max(s)} \in SUBSET (1..(m + 1)) /\ m + 1 \notin s \ {Max(s)}
          BY <4>2
        <5>3. g[s] = f[s] /\ g[s \ {Max(s)}] = f[s \ {Max(s)}] /\ f[s] \in V
          BY <4>2, <5>1, <5>2
        <5>4. f[s] = IF s = {} THEN base ELSE F[<<f[s \ {Max(s)}], Max(s)>>]
          BY <3>1, <5>1 DEF FoldOf
        <5> HIDE DEF g
        <5> QED
          BY <5>3, <5>4
      <4> QED
        BY <4>1, <4>2
    <3>3. g \in [SUBSET (1..(m + 1)) -> V]
      <4>1. \A s \in SUBSET (1..(m + 1)) : g[s] \in V
        BY <3>2
      <4> QED
        BY <4>1
    <3> HIDE DEF g
    <3> QED
      BY <3>2, <3>3 DEF FoldOf
  <2> HIDE DEF Has
  <2> QED
    BY <2>1
<1>3. S \in SUBSET Nat
  OBVIOUS
<1> HIDE DEF S
<1>4. n \in S
  BY <1>1, <1>2, <1>3, SetInduction
<1> HIDE DEF Has
<1>5. Has(n)
  BY <1>4 DEF S
<1> QED
  BY <1>5 DEF Has

\* f does to all places what F does, where F is defined.
Unfolds(V, F, base, n, f) ==
  \A s \in SUBSET (1..n) :
    /\ s = {} => f[s] = base
    /\ s # {} /\ f[s \ {Max(s)}] \in V => f[s] = F[<<f[s \ {Max(s)}], Max(s)>>]

\* r holds the values of a fold, place by place.
Runs(F, base, n, r) == r[0] = base /\ \A i \in 1..n : r[i] = F[<<r[i - 1], i>>]
RunsTo(V, F, base, n, end) == \E r \in [0..n -> V] : Runs(F, base, n, r) /\ r[n] = end

LEMMA FoldTrace ==
  ASSUME NEW V, NEW base \in V, NEW n \in Nat, NEW F \in [V \X (1..n) -> V], NEW f, Unfolds(V, F, base, n, f)
  PROVE  RunsTo(V, F, base, n, f[1..n])
<1> DEFINE r == [i \in 0..n |-> f[1..i]]
           T == [i \in 0..n |-> V]
<1>1. r[0] = base /\ r[n] = f[1..n]
  <2>1. 1..0 = {} /\ {} \in SUBSET (1..n) /\ 0 \in 0..n /\ n \in 0..n
    OBVIOUS
  <2>2. f[{}] = base
    BY <2>1 DEF Unfolds
  <2> QED
    BY <2>1, <2>2
<1>2. ASSUME NEW i \in 1..n, r[i - 1] \in V PROVE r[i] = F[<<r[i - 1], i>>] /\ r[i] \in V
  <2>1. i - 1 \in 0..n /\ i \in 0..n /\ 1..i \in SUBSET (1..n) /\ i \in 1..i /\ i \in Nat /\ (1..i) \ {i} = 1..(i - 1) /\ 1..i # {}
    OBVIOUS
  <2>2. Max(1..i) = i
    BY <2>1, MaxOf
  <2>3. r[i] = f[1..i] /\ r[i - 1] = f[1..(i - 1)]
    BY <2>1
  <2>4. 1..i # {} /\ f[(1..i) \ {Max(1..i)}] \in V => f[1..i] = F[<<f[(1..i) \ {Max(1..i)}], Max(1..i)>>]
    BY <2>1 DEF Unfolds
  <2> HIDE DEF r
  <2>5. f[1..i] = F[<<f[1..(i - 1)], i>>]
    BY <1>2, <2>1, <2>2, <2>3, <2>4, Zenon
  <2> QED
    BY <1>2, <2>3, <2>5
<1>3. r[0] \in T[0] /\ \A i \in 1..n : r[i - 1] \in T[i - 1] => r[i] \in T[i]
  <2>1. \A i \in 1..n : i \in 0..n /\ i - 1 \in 0..n
    OBVIOUS
  <2>2. \A i \in 0..n : T[i] = V
    OBVIOUS
  <2>3. 0 \in 0..n
    OBVIOUS
  <2> HIDE DEF T, r
  <2> QED
    BY <1>1, <1>2, <2>1, <2>2, <2>3
<1>4. \A i \in 0..n : r[i] \in V
  <2>1. \A i \in 0..n : T[i] = V
    OBVIOUS
  <2> HIDE DEF T, r
  <2> QED
    BY <1>3, <2>1, Reaches
<1>5. r \in [0..n -> V]
  BY <1>4
<1>6. \A i \in 1..n : r[i - 1] \in V
  BY <1>4
<1> HIDE DEF r
<1> QED
  BY <1>1, <1>2, <1>5, <1>6 DEF Runs, RunsTo

\* What n steps from a set of nodes reach.
Wider(edges, S) == S \cup Pages!Neighbours(edges, S)
Reached(edges, base, n) == Pages!FoldLeft(LAMBDA S, i : S \cup Pages!Neighbours(edges, S), base, [i \in 1..n |-> i])

ComponentClosed(edges, V, n) == \A x \in V, i \in 1..n : Wider(edges, x) \in V
ComponentSteps(edges, base, n, r) == r[0] = base /\ \A i \in 1..n : r[i] = Wider(edges, r[i - 1])
ComponentTo(edges, V, base, n, end) == \E r \in [0..n -> V] : ComponentSteps(edges, base, n, r) /\ end = r[n]

LEMMA ComponentTrace ==
  ASSUME NEW edges, NEW V, NEW base \in V, NEW n \in Nat, ComponentClosed(edges, V, n)
  PROVE  ComponentTo(edges, V, base, n, Reached(edges, base, n))
<1> DEFINE op(x, i) == Wider(edges, x)
           Fix(f) == f = [s \in SUBSET (1..n) |-> IF s = {} THEN base ELSE op(f[s \ {Max(s)}], Max(s))]
           F == [p \in V \X (1..n) |-> op(p[1], p[2])]
           all == CHOOSE f : Fix(f)
<1>1. Reached(edges, base, n) = all[1..n]
  BY DEF Wider, Reached, Pages!FoldLeft, Pages!MapThenFoldSet, Pages!Max, Max
<1>2. F \in [V \X (1..n) -> V] /\ \A x \in V, i \in 1..n : F[<<x, i>>] = op(x, i)
  BY DEF ComponentClosed
<1>3. \A x \in V, i \in 1..n : op(x, i) = Wider(edges, x)
  OBVIOUS
<1> HIDE DEF op, F
<1>4. \E f : Fix(f)
  <2>1. PICK f \in [SUBSET (1..n) -> V] : FoldOf(F, base, n, f)
    BY <1>2, FoldExists
  <2>2. ASSUME NEW s \in SUBSET (1..n) PROVE f[s] = IF s = {} THEN base ELSE op(f[s \ {Max(s)}], Max(s))
    <3>1. f[s] = IF s = {} THEN base ELSE F[<<f[s \ {Max(s)}], Max(s)>>]
      BY <2>1 DEF FoldOf
    <3>2. s # {} => Max(s) \in 1..n /\ f[s \ {Max(s)}] \in V
      BY <2>1, MaxIn
    <3> QED
      BY <1>2, <3>1, <3>2
  <2>3. f = [s \in SUBSET (1..n) |-> f[s]]
    BY <2>1
  <2> QED
    BY <2>2, <2>3
<1>5. Fix(all)
  <2> HIDE DEF Fix
  <2> QED
    BY <1>4
<1> HIDE DEF all
<1>6. ASSUME NEW s \in SUBSET (1..n) PROVE all[s] = IF s = {} THEN base ELSE op(all[s \ {Max(s)}], Max(s))
  BY <1>5
<1>7. Unfolds(V, F, base, n, all)
  <2>1. \A s \in SUBSET (1..n) : s # {} => Max(s) \in 1..n
    BY MaxIn
  <2> QED
    BY <1>2, <1>6, <2>1 DEF Unfolds
<1>8. PICK r \in [0..n -> V] : Runs(F, base, n, r) /\ r[n] = all[1..n]
  <2>1. F \in [V \X (1..n) -> V]
    BY <1>2
  <2>2. RunsTo(V, F, base, n, all[1..n])
    BY <1>7, <2>1, FoldTrace
  <2> QED
    BY <2>2 DEF RunsTo
<1>9. ASSUME NEW i \in 1..n PROVE r[i] = Wider(edges, r[i - 1])
  <2>1. r[i - 1] \in V
    OBVIOUS
  <2> QED
    BY ZenonT(60), <1>2, <1>3, <1>8, <2>1 DEF Runs
<1> QED
  BY <1>1, <1>8, <1>9 DEF Runs, ComponentSteps, ComponentTo

-----------------------------------------------------------------------------
(* Identity graphs.                                                        *)

\* An edge has both of its ends in S, or none.
Uncut(edges, S) == \A e \in edges : e.left \in S <=> e.right \in S

LEMMA NodesAreFinite ==
  ASSUME NEW edges, IsFiniteSet(edges)
  PROVE  IsFiniteSet(Pages!Nodes(edges)) /\ \A e \in edges : e.left \in Pages!Nodes(edges) /\ e.right \in Pages!Nodes(edges)
<1> DEFINE f == [e \in edges |-> {e.left, e.right}]
           S == {f[e] : e \in edges}
<1>1. IsFiniteSet(S)
  <2> HIDE DEF f
  <2> QED
    BY ImageIsFinite
<1>2. \A T \in S : IsFiniteSet(T)
  <2>1. ASSUME NEW e \in edges PROVE IsFiniteSet({e.left, e.right})
    <3>1. IsFiniteSet({e.left} \cup {e.right})
      BY FS_Singleton, FS_AddElement
    <3>2. {e.left, e.right} = {e.left} \cup {e.right}
      OBVIOUS
    <3> QED
      BY <3>1, <3>2
  <2> QED
    BY <2>1
<1>3. Pages!Nodes(edges) = UNION S
  BY DEF Pages!Nodes
<1>4. IsFiniteSet(UNION S)
  <2> HIDE DEF S
  <2> QED
    BY <1>1, <1>2, FS_UNION
<1>5. \A e \in edges : e.left \in Pages!Nodes(edges) /\ e.right \in Pages!Nodes(edges)
  BY DEF Pages!Nodes
<1> QED
  BY <1>3, <1>4, <1>5

LEMMA SameCardinality ==
  ASSUME NEW S
  PROVE  Pages!Cardinality(S) = Cardinality(S)
BY DEF Pages!Cardinality, Cardinality

\* One step more of a component.
LEMMA Grows ==
  ASSUME NEW edges, NEW S \in SUBSET Pages!Nodes(edges)
  PROVE  LET next == Wider(edges, S)
         IN  /\ next \in SUBSET Pages!Nodes(edges) /\ S \subseteq next
             /\ Uncut(edges, S) => next = S
             /\ ~Uncut(edges, S) => \E x \in next : x \notin S
             /\ \A D : S \subseteq D /\ Uncut(edges, D) => next \subseteq D
<1> DEFINE next == Wider(edges, S)
<1>1. \A x : x \in Pages!Neighbours(edges, S) <=> \E e \in edges : (e.left \in S \/ e.right \in S) /\ (x = e.left \/ x = e.right)
  BY DEF Pages!Neighbours
<1>2. \A x \in Pages!Neighbours(edges, S) : x \in Pages!Nodes(edges)
  BY <1>1 DEF Pages!Nodes
<1> QED
  BY <1>1, <1>2 DEF Uncut, Wider

LEMMA ComponentIs ==
  ASSUME NEW edges, IsFiniteSet(edges), NEW n \in Pages!Nodes(edges)
  PROVE  /\ n \in Pages!Component(edges, n) /\ Pages!Component(edges, n) \in SUBSET Pages!Nodes(edges)
         /\ Uncut(edges, Pages!Component(edges, n))
         /\ \A D : n \in D /\ Uncut(edges, D) => Pages!Component(edges, n) \subseteq D
<1> DEFINE N == Pages!Nodes(edges)
           V == SUBSET N
           k == Cardinality(N)
<1>1. IsFiniteSet(N) /\ k \in Nat
  BY NodesAreFinite, FS_CardinalityType
<1>2. Pages!Component(edges, n) = Reached(edges, {n}, k)
  <2>1. Pages!Component(edges, n) = Reached(edges, {n}, Pages!Cardinality(N))
    BY ZenonT(60) DEF Pages!Component, Reached
  <2>2. Pages!Cardinality(N) = k
    BY SameCardinality
  <2> QED
    BY <2>1, <2>2, Zenon
<1>3. {n} \in V /\ \A S \in V, i \in 1..k : Wider(edges, S) \in V
  BY Grows
<1> DEFINE only == {n}
<1> HIDE DEF k, V, only
<1>4. k \in Nat /\ 0 \in 0..k /\ \A i \in 1..k : i \in 0..k /\ i - 1 \in 0..k /\ i \in Nat
  BY <1>1
<1>12. PICK r \in [0..k -> V] : ComponentSteps(edges, only, k, r) /\ Reached(edges, only, k) = r[k]
  <2>1. ComponentClosed(edges, V, k)
    BY <1>3 DEF ComponentClosed
  <2>2. only \in V
    BY <1>3 DEF only
  <2>3. k \in Nat
    BY <1>4
  <2>4. ComponentTo(edges, V, only, k, Reached(edges, only, k))
    BY <2>1, <2>2, <2>3, ComponentTrace
  <2> QED
    BY <2>4 DEF ComponentTo
<1>13. /\ r[0] = {n} /\ \A i \in 1..k : r[i] = Wider(edges, r[i - 1])
       /\ Pages!Component(edges, n) = r[k]
  BY <1>2, <1>12 DEF ComponentSteps, only
<1>5. ASSUME NEW i \in 1..k PROVE r[i - 1] \in V /\ r[i] \in V
  BY <1>4
<1> DEFINE Grown(i) == {S \in V : n \in S /\ (Uncut(edges, S) \/ Cardinality(S) >= i + 1)}
           T == [i \in 0..k |-> Grown(i)]
<1>6. \A i \in 0..k : r[i] \in T[i]
  <2>1. r[0] \in T[0]
    <3>1. Cardinality({n}) = 1
      BY FS_Singleton
    <3> QED
      BY <1>3, <1>4, <1>13, <3>1
  <2>2. ASSUME NEW i \in 1..k, r[i - 1] \in T[i - 1] PROVE r[i] \in T[i]
    <3>1. i \in 0..k /\ i - 1 \in 0..k /\ r[i - 1] \in Grown(i - 1)
      BY <1>4, <2>2
    <3>2. r[i - 1] \in V /\ r[i] \in V /\ r[i] = Wider(edges, r[i - 1])
      BY <1>5, <1>13
    <3>3. n \in r[i] /\ r[i - 1] \subseteq r[i]
      BY <3>1, <3>2, Grows DEF V
    <3>4. CASE Uncut(edges, r[i - 1])
      <4>1. r[i] = r[i - 1]
        BY <3>2, <3>4, Grows DEF V
      <4> QED
        BY <3>1, <3>2, <3>3, <3>4, <4>1
    <3>5. CASE ~Uncut(edges, r[i - 1])
      <4>1. PICK x \in r[i] : x \notin r[i - 1]
        BY <3>2, <3>5, Grows DEF V
      <4>2. Cardinality(r[i - 1]) >= i /\ i \in Nat
        BY <1>4, <3>1, <3>5
      <4>3. IsFiniteSet(r[i]) /\ IsFiniteSet(r[i - 1])
        BY <1>1, <3>2, FS_Subset DEF V
      <4>4. Cardinality(r[i - 1] \cup {x}) = Cardinality(r[i - 1]) + 1
        BY <4>1, <4>3, FS_AddElement
      <4>5. Cardinality(r[i - 1] \cup {x}) <= Cardinality(r[i])
        <5>1. r[i - 1] \cup {x} \in SUBSET r[i]
          BY <3>3, <4>1
        <5> QED
          BY <4>3, <5>1, FS_Subset
      <4>6. Cardinality(r[i]) \in Nat /\ Cardinality(r[i - 1]) \in Nat
        BY <4>3, FS_CardinalityType
      <4>7. Cardinality(r[i]) >= i + 1
        BY <4>2, <4>4, <4>5, <4>6
      <4> QED
        BY <3>1, <3>2, <3>3, <4>7
    <3> QED
      BY <3>4, <3>5
  <2> HIDE DEF T
  <2> QED
    BY <1>4, <2>1, <2>2, Reaches
<1>7. n \in r[k] /\ r[k] \in V /\ Uncut(edges, r[k])
  <2>1. k \in 0..k
    BY <1>1
  <2>2. r[k] \in Grown(k)
    BY <1>6, <2>1
  <2>3. Cardinality(r[k]) <= k
    BY <1>1, <2>2, FS_Subset DEF V, k
  <2>4. Cardinality(r[k]) \in Nat
    BY <1>1, <2>2, FS_Subset, FS_CardinalityType DEF V
  <2>5. ~(Cardinality(r[k]) >= k + 1)
    BY <1>1, <2>3, <2>4
  <2> QED
    BY <2>2, <2>5
<1>8. ASSUME NEW D, n \in D, Uncut(edges, D) PROVE r[k] \subseteq D
  <2> DEFINE U == [i \in 0..k |-> V \cap SUBSET D]
  <2>1. r[0] \in U[0]
    BY <1>3, <1>4, <1>8, <1>13
  <2>2. ASSUME NEW i \in 1..k, r[i - 1] \in U[i - 1] PROVE r[i] \in U[i]
    <3>1. i \in 0..k /\ i - 1 \in 0..k
      BY <1>4
    <3>2. r[i - 1] \subseteq D /\ r[i - 1] \in V /\ r[i] \in V
      BY <1>5, <2>2, <3>1
    <3>3. r[i] \subseteq D
      BY <1>8, <1>13, <3>2, Grows DEF V
    <3> QED
      BY <3>1, <3>2, <3>3
  <2>3. k \in 0..k
    BY <1>1
  <2> HIDE DEF U
  <2>4. r[k] \in U[k]
    BY <1>4, <2>1, <2>2, <2>3, Reaches
  <2> QED
    BY <2>3, <2>4 DEF U
<1> QED
  BY <1>7, <1>8, <1>13 DEF V

\* A component is the component of each of its nodes.
LEMMA OneComponent ==
  ASSUME NEW edges, IsFiniteSet(edges), NEW n \in Pages!Nodes(edges), NEW m \in Pages!Component(edges, n)
  PROVE  Pages!Component(edges, m) = Pages!Component(edges, n)
<1> DEFINE C == Pages!Component(edges, n)
           D == Pages!Component(edges, m)
<1>1. /\ n \in C /\ C \in SUBSET Pages!Nodes(edges) /\ Uncut(edges, C)
      /\ \A S : n \in S /\ Uncut(edges, S) => C \subseteq S
  BY ComponentIs
<1>2. m \in Pages!Nodes(edges)
  BY <1>1
<1>3. /\ m \in D /\ D \in SUBSET Pages!Nodes(edges) /\ Uncut(edges, D)
      /\ \A S : m \in S /\ Uncut(edges, S) => D \subseteq S
  BY <1>2, ComponentIs
<1> HIDE DEF C, D
<1>4. D \subseteq C
  BY <1>1, <1>3 DEF C
<1>5. n \in D
  <2>1. Uncut(edges, Pages!Nodes(edges) \ D)
    BY <1>3, NodesAreFinite DEF Uncut
  <2>2. m \notin Pages!Nodes(edges) \ D
    BY <1>3
  <2>3. ~(C \subseteq Pages!Nodes(edges) \ D)
    BY <2>2 DEF C
  <2>4. n \notin Pages!Nodes(edges) \ D
    BY <1>1, <2>1, <2>3
  <2> QED
    BY <2>4
<1>6. C \subseteq D
  BY <1>1, <1>3, <1>5
<1> QED
  BY <1>4, <1>6 DEF C, D

-----------------------------------------------------------------------------

\* The ends of an edge share a component, and a component of one canonical
\* customer has that one.
LEMMA ResolutionIs ==
  ASSUME NEW edges, IsFiniteSet(edges), Pages!Resolvable(edges)
  PROVE  /\ \A e \in edges : Pages!Resolution(edges)[e.left] = Pages!Resolution(edges)[e.right]
         /\ \A n \in Pages!Nodes(edges) : n[1] = "canonical" => Pages!Resolution(edges)[n] = n[2]
<1> DEFINE N == Pages!Nodes(edges)
           C(n) == Pages!Component(edges, n)
           K(n) == Pages!Canonicals(C(n))
<1>1. IsFiniteSet(N) /\ \A e \in edges : e.left \in N /\ e.right \in N
  BY NodesAreFinite
<1>2. \A n \in N : Pages!Resolution(edges)[n] = CHOOSE c \in K(n) : TRUE
  BY DEF Pages!Resolution
<1>3. \A n \in N : n \in C(n) /\ C(n) \in SUBSET N /\ Uncut(edges, C(n))
  BY ComponentIs
<1>4. ASSUME NEW e \in edges PROVE C(e.left) = C(e.right)
  <2>1. e.left \in N /\ e.right \in C(e.left)
    BY <1>1, <1>3 DEF Uncut
  <2> QED
    BY <2>1, OneComponent
<1>5. ASSUME NEW n \in N, n[1] = "canonical" PROVE K(n) = {n[2]}
  <2> DEFINE own == {m \in C(n) : m[1] = "canonical"}
             f == [m \in own |-> m[2]]
  <2>1. IsFiniteSet(own)
    BY <1>1, <1>3, FS_Subset
  <2>2. IsFiniteSet({f[m] : m \in own})
    <3> HIDE DEF own, f
    <3> QED
      BY <2>1, ImageIsFinite
  <2>3. K(n) = {f[m] : m \in own}
    BY DEF Pages!Canonicals
  <2>4. n[2] \in K(n)
    BY <1>3, <1>5 DEF Pages!Canonicals
  <2>5. Cardinality(K(n)) = 1
    <3>1. Pages!Cardinality(K(n)) = 1
      BY DEF Pages!Resolvable
    <3> QED
      BY <3>1, SameCardinality
  <2> HIDE DEF K, own, f
  <2>6. \E x : K(n) = {x}
    BY <2>2, <2>3, <2>5, FS_Singleton
  <2> QED
    BY <2>4, <2>6
<1>6. ASSUME NEW n \in N, n[1] = "canonical" PROVE Pages!Resolution(edges)[n] = n[2]
  <2> HIDE DEF K
  <2> QED
    BY <1>2, <1>5, <1>6
<1>7. ASSUME NEW e \in edges PROVE Pages!Resolution(edges)[e.left] = Pages!Resolution(edges)[e.right]
  <2>1. K(e.left) = K(e.right)
    BY <1>4
  <2> HIDE DEF K
  <2> QED
    BY <1>1, <1>2, <2>1
<1> QED
  BY <1>6, <1>7

Merges(x, y) == Pages!Merge(Pages!Merge([edges |-> {}, bad |-> FALSE], x), y)

\* Whatever the order, the two are merged when each has its customers and nothing conflicts.
LEMMA MergeIs ==
  ASSUME NEW x \in SUBSET Edges, NEW y \in SUBSET Edges
  PROVE  /\ Merges(x, y).bad <=> \/ ~Pages!Resolvable(x) \/ ~Pages!Resolvable(y)
                                 \/ \E a, b \in x \cup y : Pages!Conflict(a, b)
         /\ ~Merges(x, y).bad => Merges(x, y).edges = x \cup y
<1> DEFINE one == Pages!Merge([edges |-> {}, bad |-> FALSE], x)
           two == Pages!Merge(one, y)
<1>1. one.edges = x /\ (one.bad <=> ~Pages!Resolvable(x) \/ \E a, b \in x : Pages!Conflict(a, b))
  BY DEF Pages!Merge
<1>2. /\ two.edges = one.edges \cup {e \in y : \A z \in one.edges : z.key # e.key}
      /\ two.bad <=> one.bad \/ ~Pages!Resolvable(y) \/ \E a \in one.edges \cup y, b \in y : Pages!Conflict(a, b)
  BY DEF Pages!Merge
<1>3. two = Merges(x, y)
  BY DEF Merges
<1> HIDE DEF one, two
<1>4. \A a, b : Pages!Conflict(a, b) <=> Pages!Conflict(b, a)
  BY DEF Pages!Conflict, Pages!Ends
<1>5. two.bad <=> \/ ~Pages!Resolvable(x) \/ ~Pages!Resolvable(y)
                  \/ \E a, b \in x \cup y : Pages!Conflict(a, b)
  BY <1>1, <1>2, <1>4
<1>6. ASSUME ~two.bad, NEW e \in y, NEW z \in x, z.key = e.key PROVE e = z
  <2>1. ~Pages!Conflict(z, e) /\ z \in Edges /\ e \in Edges
    BY <1>5, <1>6
  <2>2. z.left = e.left /\ z.right = e.right /\ z.link = e.link
    BY <1>6, <2>1, EdgesAssumption
  <2>3. z.confidence = e.confidence
    BY <2>1, <2>2 DEF Pages!Conflict, Pages!Ends
  <2> QED
    BY <1>6, <2>1, <2>2, <2>3, EdgesAssumption
<1>7. ~two.bad => two.edges = x \cup y
  BY <1>1, <1>2, <1>6
<1> QED
  BY <1>3, <1>5, <1>7

LEMMA EdgesHold ==
  ASSUME NEW x \in SUBSET Edges, NEW y \in SUBSET Edges
  PROVE  EdgesSound(<<x, y>>)
<1> DEFINE good(m) == ~m.bad /\ Pages!Resolvable(m.edges)
           out == Merges(x, y)
           back == Merges(y, x)
<1>1. good(out) <=> good(back)
  <2>1. x \cup y = y \cup x
    OBVIOUS
  <2>2. ~out.bad <=> ~back.bad
    BY <2>1, MergeIs
  <2>3. ~out.bad => out.edges = back.edges
    BY <2>1, <2>2, MergeIs
  <2> HIDE DEF out, back
  <2> QED
    BY <2>2, <2>3
<1>2. good(out) => out.edges = x \cup y
  BY MergeIs
<1>3. IsFiniteSet(x \cup y)
  BY EdgesAssumption, FS_Subset
<1>4. good(out) => /\ \A e \in out.edges : Pages!Resolution(out.edges)[e.left] = Pages!Resolution(out.edges)[e.right]
                   /\ \A n \in Pages!Nodes(out.edges) : n[1] = "canonical" => Pages!Resolution(out.edges)[n] = n[2]
  <2> HIDE DEF out
  <2> QED
    BY <1>2, <1>3, ResolutionIs
<1> QED
  BY <1>1, <1>2, <1>4 DEF EdgesSound, Merges

-----------------------------------------------------------------------------
(* Chains of pages.                                                        *)

LEMMA RunExists ==
  ASSUME NEW V, NEW base \in V, NEW n \in Nat, NEW F \in [V \X (1..n) -> V]
  PROVE  \E r \in [0..n -> V] : Runs(F, base, n, r)
<1>1. PICK f \in [SUBSET (1..n) -> V] : FoldOf(F, base, n, f)
  BY FoldExists
<1>2. Unfolds(V, F, base, n, f)
  BY <1>1 DEF FoldOf, Unfolds
<1> QED
  BY <1>2, FoldTrace DEF RunsTo

\* The first m of seqs, one after the other.
Joined(seqs, m) == FlattenSeq([i \in 1..m |-> seqs[i]])

\* r joins one sequence more at each place.
Joins(seqs, n, r) == r[0] = << >> /\ \A i \in 1..n : r[i] = r[i - 1] \o seqs[i]

Joinable(E, seqs, n) == \E r \in [0..n -> Seq(E)] : Joins(seqs, n, r) /\ \A m \in 0..n : Joined(seqs, m) = r[m]

LEMMA JoinedIs ==
  ASSUME NEW E, NEW n \in Nat, NEW seqs, \A i \in 1..n : seqs[i] \in Seq(E)
  PROVE  Joinable(E, seqs, n)
<1> DEFINE V == Seq(E)
           F == [p \in V \X (1..n) |-> p[1] \o seqs[p[2]]]
<1>1. F \in [V \X (1..n) -> V] /\ << >> \in V
  <2>1. ASSUME NEW p \in V \X (1..n) PROVE p[1] \o seqs[p[2]] \in V
    <3>1. p[1] \in Seq(E) /\ seqs[p[2]] \in Seq(E)
      OBVIOUS
    <3> QED
      BY <3>1
  <2> QED
    BY <2>1
<1>2. \A x \in V, i \in 1..n : F[<<x, i>>] = x \o seqs[i]
  OBVIOUS
<1> HIDE DEF F, V
<1> DEFINE none == << >>
<1> HIDE DEF none
<1>3. PICK r \in [0..n -> V] : Runs(F, none, n, r)
  <2>1. none \in V
    BY <1>1 DEF none
  <2> QED
    BY <1>1, <2>1, RunExists
<1>4. \A i \in 1..n : r[i - 1] \in V /\ r[i] \in V
  OBVIOUS
<1>5. Joins(seqs, n, r)
  <2>1. r[0] = << >>
    BY <1>3 DEF Runs, none
  <2>2. ASSUME NEW i \in 1..n PROVE r[i] = r[i - 1] \o seqs[i]
    BY <1>2, <1>3, <1>4 DEF Runs
  <2> QED
    BY <2>1, <2>2 DEF Joins
<1>6. ASSUME NEW m \in 0..n PROVE Joined(seqs, m) = r[m]
  <2> DEFINE own == [i \in 1..m |-> seqs[i]]
             Fix(f) == f = [i \in 1..m |-> IF i = 1 THEN own[i] ELSE f[i - 1] \o own[i]]
             all == CHOOSE f : Fix(f)
  <2>1. m \in Nat /\ \A i \in 1..m : i \in 1..n /\ own[i] = seqs[i]
    OBVIOUS
  <2>3. Len(own) = m
    <3>1. own \in Seq(Seq(E))
      BY <2>1
    <3> QED
      BY <2>1, <3>1
  <2>4. CASE m = 0
    <3>1. own = << >> /\ r[0] = << >>
      BY <1>5, <2>4 DEF Joins
    <3>2. Joined(seqs, m) = own
      BY <2>3, <2>4 DEF Joined, FlattenSeq
    <3> QED
      BY <2>4, <3>1, <3>2
  <2>5. CASE m # 0
    <3>1. Joined(seqs, m) = all[m]
      <4>1. Joined(seqs, m) = IF Len(own) = 0 THEN own
                                ELSE (CHOOSE f : f = [i \in 1..Len(own) |-> IF i = 1 THEN own[i] ELSE f[i - 1] \o own[i]])[Len(own)]
        BY DEF Joined, FlattenSeq
      <4> HIDE DEF own
      <4> QED
        BY <2>3, <2>5, <4>1
    <3>2. \E f : Fix(f)
      <4> DEFINE g == [i \in 1..m |-> r[i]]
      <4>1. ASSUME NEW i \in 1..m PROVE g[i] = IF i = 1 THEN own[i] ELSE g[i - 1] \o own[i]
        <5>1. i \in 1..n /\ own[i] = seqs[i] /\ own[i] \in Seq(E) /\ r[i] = r[i - 1] \o seqs[i]
          BY <1>5, <2>1 DEF Joins
        <5>2. CASE i = 1
          <6>1. r[1 - 1] = << >>
            BY <1>5 DEF Joins
          <6> HIDE DEF own
          <6> QED
            BY <5>1, <5>2, <6>1
        <5>3. CASE i # 1
          <6>1. i - 1 \in 1..m
            BY <5>3
          <6> HIDE DEF own
          <6> QED
            BY <5>1, <5>3, <6>1
        <5> QED
          BY <5>2, <5>3
      <4>2. g = [i \in 1..m |-> g[i]]
        OBVIOUS
      <4> HIDE DEF g, own
      <4>3. g = [i \in 1..m |-> IF i = 1 THEN own[i] ELSE g[i - 1] \o own[i]]
        BY <4>1, <4>2
      <4> QED
        BY <4>3
    <3>3. Fix(all)
      <4> HIDE DEF Fix
      <4> QED
        BY <3>2
    <3> HIDE DEF all
    <3>4. \A i \in 1..m : all[i] = IF i = 1 THEN own[i] ELSE all[i - 1] \o own[i]
      <4> HIDE DEF own
      <4> QED
        BY <3>3
    <3> DEFINE S == [i \in 0..m |-> {x \in V : i = 0 \/ x = all[i]}]
    <3>5. r[0] \in S[0]
      <4>1. 0 \in 0..m /\ 0 \in 0..n
        BY <2>1
      <4> QED
        BY <4>1
    <3>6. ASSUME NEW i \in 1..m, r[i - 1] \in S[i - 1] PROVE r[i] \in S[i]
      <4>1. i \in 1..n /\ i \in 0..m /\ i - 1 \in 0..m /\ own[i] = seqs[i] /\ r[i] = r[i - 1] \o seqs[i] /\ r[i] \in V
        <5>1. i \in 1..n /\ i \in 0..m /\ i - 1 \in 0..m /\ own[i] = seqs[i]
          BY <2>1
        <5> HIDE DEF own
        <5> QED
          BY <1>4, <1>5, <5>1 DEF Joins
      <4>2. r[i] = all[i]
        <5>1. CASE i = 1
          <6>1. r[i - 1] = << >> /\ own[i] \in Seq(E)
            BY <1>5, <4>1, <5>1 DEF Joins
          <6>2. all[i] = own[i]
            BY <3>4, <5>1
          <6>3. << >> \o own[i] = own[i]
            BY <6>1
          <6> HIDE DEF own
          <6> QED
            BY <4>1, <6>1, <6>2, <6>3
        <5>2. CASE i # 1
          <6>1. r[i - 1] = all[i - 1]
            BY <3>6, <4>1, <5>2
          <6>2. all[i] = all[i - 1] \o own[i]
            BY <3>4, <5>2
          <6> HIDE DEF own
          <6> QED
            BY <4>1, <6>1, <6>2
        <5> QED
          BY <5>1, <5>2
      <4> QED
        BY <4>1, <4>2
    <3>7. m \in 0..m
      BY <2>1
    <3> HIDE DEF S, own
    <3>8. r[m] \in S[m]
      BY <2>1, <3>5, <3>6, <3>7, Reaches
    <3> QED
      BY <2>5, <3>1, <3>7, <3>8 DEF S
  <2> QED
    BY <2>4, <2>5
<1> QED
  BY <1>5, <1>6 DEF V, Joinable

\* Where a piece of a joint sequence is.
LEMMA JoinedAt ==
  ASSUME NEW E, NEW s \in Seq(E), NEW t \in Seq(E)
  PROVE  /\ s \o t \in Seq(E) /\ DOMAIN (s \o t) = 1..(Len(s) + Len(t))
         /\ \A i \in DOMAIN (s \o t) : \/ i \in DOMAIN s /\ (s \o t)[i] = s[i]
                                       \/ i > Len(s) /\ i - Len(s) \in DOMAIN t /\ (s \o t)[i] = t[i - Len(s)]
<1>1. /\ s \o t \in Seq(E) /\ Len(s \o t) = Len(s) + Len(t) /\ Len(s) \in Nat /\ Len(t) \in Nat
      /\ \A i \in 1..(Len(s) + Len(t)) : (s \o t)[i] = IF i <= Len(s) THEN s[i] ELSE t[i - Len(s)]
  OBVIOUS
<1>2. DOMAIN s = 1..Len(s) /\ DOMAIN t = 1..Len(t) /\ DOMAIN (s \o t) = 1..(Len(s) + Len(t))
  BY <1>1
<1>3. ASSUME NEW i \in 1..(Len(s) + Len(t))
      PROVE  \/ i \in DOMAIN s /\ (s \o t)[i] = s[i]
             \/ i > Len(s) /\ i - Len(s) \in DOMAIN t /\ (s \o t)[i] = t[i - Len(s)]
  BY <1>1, <1>2
<1> QED
  BY <1>1, <1>2, <1>3

\* One page of a chain, and a chain accepted from a state.
PageStep(s, page) ==
  IF s.ok /\ Pages!PageAccepted(page, s.session.last[1], 1, Scope, 2, s.session, Known)
  THEN [ok |-> TRUE, session |-> Pages!AfterPage(page, 1, s.session), n |-> s.n + 1]
  ELSE [s EXCEPT !.ok = FALSE]
AcceptedFrom(chain, base) ==
  FoldLeft(LAMBDA s, page :
             IF s.ok /\ Pages!PageAccepted(page, s.session.last[1], 1, Scope, 2, s.session, Known)
             THEN [ok |-> TRUE, session |-> Pages!AfterPage(page, 1, s.session), n |-> s.n + 1]
             ELSE [s EXCEPT !.ok = FALSE],
           base, chain)

AcceptedClosed(chain, V, n) == \A x \in V, i \in 1..n : PageStep(x, chain[i]) \in V
AcceptedSteps(chain, base, n, r) == r[0] = base /\ \A i \in 1..n : r[i] = PageStep(r[i - 1], chain[i])
AcceptedTo(chain, V, base, n, end) == \E r \in [0..n -> V] : AcceptedSteps(chain, base, n, r) /\ end = r[n]

LEMMA AcceptedTrace ==
  ASSUME NEW chain, NEW V, NEW base \in V, NEW n \in Nat, DOMAIN chain = 1..n, AcceptedClosed(chain, V, n)
  PROVE  AcceptedTo(chain, V, base, n, AcceptedFrom(chain, base))
<1> DEFINE op(x, i) == PageStep(x, chain[i])
           Fix(f) == f = [s \in SUBSET (1..n) |-> IF s = {} THEN base ELSE op(f[s \ {Max(s)}], Max(s))]
           F == [p \in V \X (1..n) |-> op(p[1], p[2])]
           all == CHOOSE f : Fix(f)
<1>1. AcceptedFrom(chain, base) = all[1..n]
  BY DEF PageStep, AcceptedFrom, FoldLeft, MapThenFoldSet
<1>2. F \in [V \X (1..n) -> V] /\ \A x \in V, i \in 1..n : F[<<x, i>>] = op(x, i)
  BY DEF AcceptedClosed
<1>3. \A x \in V, i \in 1..n : op(x, i) = PageStep(x, chain[i])
  OBVIOUS
<1> HIDE DEF op, F
<1>4. \E f : Fix(f)
  <2>1. PICK f \in [SUBSET (1..n) -> V] : FoldOf(F, base, n, f)
    BY <1>2, FoldExists
  <2>2. ASSUME NEW s \in SUBSET (1..n) PROVE f[s] = IF s = {} THEN base ELSE op(f[s \ {Max(s)}], Max(s))
    <3>1. f[s] = IF s = {} THEN base ELSE F[<<f[s \ {Max(s)}], Max(s)>>]
      BY <2>1 DEF FoldOf
    <3>2. s # {} => Max(s) \in 1..n /\ f[s \ {Max(s)}] \in V
      BY <2>1, MaxIn
    <3> QED
      BY <1>2, <3>1, <3>2
  <2>3. f = [s \in SUBSET (1..n) |-> f[s]]
    BY <2>1
  <2> QED
    BY <2>2, <2>3
<1>5. Fix(all)
  <2> HIDE DEF Fix
  <2> QED
    BY <1>4
<1> HIDE DEF all
<1>6. ASSUME NEW s \in SUBSET (1..n) PROVE all[s] = IF s = {} THEN base ELSE op(all[s \ {Max(s)}], Max(s))
  BY <1>5
<1>7. Unfolds(V, F, base, n, all)
  <2>1. \A s \in SUBSET (1..n) : s # {} => Max(s) \in 1..n
    BY MaxIn
  <2> QED
    BY <1>2, <1>6, <2>1 DEF Unfolds
<1>8. PICK r \in [0..n -> V] : Runs(F, base, n, r) /\ r[n] = all[1..n]
  <2>1. F \in [V \X (1..n) -> V]
    BY <1>2
  <2>2. RunsTo(V, F, base, n, all[1..n])
    BY <1>7, <2>1, FoldTrace
  <2> QED
    BY <2>2 DEF RunsTo
<1>9. ASSUME NEW i \in 1..n PROVE r[i] = PageStep(r[i - 1], chain[i])
  <2>1. r[i - 1] \in V
    OBVIOUS
  <2> QED
    BY <1>2, <1>3, <1>8, <2>1 DEF Runs
<1> QED
  BY <1>1, <1>8, <1>9 DEF Runs, AcceptedSteps, AcceptedTo

\* All of a page counts only once.
LEMMA AllDifferent ==
  ASSUME NEW E, NEW q \in Seq(E), Pages!Cardinality({e.id : e \in Pages!ToSet(q)}) = Len(q)
  PROVE  \A i, j \in DOMAIN q : i # j => q[i].id # q[j].id
<1> DEFINE n == Len(q)
           f == [i \in 1..n |-> q[i].id]
           Ids == {e.id : e \in Pages!ToSet(q)}
<1>1. n \in Nat /\ DOMAIN q = 1..n
  OBVIOUS
<1>2. f \in Surjection(1..n, Ids)
  BY ZenonT(60), <1>1 DEF Surjection, Pages!ToSet
<1>3. IsFiniteSet(1..n) /\ Cardinality(1..n) = n
  <2>1. n \in Nat
    BY <1>1
  <2> HIDE DEF n
  <2> QED
    BY <2>1, IntervalIs
<1>4. Cardinality(Ids) = n
  BY SameCardinality
<1> HIDE DEF f, Ids
<1>5. f \in Injection(1..n, Ids)
  BY <1>2, <1>3, <1>4, FS_Surjection
<1> QED
  BY ZenonT(60), <1>1, <1>5 DEF Injection, IsInjective, f

\* What is accepted so far, and what its session knows of it.
Good(q) ==
  \A i, j \in DOMAIN q : /\ i < j => q[i].key < q[j].key /\ q[i].id # q[j].id
                         /\ \A x \in q[i].identities : Known[x] = q[i].customer

Past(session, q) ==
  \A k \in DOMAIN q : q[k].id \in session.ids /\ session.last[1] # Null /\ q[k].key <= session.last[1]

LEMMA PageExtends ==
  ASSUME NEW E, \A e \in E : e.key \in Nat, Null \notin Nat, NEW q \in Seq(E), NEW page, page.items \in Seq(E),
         NEW session, session.last \in [{1} -> Nat \cup {Null}],
         Good(q), Past(session, q), Pages!PageAccepted(page, session.last[1], 1, Scope, 2, session, Known)
  PROVE  Good(q \o page.items) /\ Past(Pages!AfterPage(page, 1, session), q \o page.items)
<1> DEFINE p == page.items
           both == q \o p
           after == Pages!AfterPage(page, 1, session)
<1>1. /\ DOMAIN q = 1..Len(q) /\ Len(q) \in Nat /\ DOMAIN p = 1..Len(p) /\ Len(p) \in Nat
      /\ \A i \in DOMAIN q : q[i] \in E /\ q[i].key \in Nat
      /\ \A i \in DOMAIN p : p[i] \in E /\ p[i].key \in Nat
  OBVIOUS
<1>2. /\ DOMAIN both = 1..(Len(q) + Len(p))
      /\ \A i \in DOMAIN both : \/ i \in DOMAIN q /\ both[i] = q[i]
                                \/ i > Len(q) /\ i - Len(q) \in DOMAIN p /\ both[i] = p[i - Len(q)]
  BY JoinedAt
<1>3. \A i, j \in DOMAIN p : i < j => p[i].key < p[j].key
  <2>1. Pages!Increasing(Pages!Keys(page))
    BY DEF Pages!PageAccepted
  <2> QED
    BY <2>1 DEF Pages!Increasing, Pages!Keys
<1>4. \A i \in DOMAIN p : /\ \A x \in p[i].identities : Known[x] = p[i].customer
                          /\ p[i].id \notin session.ids
  <2>1. \A e \in Pages!ToSet(p) : Pages!EventValid(e, Scope, Known) /\ e.id \notin session.ids
    BY DEF Pages!PageAccepted
  <2>2. \A i \in DOMAIN p : p[i] \in Pages!ToSet(p)
    BY DEF Pages!ToSet
  <2> QED
    BY <2>1, <2>2 DEF Pages!EventValid
<1>5. \A i, j \in DOMAIN p : i # j => p[i].id # p[j].id
  BY AllDifferent DEF Pages!PageAccepted
<1>6. ASSUME NEW i \in DOMAIN p PROVE session.last[1] # Null => p[i].key > session.last[1]
  <2>1. p # << >> /\ 1 \in DOMAIN p
    BY <1>1, <1>6
  <2>2. session.last[1] # Null => p[1].key > session.last[1] /\ session.last[1] \in Nat
    BY <2>1 DEF Pages!PageAccepted
  <2>3. i = 1 \/ p[1].key < p[i].key
    <3>1. i = 1 \/ 1 < i
      BY <1>1
    <3> QED
      BY <1>3, <2>1, <3>1
  <2> QED
    BY <1>1, <2>1, <2>2, <2>3
<1>7. /\ \A k \in DOMAIN q : q[k].id \in after.ids
      /\ \A k \in DOMAIN p : p[k].id \in after.ids
  <2>1. \A k \in DOMAIN p : p[k] \in Pages!ToSet(p)
    BY DEF Pages!ToSet
  <2>2. after.ids = session.ids \cup {e.id : e \in Pages!ToSet(p)}
    BY DEF Pages!AfterPage
  <2> QED
    BY <2>1, <2>2 DEF Past
<1>8. CASE p = << >>
  <2>1. both = q
    BY <1>8
  <2>2. after.last = session.last
    BY <1>8 DEF Pages!AfterPage
  <2> HIDE DEF after, both
  <2> QED
    BY <1>7, <2>1, <2>2 DEF Past, after, both
<1>9. CASE p # << >>
  <2>1. after.last[1] = p[Len(p)].key
    <3>1. Pages!Last(Pages!Keys(page)) = p[Len(p)].key
      <4>1. Pages!Keys(page) = [i \in 1..Len(p) |-> p[i].key]
        BY <1>1 DEF Pages!Keys
      <4>2. Pages!Keys(page) \in Seq(Nat) /\ Len(Pages!Keys(page)) = Len(p) /\ Len(p) \in 1..Len(p)
        <5>1. [i \in 1..Len(p) |-> p[i].key] \in [1..Len(p) -> Nat]
          BY <1>1
        <5>2. Len(p) \in 1..Len(p)
          BY <1>1, <1>9
        <5> QED
          BY <1>1, <4>1, <5>1, <5>2
      <4> QED
        BY <4>1, <4>2 DEF Pages!Last
    <3>2. after.last = [session.last EXCEPT ![1] = Pages!Last(Pages!Keys(page))]
      BY <1>9 DEF Pages!AfterPage
    <3> QED
      BY <3>1, <3>2
  <2>2. Len(p) \in DOMAIN p /\ \A k \in DOMAIN p : k <= Len(p)
    BY <1>1, <1>9
  <2>3. p[Len(p)].key \in Nat /\ p[Len(p)].key # Null
    BY <1>1, <2>2
  <2>4. ASSUME NEW k \in DOMAIN p PROVE p[k].key <= p[Len(p)].key
    <3>1. k = Len(p) \/ k < Len(p)
      BY <1>1, <2>2
    <3> QED
      BY <1>1, <1>3, <2>2, <3>1
  <2>5. ASSUME NEW k \in DOMAIN q, NEW l \in DOMAIN p PROVE q[k].key < p[l].key /\ q[k].id # p[l].id
    <3>1. q[k].id \in session.ids /\ session.last[1] \in Nat /\ session.last[1] # Null /\ q[k].key <= session.last[1]
      BY DEF Past
    <3>2. p[l].key > session.last[1]
      BY <1>6, <3>1
    <3> QED
      BY <1>1, <1>4, <3>1, <3>2
  <2>6. ASSUME NEW k \in DOMAIN q PROVE q[k].key <= p[Len(p)].key
    BY <1>1, <2>2, <2>5
  <2>7. Past(after, both)
    <3> HIDE DEF after, both
    <3> QED
      BY <1>2, <1>7, <2>1, <2>3, <2>4, <2>6 DEF Past
  <2>8. ASSUME NEW i \in DOMAIN both, NEW j \in DOMAIN both
        PROVE  /\ i < j => both[i].key < both[j].key /\ both[i].id # both[j].id
               /\ \A x \in both[i].identities : Known[x] = both[i].customer
    <3>1. \A x \in both[i].identities : Known[x] = both[i].customer
      <4> HIDE DEF both
      <4> QED
        BY <1>2, <1>4 DEF Good
    <3>2. ASSUME i < j PROVE both[i].key < both[j].key /\ both[i].id # both[j].id
      <4> HIDE DEF both
      <4>1. CASE i \in DOMAIN q /\ both[i] = q[i] /\ j \in DOMAIN q /\ both[j] = q[j]
        BY <3>2, <4>1 DEF Good
      <4>2. CASE /\ i \in DOMAIN q /\ both[i] = q[i]
                 /\ j > Len(q) /\ j - Len(q) \in DOMAIN p /\ both[j] = p[j - Len(q)]
        BY <2>5, <4>2
      <4>3. CASE /\ i > Len(q) /\ i - Len(q) \in DOMAIN p /\ both[i] = p[i - Len(q)]
                 /\ j > Len(q) /\ j - Len(q) \in DOMAIN p /\ both[j] = p[j - Len(q)]
        <5>1. i - Len(q) < j - Len(q) /\ i - Len(q) # j - Len(q)
          BY <1>1, <1>2, <3>2, <4>3
        <5> QED
          BY <1>3, <1>5, <4>3, <5>1
      <4>4. i > Len(q) => j \notin DOMAIN q
        BY <1>1, <1>2, <3>2
      <4> QED
        BY <1>2, <4>1, <4>2, <4>3, <4>4
    <3> QED
      BY <3>1, <3>2
  <2>9. Good(both)
    BY <2>8 DEF Good
  <2> QED
    BY <2>7, <2>9
<1> QED
  BY <1>8, <1>9

\* A page leaves a state of the session.
Sessions(Ids) == [ok : BOOLEAN, session : [ids : SUBSET Ids, last : [{1} -> Nat \cup {Null}]], n : Nat]

Stepped(s, page) ==
  \/ /\ Pages!PageAccepted(page, s.session.last[1], 1, Scope, 2, s.session, Known)
     /\ s.ok /\ PageStep(s, page).n = s.n + 1 /\ PageStep(s, page).session = Pages!AfterPage(page, 1, s.session)
  \/ PageStep(s, page).n = s.n /\ ~PageStep(s, page).ok

LEMMA PageStepIs ==
  ASSUME NEW Ids, NEW s \in Sessions(Ids),
         NEW E, \A e \in E : e.key \in Nat /\ e.id \in Ids, NEW page, page.items \in Seq(E)
  PROVE  PageStep(s, page) \in Sessions(Ids) /\ Stepped(s, page)
<1>0. /\ s.ok \in BOOLEAN /\ s.n \in Nat /\ s.session.ids \in SUBSET Ids
      /\ s.session.last \in [{1} -> Nat \cup {Null}] /\ s.session \in [ids : SUBSET Ids, last : [{1} -> Nat \cup {Null}]]
  BY DEF Sessions
<1> DEFINE p == page.items
           after == Pages!AfterPage(page, 1, s.session)
<1>1. after \in [ids : SUBSET Ids, last : [{1} -> Nat \cup {Null}]]
  <2>1. {e.id : e \in Pages!ToSet(p)} \in SUBSET Ids
    BY DEF Pages!ToSet
  <2>2. p # << >> => Pages!Last(Pages!Keys(page)) \in Nat
    <3>1. Pages!Keys(page) \in [1..Len(p) -> Nat]
      BY DEF Pages!Keys
    <3>2. Len(p) \in Nat /\ (p # << >> => Len(p) \in 1..Len(p))
      OBVIOUS
    <3>3. Pages!Keys(page) \in Seq(Nat) /\ Len(Pages!Keys(page)) = Len(p)
      BY SMTT(60), <3>1, <3>2
    <3> QED
      BY <3>1, <3>2, <3>3 DEF Pages!Last
  <2>3. after.last \in [{1} -> Nat \cup {Null}]
    BY <1>0, <2>2 DEF Pages!AfterPage
  <2>4. after.ids \in SUBSET Ids
    BY <1>0, <2>1 DEF Pages!AfterPage
  <2>5. after = [ids |-> after.ids, last |-> after.last]
    BY DEF Pages!AfterPage
  <2> HIDE DEF after
  <2> QED
    BY <2>3, <2>4, <2>5
<1> HIDE DEF after
<1>2. CASE s.ok /\ Pages!PageAccepted(page, s.session.last[1], 1, Scope, 2, s.session, Known)
  <2>1. PageStep(s, page) = [ok |-> TRUE, session |-> after, n |-> s.n + 1]
    BY <1>2 DEF PageStep, after
  <2> QED
    BY <1>0, <1>1, <1>2, <2>1 DEF after, Sessions, Stepped
<1>3. CASE ~(s.ok /\ Pages!PageAccepted(page, s.session.last[1], 1, Scope, 2, s.session, Known))
  <2>1. PageStep(s, page) = [s EXCEPT !.ok = FALSE]
    BY <1>3 DEF PageStep
  <2>2. [s EXCEPT !.ok = FALSE] \in Sessions(Ids) /\ [s EXCEPT !.ok = FALSE].n = s.n /\ ~[s EXCEPT !.ok = FALSE].ok
    BY DEF Sessions
  <2> QED
    BY <2>1, <2>2 DEF Stepped
<1> QED
  BY <1>2, <1>3

LEMMA ChainHolds ==
  ASSUME NEW chain \in Chains
  PROVE  ChainSound(chain)
<1> DEFINE n == Len(chain)
           items == [i \in 1..n |-> chain[i].items]
           E == UNION {ToSet(chain[i].items) : i \in 1..n}
           Ids == {e.id : e \in E}
           V == Sessions(Ids)
           base == [ok |-> TRUE, session |-> Pages!NewSession({1}), n |-> 0]
<1>1. /\ n \in Nat /\ DOMAIN chain = 1..n
      /\ \A i \in 1..n : chain[i].items \in Seq(E)
      /\ \A e \in E : e.key \in Nat /\ e.id \in Ids
  <2>1. chain \in Seq(ToSet(chain))
    BY ChainsAssumption
  <2>2. n \in Nat /\ DOMAIN chain = 1..n
    BY <2>1
  <2>3. ASSUME NEW i \in 1..n
        PROVE  chain[i].items \in Seq(ToSet(chain[i].items)) /\ \A e \in ToSet(chain[i].items) : e.key \in Nat
    <3>1. chain[i] \in ToSet(chain)
      BY <2>2 DEF ToSet
    <3> QED
      BY <3>1, ChainsAssumption
  <2>4. ASSUME NEW i \in 1..n PROVE chain[i].items \in Seq(E)
    <3>1. ToSet(chain[i].items) \subseteq E
      OBVIOUS
    <3> HIDE DEF E
    <3> QED
      BY <2>3, <3>1, SeqMonotonic
  <2> QED
    BY <2>2, <2>3, <2>4
<1> HIDE DEF n, E, Ids
<1>3. base \in V /\ base.n = 0 /\ base.ok
  BY DEF Pages!NewSession, Sessions
<1>4. ASSUME NEW s \in V, NEW i \in 1..n PROVE PageStep(s, chain[i]) \in V /\ Stepped(s, chain[i])
  <2>1. chain[i].items \in Seq(E)
    BY <1>1
  <2>2. \A e \in E : e.key \in Nat /\ e.id \in Ids
    BY <1>1
  <2> QED
    BY <2>1, <2>2, PageStepIs
<1>5. \A s \in V : s.session.last \in [{1} -> Nat \cup {Null}] /\ s.n \in Nat
  BY DEF Sessions
<1> HIDE DEF V, base
<1>6. PICK r \in [0..n -> V] : AcceptedSteps(chain, base, n, r) /\ AcceptedFrom(chain, base) = r[n]
  <2>1. AcceptedClosed(chain, V, n)
    BY <1>4 DEF AcceptedClosed
  <2>2. base \in V
    BY <1>3
  <2>3. AcceptedTo(chain, V, base, n, AcceptedFrom(chain, base))
    BY <1>1, <2>1, <2>2, AcceptedTrace
  <2> QED
    BY <2>3 DEF AcceptedTo
<1>7. Accepted(chain) = r[n]
  <2>1. Accepted(chain) = AcceptedFrom(chain, base)
    BY ZenonT(60) DEF Accepted, AcceptedFrom, base
  <2> QED
    BY <1>6, <2>1
<1>8. PICK g \in [0..n -> Seq(E)] : Joins(items, n, g) /\ \A m \in 0..n : Joined(items, m) = g[m]
  <2>1. \A i \in 1..n : items[i] \in Seq(E)
    BY <1>1
  <2> HIDE DEF items
  <2>2. n \in Nat
    BY <1>1
  <2>3. Joinable(E, items, n)
    BY <2>1, <2>2, JoinedIs
  <2> QED
    BY <2>3 DEF Joinable
<1>9. \A i \in 1..n : /\ i \in 0..n /\ i - 1 \in 0..n /\ i \in Nat
                      /\ items[i] = chain[i].items
  BY <1>1
<1> HIDE DEF items
<1> DEFINE S == [i \in 0..n |-> {s \in V : /\ s.n \in 0..i /\ Good(g[s.n])
                                           /\ s.ok => s.n = i /\ Past(s.session, g[i])}]
<1>10. r[0] \in S[0]
  <2>1. 0 \in 0..n /\ 0 \in 0..0 /\ 0 \in Nat
    BY <1>1
  <2>2. g[0] = << >> /\ r[0] = base
    BY <1>6, <1>8 DEF Joins, AcceptedSteps
  <2>3. Good(<< >>) /\ Past(base.session, << >>)
    BY DEF Good, Past
  <2>4. Good(g[base.n]) /\ Past(base.session, g[0])
    BY <1>3, <2>2, <2>3
  <2> QED
    BY <1>3, <2>1, <2>2, <2>4
<1>11. ASSUME NEW i \in 1..n, r[i - 1] \in S[i - 1] PROVE r[i] \in S[i]
  <2> DEFINE s == r[i - 1]
  <2>1. i \in 0..n /\ i - 1 \in 0..n /\ (i - 1) + 1 = i /\ \A m \in 0..(i - 1) : m \in 0..i
    BY <1>1
  <2>2. s \in V /\ s.n \in 0..(i - 1) /\ Good(g[s.n]) /\ (s.ok => s.n = i - 1 /\ Past(s.session, g[i - 1]))
    BY <1>11, <2>1
  <2>3. r[i] = PageStep(s, chain[i])
    BY <1>6 DEF AcceptedSteps
  <2>4. g[i] = g[i - 1] \o chain[i].items /\ g[i - 1] \in Seq(E)
    BY <1>8, <1>9, <2>1 DEF Joins
  <2> HIDE DEF s
  <2>5. r[i] \in V
    BY <1>4, <2>2, <2>3
  <2>6. CASE /\ Pages!PageAccepted(chain[i], s.session.last[1], 1, Scope, 2, s.session, Known)
             /\ s.ok /\ r[i].n = s.n + 1 /\ r[i].session = Pages!AfterPage(chain[i], 1, s.session)
    <3>1. r[i].n = i /\ i \in 0..i
      BY <2>1, <2>2, <2>6
    <3>2. Good(g[i - 1]) /\ Past(s.session, g[i - 1])
      BY <2>2, <2>6
    <3>3. Good(g[i]) /\ Past(r[i].session, g[i])
      <4>1. chain[i].items \in Seq(E) /\ \A e \in E : e.key \in Nat
        BY <1>1
      <4>2. s.session.last \in [{1} -> Nat \cup {Null}]
        BY <1>5, <2>2
      <4>3. Null \notin Nat
        BY ChainsAssumption
      <4>4. Good(g[i - 1] \o chain[i].items) /\ Past(Pages!AfterPage(chain[i], 1, s.session), g[i - 1] \o chain[i].items)
        BY <2>4, <2>6, <3>2, <4>1, <4>2, <4>3, PageExtends
      <4> QED
        BY <2>4, <2>6, <4>4
    <3> QED
      BY <2>1, <2>5, <3>1, <3>3
  <2>7. CASE r[i].n = s.n /\ ~r[i].ok
    <3>1. r[i].n \in 0..i /\ Good(g[r[i].n])
      BY <2>1, <2>2, <2>7
    <3> QED
      BY <2>1, <2>5, <2>7, <3>1
  <2> QED
    BY <1>4, <2>2, <2>3, <2>6, <2>7 DEF Stepped
<1>12. n \in 0..n
  BY <1>1
<1>13. r[n] \in S[n]
  <2> HIDE DEF S
  <2> QED
    BY <1>1, <1>10, <1>11, <1>12, Reaches
<1>14. Accepted(chain).n \in 0..n /\ Good(g[Accepted(chain).n])
  BY <1>7, <1>12, <1>13
<1>15. FlattenSeq([i \in 1..Accepted(chain).n |-> chain[i].items]) = g[Accepted(chain).n]
  <2> DEFINE m == Accepted(chain).n
  <2>1. m \in 0..n
    BY <1>14
  <2> HIDE DEF m
  <2>2. Joined(items, m) = g[m]
    BY <1>8, <2>1
  <2>3. \A i \in 1..m : i \in 1..n
    BY <1>1, <2>1
  <2>4. [i \in 1..m |-> items[i]] = [i \in 1..m |-> chain[i].items]
    BY <1>9, <2>3
  <2>5. Joined(items, m) = FlattenSeq([i \in 1..m |-> items[i]])
    BY DEF Joined
  <2>6. FlattenSeq([i \in 1..m |-> chain[i].items]) = g[m]
    BY <2>2, <2>4, <2>5
  <2> QED
    BY <2>6 DEF m
<1>16. ChainSound(chain) <=> Good(FlattenSeq([i \in 1..Accepted(chain).n |-> chain[i].items]))
  BY DEF ChainSound, Good
<1> QED
  BY <1>14, <1>15, <1>16

\* One more customer, and customers from some that are there.
FillStep(out, r, limit) == IF Len(out) >= limit \/ r \in ToSet(out) THEN out ELSE Append(out, r)
FilledFrom(seq, limit, base) ==
  FoldLeft(LAMBDA out, r : IF Len(out) >= limit \/ r \in ToSet(out) THEN out ELSE Append(out, r), base, seq)

FilledClosed(seq, limit, V, n) == \A x \in V, i \in 1..n : FillStep(x, seq[i], limit) \in V
FilledSteps(seq, limit, base, n, r) == r[0] = base /\ \A i \in 1..n : r[i] = FillStep(r[i - 1], seq[i], limit)
FilledTo(seq, limit, V, base, n, end) == \E r \in [0..n -> V] : FilledSteps(seq, limit, base, n, r) /\ end = r[n]

LEMMA FilledTrace ==
  ASSUME NEW seq, NEW limit, NEW V, NEW base \in V, NEW n \in Nat, DOMAIN seq = 1..n, FilledClosed(seq, limit, V, n)
  PROVE  FilledTo(seq, limit, V, base, n, FilledFrom(seq, limit, base))
<1> DEFINE op(x, i) == FillStep(x, seq[i], limit)
           Fix(f) == f = [s \in SUBSET (1..n) |-> IF s = {} THEN base ELSE op(f[s \ {Max(s)}], Max(s))]
           F == [p \in V \X (1..n) |-> op(p[1], p[2])]
           all == CHOOSE f : Fix(f)
<1>1. FilledFrom(seq, limit, base) = all[1..n]
  BY DEF FillStep, FilledFrom, FoldLeft, MapThenFoldSet
<1>2. F \in [V \X (1..n) -> V] /\ \A x \in V, i \in 1..n : F[<<x, i>>] = op(x, i)
  BY DEF FilledClosed
<1>3. \A x \in V, i \in 1..n : op(x, i) = FillStep(x, seq[i], limit)
  OBVIOUS
<1> HIDE DEF op, F
<1>4. \E f : Fix(f)
  <2>1. PICK f \in [SUBSET (1..n) -> V] : FoldOf(F, base, n, f)
    BY <1>2, FoldExists
  <2>2. ASSUME NEW s \in SUBSET (1..n) PROVE f[s] = IF s = {} THEN base ELSE op(f[s \ {Max(s)}], Max(s))
    <3>1. f[s] = IF s = {} THEN base ELSE F[<<f[s \ {Max(s)}], Max(s)>>]
      BY <2>1 DEF FoldOf
    <3>2. s # {} => Max(s) \in 1..n /\ f[s \ {Max(s)}] \in V
      BY <2>1, MaxIn
    <3> QED
      BY <1>2, <3>1, <3>2
  <2>3. f = [s \in SUBSET (1..n) |-> f[s]]
    BY <2>1
  <2> QED
    BY <2>2, <2>3
<1>5. Fix(all)
  <2> HIDE DEF Fix
  <2> QED
    BY <1>4
<1> HIDE DEF all
<1>6. ASSUME NEW s \in SUBSET (1..n) PROVE all[s] = IF s = {} THEN base ELSE op(all[s \ {Max(s)}], Max(s))
  BY <1>5
<1>7. Unfolds(V, F, base, n, all)
  <2>1. \A s \in SUBSET (1..n) : s # {} => Max(s) \in 1..n
    BY MaxIn
  <2> QED
    BY <1>2, <1>6, <2>1 DEF Unfolds
<1>8. PICK r \in [0..n -> V] : Runs(F, base, n, r) /\ r[n] = all[1..n]
  <2>1. F \in [V \X (1..n) -> V]
    BY <1>2
  <2>2. RunsTo(V, F, base, n, all[1..n])
    BY <1>7, <2>1, FoldTrace
  <2> QED
    BY <2>2 DEF RunsTo
<1>9. ASSUME NEW i \in 1..n PROVE r[i] = FillStep(r[i - 1], seq[i], limit)
  <2>1. r[i - 1] \in V
    OBVIOUS
  <2> QED
    BY <1>2, <1>3, <1>8, <2>1 DEF Runs
<1> QED
  BY <1>1, <1>8, <1>9 DEF Runs, FilledSteps, FilledTo

Fewer(x, y) == IF x < y THEN x ELSE y

\* q has n different elements of S.
Different(q, n, S) == q \in Seq(S) /\ Len(q) = n /\ IsInjective(q)

LEMMA DifferentAre ==
  ASSUME NEW S, NEW n, NEW q, Different(q, n, S)
  PROVE  /\ n \in Nat /\ DOMAIN q = 1..n /\ IsFiniteSet(ToSet(q)) /\ ToSet(q) \subseteq S /\ Cardinality(ToSet(q)) = n
         /\ \A i \in 1..n : q[i] \in S
         /\ \A i, j \in 1..n : q[i] = q[j] => i = j
<1>1. q \in Seq(S) /\ Len(q) = n /\ IsInjective(q)
  BY DEF Different
<1>2. n \in Nat /\ DOMAIN q = 1..n /\ \A i \in 1..n : q[i] \in S
  BY <1>1
<1>3. \A i, j \in 1..n : q[i] = q[j] => i = j
  BY <1>1, <1>2 DEF IsInjective
<1>4. q \in Surjection(1..n, ToSet(q))
  <2>1. q \in [1..n -> ToSet(q)]
    BY <1>1, <1>2 DEF ToSet
  <2>2. \A t \in ToSet(q) : \E i \in 1..n : q[i] = t
    BY <1>2 DEF ToSet
  <2> QED
    BY <2>1, <2>2 DEF Surjection
<1>5. q \in Injection(1..n, ToSet(q))
  BY <1>1, <1>4 DEF Surjection, Injection
<1>6. IsFiniteSet(1..n) /\ Cardinality(1..n) = n
  BY <1>2, IntervalIs
<1>7. IsFiniteSet(ToSet(q)) /\ Cardinality(ToSet(q)) = n
  BY <1>4, <1>5, <1>6, FS_Surjection
<1>8. ToSet(q) \subseteq S
  BY <1>2 DEF ToSet
<1> QED
  BY <1>2, <1>3, <1>7, <1>8

LEMMA ListedAre ==
  ASSUME NEW S, IsFiniteSet(S)
  PROVE  Different(SetToSeq(S), Cardinality(S), S) /\ ToSet(SetToSeq(S)) = S
<1> DEFINE n == Cardinality(S)
           q == SetToSeq(S)
<1>1. n \in Nat /\ \E f \in [1..n -> S] : IsInjective(f)
  BY FS_CardinalityType DEF ExistsBijection, Bijection, Injection
<1>2. q = CHOOSE f \in [1..n -> S] : IsInjective(f)
  BY DEF SetToSeq
<1> HIDE DEF q
<1>3. q \in [1..n -> S] /\ IsInjective(q)
  BY <1>1, <1>2
<1> HIDE DEF n
<1>4. q \in Seq(S) /\ Len(q) = n
  BY <1>1, <1>3
<1>5. Different(q, n, S)
  BY <1>3, <1>4 DEF Different
<1>6. ToSet(q) = S
  <2>1. ToSet(q) \in SUBSET S /\ Cardinality(ToSet(q)) = n
    BY <1>5, DifferentAre
  <2> QED
    BY <2>1, FS_Subset DEF n
<1> QED
  BY <1>5, <1>6 DEF n, q

LEMMA SpreadIs ==
  ASSUME NEW S, NEW n, NEW q, Different(q, n, S), NEW limit \in 1..3
  PROVE  Different(Spread(q, limit), Fewer(n, limit), S)
<1>1. /\ n \in Nat /\ DOMAIN q = 1..n /\ Len(q) = n /\ q \in Seq(S) /\ IsInjective(q)
      /\ \A i \in 1..n : q[i] \in S
      /\ \A i, j \in 1..n : q[i] = q[j] => i = j
  BY DifferentAre DEF Different
<1>2. CASE n <= limit
  <2>1. Spread(q, limit) = q /\ Fewer(n, limit) = n
    BY <1>1, <1>2 DEF Spread, Fewer
  <2> QED
    BY <2>1
<1>3. ASSUME n > limit, NEW f, NEW at, Spread(q, limit) = f, f = [i \in 1..limit |-> q[at[i]]],
             \A i \in 1..limit : at[i] \in 1..n, \A i, j \in 1..limit : at[i] = at[j] => i = j
      PROVE  Different(Spread(q, limit), Fewer(n, limit), S)
  <2>1. limit \in Nat /\ Fewer(n, limit) = limit
    BY <1>1, <1>3 DEF Fewer
  <2>2. f \in [1..limit -> S]
    BY <1>1, <1>3
  <2>3. f \in Seq(S) /\ Len(f) = limit
    BY <2>1, <2>2
  <2>4. \A i, j \in 1..limit : f[i] = f[j] => i = j
    BY <1>1, <1>3
  <2>5. IsInjective(f)
    BY <2>2, <2>4 DEF IsInjective
  <2> QED
    BY <1>3, <2>1, <2>3, <2>5 DEF Different
<1>4. CASE n > limit /\ limit = 1
  <2> DEFINE at == [i \in 1..1 |-> (n \div 2) + 1]
  <2>1. Spread(q, limit) = <<q[(n \div 2) + 1]>>
    BY <1>1, <1>4 DEF Spread
  <2>2. (n \div 2) + 1 \in 1..n
    BY <1>1, <1>4
  <2>3. <<q[(n \div 2) + 1]>> = [i \in 1..limit |-> q[at[i]]]
    BY <1>4
  <2>4. \A i \in 1..limit : at[i] \in 1..n
    BY <1>4, <2>2
  <2>5. \A i, j \in 1..limit : at[i] = at[j] => i = j
    BY <1>4
  <2> HIDE DEF at
  <2> QED
    BY <1>3, <1>4, <2>1, <2>3, <2>4, <2>5
<1>5. CASE n > limit /\ limit = 2
  <2> DEFINE at == [i \in 1..2 |-> (((i - 1) * (n - 1) + (limit - 1) \div 2) \div (limit - 1)) + 1]
  <2>1. Spread(q, limit) = [i \in 1..limit |-> q[(((i - 1) * (n - 1) + (limit - 1) \div 2) \div (limit - 1)) + 1]]
    BY <1>1, <1>5 DEF Spread
  <2>2. [i \in 1..limit |-> q[(((i - 1) * (n - 1) + (limit - 1) \div 2) \div (limit - 1)) + 1]] = [i \in 1..limit |-> q[at[i]]]
    BY <1>5
  <2>3. at[1] = 1 /\ at[2] = n
    <3>1. (2 - 1) \div 2 = 0 /\ (1 - 1) * (n - 1) = 0 /\ (2 - 1) * (n - 1) = n - 1
      BY <1>1
    <3>2. (0 + 0) \div (2 - 1) = 0 /\ ((n - 1) + 0) \div (2 - 1) = n - 1
      BY <1>1
    <3> QED
      BY <1>1, <1>5, <3>1, <3>2
  <2>4. \A i \in 1..limit : i = 1 \/ i = 2
    BY <1>5
  <2> HIDE DEF at
  <2>5. \A i \in 1..limit : at[i] \in 1..n
    BY <1>1, <1>5, <2>3, <2>4
  <2>6. \A i, j \in 1..limit : at[i] = at[j] => i = j
    BY <1>1, <1>5, <2>3, <2>4
  <2> QED
    BY <1>3, <1>5, <2>1, <2>2, <2>5, <2>6
<1>6. CASE n > limit /\ limit = 3
  <2> DEFINE at == [i \in 1..3 |-> (((i - 1) * (n - 1) + (limit - 1) \div 2) \div (limit - 1)) + 1]
  <2>1. Spread(q, limit) = [i \in 1..limit |-> q[(((i - 1) * (n - 1) + (limit - 1) \div 2) \div (limit - 1)) + 1]]
    BY <1>1, <1>6 DEF Spread
  <2>2. [i \in 1..limit |-> q[(((i - 1) * (n - 1) + (limit - 1) \div 2) \div (limit - 1)) + 1]] = [i \in 1..limit |-> q[at[i]]]
    BY <1>6
  <2>3. at[1] = 1 /\ at[2] = (n \div 2) + 1 /\ at[3] = n
    <3>1. (3 - 1) \div 2 = 1 /\ (1 - 1) * (n - 1) = 0 /\ (2 - 1) * (n - 1) = n - 1 /\ (3 - 1) * (n - 1) = 2 * (n - 1)
      BY <1>1
    <3>2. (0 + 1) \div (3 - 1) = 0 /\ ((n - 1) + 1) \div (3 - 1) = n \div 2 /\ (2 * (n - 1) + 1) \div (3 - 1) = n - 1
      BY <1>1
    <3> QED
      BY <1>1, <1>6, <3>1, <3>2
  <2>4. \A i \in 1..limit : i = 1 \/ i = 2 \/ i = 3
    BY <1>6
  <2>5. (n \div 2) + 1 \in 1..n /\ (n \div 2) + 1 # 1 /\ (n \div 2) + 1 # n /\ n # 1 /\ 1 \in 1..n /\ n \in 1..n
    BY <1>1, <1>6
  <2> HIDE DEF at
  <2>6. \A i \in 1..limit : at[i] \in 1..n
    BY <2>3, <2>4, <2>5
  <2>7. \A i, j \in 1..limit : at[i] = at[j] => i = j
    BY <2>3, <2>4, <2>5
  <2> QED
    BY <1>3, <1>6, <2>1, <2>2, <2>6, <2>7
<1> QED
  BY <1>1, <1>2, <1>4, <1>5, <1>6

\* What may come of filling up chosen from C.
Fillings(chosen, C, limit) == {q \in Seq(C) : IsInjective(q) /\ Len(q) <= limit /\ ToSet(chosen) \subseteq ToSet(q)}

LEMMA FillStepIs ==
  ASSUME NEW C, NEW chosen, NEW limit \in Nat, NEW q \in Fillings(chosen, C, limit), NEW r \in C
  PROVE  /\ FillStep(q, r, limit) \in Fillings(chosen, C, limit)
         /\ ToSet(q) \subseteq ToSet(FillStep(q, r, limit))
         /\ Len(q) <= Len(FillStep(q, r, limit))
         /\ Len(FillStep(q, r, limit)) >= limit \/ r \in ToSet(FillStep(q, r, limit))
<1> DEFINE next == FillStep(q, r, limit)
           more == Append(q, r)
<1>1. q \in Seq(C) /\ IsInjective(q) /\ Len(q) <= limit /\ ToSet(chosen) \subseteq ToSet(q) /\ Len(q) \in Nat /\ DOMAIN q = 1..Len(q)
  BY DEF Fillings
<1>2. CASE Len(q) >= limit \/ r \in ToSet(q)
  <2>1. next = q
    BY <1>2 DEF FillStep
  <2> QED
    BY <1>1, <1>2, <2>1
<1>3. CASE ~(Len(q) >= limit \/ r \in ToSet(q))
  <2>1. next = more
    BY <1>3 DEF FillStep
  <2>2. /\ more \in Seq(C) /\ Len(more) = Len(q) + 1 /\ DOMAIN more = 1..(Len(q) + 1)
        /\ \A i \in 1..Len(q) : more[i] = q[i]
        /\ more[Len(q) + 1] = r
    BY <1>1
  <2> HIDE DEF more, next
  <2>3. ToSet(q) \subseteq ToSet(more) /\ r \in ToSet(more)
    <3>1. Len(q) + 1 \in DOMAIN more /\ \A i \in DOMAIN q : i \in DOMAIN more /\ more[i] = q[i]
      BY <1>1, <2>2
    <3> QED
      BY <2>2, <3>1 DEF ToSet
  <2>4. \A i \in DOMAIN q : q[i] # r
    BY <1>3 DEF ToSet
  <2>5. ASSUME NEW i \in DOMAIN more, NEW j \in DOMAIN more, more[i] = more[j] PROVE i = j
    <3>1. i \in DOMAIN q \/ i = Len(q) + 1
      BY <1>1, <2>2
    <3>2. j \in DOMAIN q \/ j = Len(q) + 1
      BY <1>1, <2>2
    <3> QED
      BY <1>1, <2>2, <2>4, <2>5, <3>1, <3>2 DEF IsInjective
  <2>6. IsInjective(more)
    BY <2>5 DEF IsInjective
  <2>7. Len(more) <= limit /\ Len(q) <= Len(more)
    BY <1>1, <1>3, <2>2
  <2>8. more \in Fillings(chosen, C, limit)
    BY <1>1, <2>2, <2>3, <2>6, <2>7 DEF Fillings
  <2> QED
    BY <2>1, <2>3, <2>7, <2>8 DEF next
<1> QED
  BY <1>2, <1>3

\* As many as asked for, if there are, and all that were chosen.
LEMMA FilledIs ==
  ASSUME NEW T, NEW n, NEW customers, Different(customers, n, T),
         NEW limit \in Nat, NEW k, NEW chosen, Different(chosen, k, ToSet(customers)), k <= limit
  PROVE  /\ Different(Filled(chosen, customers, limit), Fewer(n, limit), ToSet(customers))
         /\ ToSet(chosen) \subseteq ToSet(Filled(chosen, customers, limit))
<1> DEFINE C == ToSet(customers)
           V == Fillings(chosen, C, limit)
           K == Fewer(n, limit)
           seq == SubSeq(customers, 1, K)
<1>1. /\ n \in Nat /\ DOMAIN customers = 1..n /\ Len(customers) = n
      /\ IsFiniteSet(C) /\ Cardinality(C) = n /\ \A i \in 1..n : customers[i] \in C
      /\ \A i, j \in 1..n : customers[i] = customers[j] => i = j
  <2>1. /\ n \in Nat /\ DOMAIN customers = 1..n /\ IsFiniteSet(C) /\ Cardinality(C) = n
        /\ \A i, j \in 1..n : customers[i] = customers[j] => i = j
    BY DifferentAre
  <2>2. Len(customers) = n
    BY DEF Different
  <2>3. \A i \in 1..n : customers[i] \in C
    BY <2>1 DEF ToSet
  <2> QED
    BY <2>1, <2>2, <2>3
<1>2. K \in Nat /\ K <= n /\ K <= limit /\ (K = n \/ K = limit) /\ \A i \in 1..K : i \in 1..n
  BY <1>1 DEF Fewer
<1>3. DOMAIN seq = 1..K /\ \A i \in 1..K : seq[i] = customers[i]
  <2>1. 1 \in Int /\ K \in Int /\ \A i \in 1..K : customers[i] \in C
    BY <1>1, <1>2
  <2> HIDE DEF K, C
  <2>2. seq \in Seq(C) /\ Len(seq) = (IF 1 <= K THEN K - 1 + 1 ELSE 0) /\ \A i \in 1..(K - 1 + 1) : seq[i] = customers[1 + i - 1]
    BY <2>1, SubSeqProperties
  <2>3. Len(seq) = K
    BY <1>2, <2>2
  <2>4. \A i \in 1..K : i \in 1..(K - 1 + 1) /\ 1 + i - 1 = i
    BY <1>2
  <2> QED
    BY <2>2, <2>3, <2>4
<1>4. Filled(chosen, customers, limit) = FilledFrom(seq, limit, chosen)
  BY ZenonT(60), <1>1 DEF Filled, FilledFrom, Fewer
<1>5. chosen \in V /\ k \in Nat
  <2>1. chosen \in Seq(C) /\ Len(chosen) = k /\ IsInjective(chosen)
    BY DEF Different
  <2> QED
    BY <2>1 DEF Fillings
<1> HIDE DEF seq, K
<1>6. ASSUME NEW q \in V, NEW i \in 1..K
      PROVE  /\ FillStep(q, seq[i], limit) \in V
             /\ ToSet(q) \subseteq ToSet(FillStep(q, seq[i], limit))
             /\ Len(q) <= Len(FillStep(q, seq[i], limit))
             /\ Len(FillStep(q, seq[i], limit)) >= limit \/ customers[i] \in ToSet(FillStep(q, seq[i], limit))
  <2>1. seq[i] \in C /\ seq[i] = customers[i]
    BY <1>1, <1>2, <1>3
  <2> HIDE DEF C
  <2> QED
    BY <2>1, FillStepIs
<1>7. \A q \in V : Len(q) \in Nat
  BY DEF Fillings
<1> HIDE DEF V, C
<1>8. PICK r \in [0..K -> V] : FilledSteps(seq, limit, chosen, K, r) /\ FilledFrom(seq, limit, chosen) = r[K]
  <2>1. FilledClosed(seq, limit, V, K)
    BY <1>6 DEF FilledClosed
  <2>2. FilledTo(seq, limit, V, chosen, K, FilledFrom(seq, limit, chosen))
    BY <1>2, <1>3, <1>5, <2>1, FilledTrace
  <2> QED
    BY <2>2 DEF FilledTo
<1> DEFINE S == [i \in 0..K |-> {q \in V : Len(q) >= limit \/ \A j \in 1..i : customers[j] \in ToSet(q)}]
<1>9. r[0] \in S[0]
  <2>1. 0 \in 0..K /\ r[0] = chosen
    BY <1>2, <1>8 DEF FilledSteps
  <2> QED
    BY <1>5, <2>1
<1>10. ASSUME NEW i \in 1..K, r[i - 1] \in S[i - 1] PROVE r[i] \in S[i]
  <2> DEFINE q == r[i - 1]
  <2>1. i \in 0..K /\ i - 1 \in 0..K /\ \A j \in 1..i : j \in 1..(i - 1) \/ j = i
    BY <1>2
  <2>2. q \in V /\ (Len(q) >= limit \/ \A j \in 1..(i - 1) : customers[j] \in ToSet(q))
    BY <1>10, <2>1
  <2>3. r[i] = FillStep(q, seq[i], limit)
    BY <1>8 DEF FilledSteps
  <2> HIDE DEF q
  <2>4. /\ r[i] \in V /\ ToSet(q) \subseteq ToSet(r[i]) /\ Len(q) <= Len(r[i]) /\ Len(q) \in Nat /\ Len(r[i]) \in Nat
        /\ Len(r[i]) >= limit \/ customers[i] \in ToSet(r[i])
    BY <1>6, <1>7, <2>2, <2>3
  <2>5. Len(r[i]) >= limit \/ \A j \in 1..i : customers[j] \in ToSet(r[i])
    BY <2>1, <2>2, <2>4
  <2> QED
    BY <2>1, <2>4, <2>5
<1>11. K \in 0..K
  BY <1>2
<1>12. r[K] \in S[K]
  <2> HIDE DEF S
  <2> QED
    BY <1>2, <1>9, <1>10, <1>11, Reaches
<1> DEFINE out == r[K]
<1>13. out \in V /\ (Len(out) >= limit \/ \A j \in 1..K : customers[j] \in ToSet(out))
  BY <1>11, <1>12
<1> HIDE DEF out
<1>14. out \in Seq(C) /\ IsInjective(out) /\ Len(out) <= limit /\ ToSet(chosen) \subseteq ToSet(out) /\ Len(out) \in Nat
  BY <1>7, <1>13 DEF V, Fillings
<1>15. Different(out, Len(out), C)
  BY <1>14 DEF Different
<1>16. ToSet(out) \in SUBSET C /\ Cardinality(ToSet(out)) = Len(out) /\ Len(out) <= n
  <2>1. ToSet(out) \in SUBSET C /\ Cardinality(ToSet(out)) = Len(out)
    BY <1>15, DifferentAre
  <2> QED
    BY <1>1, <2>1, FS_Subset
<1>17. Len(out) = K
  <2>1. CASE Len(out) >= limit
    BY <1>1, <1>2, <1>14, <1>16, <2>1
  <2>2. CASE Len(out) < limit /\ \A j \in 1..K : customers[j] \in ToSet(out)
    <3>1. K = n => C \subseteq ToSet(out)
      BY <1>1, <2>2 DEF C, ToSet
    <3>2. K = n => C = ToSet(out)
      BY <1>16, <3>1
    <3>3. K = n => Len(out) = n
      BY <1>1, <1>16, <3>2
    <3>4. K # n => Len(out) = K
      <4>1. SUFFICES ASSUME K # n PROVE FALSE
        OBVIOUS
      <4>2. K = limit /\ limit < n /\ \A i \in 1..limit : i \in 1..n
        BY <1>1, <1>2, <4>1
      <4> DEFINE f == [i \in 1..limit |-> customers[i]]
      <4>3. f \in [1..limit -> ToSet(out)]
        BY <2>2, <4>2
      <4>4. f \in Injection(1..limit, ToSet(out))
        BY <1>1, <4>2, <4>3 DEF Injection, IsInjective
      <4>5. IsFiniteSet(ToSet(out)) /\ Cardinality(1..limit) = limit
        <5>1. limit \in Nat
          OBVIOUS
        <5> QED
          BY <1>15, <5>1, DifferentAre, IntervalIs
      <4>6. limit <= Len(out)
        BY <1>16, <4>4, <4>5, FS_Injection
      <4> QED
        BY <1>14, <2>2, <4>6
    <3> QED
      BY <3>3, <3>4
  <2> QED
    BY <1>13, <1>14, <2>1, <2>2
<1>18. Different(out, K, C)
  BY <1>15, <1>17
<1> QED
  BY <1>4, <1>8, <1>14, <1>18 DEF out, K, C

\* As many of n customers as asked for, and of their strata.
Represents(out, mode, customers, n, limit) ==
  LET strata(rows) == {Stratum(mode, r) : r \in rows}
  IN  /\ Different(out, Fewer(n, limit), ToSet(customers))
      /\ Cardinality(strata(ToSet(out))) = Fewer(Cardinality(strata(ToSet(customers))), limit)

\* The first customer of each stratum that is chosen, then the rest.
LEMMA RepresentativesAre ==
  ASSUME NEW T, NEW n, NEW customers, Different(customers, n, T), NEW mode, NEW limit \in 1..3
  PROVE  Represents(Representatives(mode, customers, limit), mode, customers, n, limit)
<1> DEFINE C == ToSet(customers)
           X == {Stratum(mode, r) : r \in C}
           N == Cardinality(X)
           strata == SetToSeq(X)
           picked == Spread(strata, limit)
           at(x) == SelectInSeq(customers, LAMBDA r : Stratum(mode, r) = x)
           chosen == [i \in DOMAIN picked |-> customers[at(picked[i])]]
           out == Representatives(mode, customers, limit)
           k == Fewer(N, limit)
<1>1. /\ n \in Nat /\ DOMAIN customers = 1..n /\ Len(customers) = n /\ IsFiniteSet(C) /\ limit \in Nat
      /\ \A i \in 1..n : customers[i] \in C
  <2>1. n \in Nat /\ DOMAIN customers = 1..n /\ IsFiniteSet(C)
    BY DifferentAre
  <2> QED
    BY <2>1 DEF Different, ToSet
<1>2. IsFiniteSet(X) /\ N \in Nat
  <2> DEFINE f == [r \in C |-> Stratum(mode, r)]
  <2>1. X = {f[r] : r \in C}
    OBVIOUS
  <2> HIDE DEF f, X, C
  <2>2. IsFiniteSet(X)
    BY <1>1, <2>1, ImageIsFinite
  <2> QED
    BY <2>2, FS_CardinalityType
<1>3. Different(strata, N, X)
  <2> HIDE DEF X
  <2> QED
    BY <1>2, ListedAre
<1>4. Different(picked, k, X)
  <2> HIDE DEF X, strata, N
  <2> QED
    BY <1>3, SpreadIs
<1>5. k \in Nat /\ k <= limit /\ DOMAIN picked = 1..k /\ \A i \in 1..k : picked[i] \in X
  <2>1. k \in Nat /\ DOMAIN picked = 1..k /\ \A i \in 1..k : picked[i] \in X
    <3> HIDE DEF picked, k, X
    <3> QED
      BY <1>4, DifferentAre
  <2>2. k <= limit
    BY <1>1, <1>2 DEF Fewer
  <2> QED
    BY <2>1, <2>2
<1>6. ASSUME NEW x \in X PROVE at(x) \in 1..n /\ Stratum(mode, customers[at(x)]) = x
  <2> DEFINE I == {i \in 1..Len(customers) : Stratum(mode, customers[i]) = x}
  <2>1. I # {} /\ I \subseteq 1..n
    <3>1. PICK r \in C : Stratum(mode, r) = x
      OBVIOUS
    <3>2. PICK i \in 1..n : customers[i] = r
      BY <1>1, <3>1 DEF ToSet
    <3> QED
      BY <1>1, <3>1, <3>2
  <2>2. \E i \in I : \A j \in I : i <= j
    <3>1. I \in SUBSET Nat
      BY <1>1, <2>1
    <3> HIDE DEF I
    <3> QED
      BY <2>1, <3>1, LeastNumber
  <2>3. at(x) = Min(I)
    BY <2>1 DEF SelectInSeq
  <2>4. Min(I) \in I
    <3> HIDE DEF I
    <3> QED
      BY <2>2 DEF Min
  <2>5. at(x) \in I
    BY <2>3, <2>4
  <2> HIDE DEF at
  <2> QED
    BY <1>1, <2>5
<1> HIDE DEF at, picked, k, N, strata
<1>7. ASSUME NEW i \in 1..k
      PROVE  chosen[i] \in C /\ Stratum(mode, chosen[i]) = picked[i] /\ chosen[i] = customers[at(picked[i])]
  <2>1. picked[i] \in X
    BY <1>5
  <2>2. at(picked[i]) \in 1..n /\ Stratum(mode, customers[at(picked[i])]) = picked[i]
    <3> HIDE DEF X
    <3> QED
      BY <1>6, <2>1
  <2>3. chosen[i] = customers[at(picked[i])]
    BY <1>5
  <2> HIDE DEF chosen, C
  <2> QED
    BY <1>1, <2>2, <2>3
<1>8. Different(chosen, k, C)
  <2>1. chosen = [i \in 1..k |-> customers[at(picked[i])]]
    BY <1>5
  <2> HIDE DEF C
  <2>2. chosen \in [1..k -> C]
    <3>1. \A i \in 1..k : customers[at(picked[i])] \in C
      BY <1>7
    <3> QED
      BY <2>1, <3>1
  <2>3. \A i, j \in 1..k : picked[i] = picked[j] => i = j
    <3> HIDE DEF X
    <3> QED
      BY <1>4, DifferentAre
  <2> HIDE DEF chosen
  <2>4. \A i, j \in 1..k : chosen[i] = chosen[j] => i = j
    BY <1>7, <2>3
  <2>5. chosen \in Seq(C) /\ Len(chosen) = k /\ DOMAIN chosen = 1..k
    BY <1>5, <2>2
  <2> QED
    BY <2>4, <2>5 DEF Different, IsInjective
<1>9. out = Filled(chosen, customers, limit)
  BY DEF Representatives, chosen, picked, strata, at
<1> HIDE DEF out, chosen
<1>10. Different(out, Fewer(n, limit), C) /\ ToSet(chosen) \subseteq ToSet(out)
  BY <1>1, <1>5, <1>8, <1>9, FilledIs
<1> DEFINE Shown == {Stratum(mode, r) : r \in ToSet(out)}
<1>11. IsFiniteSet(ToSet(out)) /\ ToSet(out) \subseteq C /\ Cardinality(ToSet(out)) = Fewer(n, limit) /\ Fewer(n, limit) \in Nat
  <2> HIDE DEF C
  <2> QED
    BY <1>10, DifferentAre
<1>12. Shown \in SUBSET X
  BY <1>11
<1>13. IsFiniteSet(Shown) /\ Cardinality(Shown) \in Nat /\ Cardinality(Shown) <= N
  <2> HIDE DEF Shown, X
  <2> QED
    BY <1>2, <1>12, FS_Subset, FS_CardinalityType DEF N
<1>14. Cardinality(Shown) <= limit
  <2> DEFINE f == [r \in ToSet(out) |-> Stratum(mode, r)]
  <2>1. f \in Surjection(ToSet(out), Shown)
    BY DEF Surjection
  <2> HIDE DEF f, Shown
  <2>2. Cardinality(Shown) <= Cardinality(ToSet(out))
    BY <1>11, <2>1, FS_Surjection
  <2>3. Fewer(n, limit) <= limit
    BY <1>1 DEF Fewer
  <2> QED
    BY <1>1, <1>11, <1>13, <2>2, <2>3
<1>15. ToSet(picked) \in SUBSET Shown
  <2>1. ASSUME NEW x \in ToSet(picked) PROVE x \in Shown
    <3>1. PICK i \in 1..k : picked[i] = x
      BY <1>5 DEF ToSet
    <3>2. DOMAIN chosen = 1..k /\ chosen[i] \in ToSet(chosen)
      BY <1>5, <1>8, DifferentAre DEF ToSet
    <3>3. chosen[i] \in ToSet(out) /\ Stratum(mode, chosen[i]) = x
      BY <1>7, <1>10, <3>1, <3>2
    <3> QED
      BY <3>3
  <2> QED
    BY <2>1
<1>16. k <= Cardinality(Shown)
  <2>1. Cardinality(ToSet(picked)) = k
    <3> HIDE DEF X
    <3> QED
      BY <1>4, DifferentAre
  <2> HIDE DEF Shown
  <2> QED
    BY <1>13, <1>15, <2>1, FS_Subset
<1>17. Cardinality(Shown) = k
  <2> HIDE DEF Shown
  <2> QED
    BY <1>1, <1>2, <1>5, <1>13, <1>14, <1>16 DEF k, Fewer
<1> QED
  BY <1>10, <1>17 DEF out, k, N, Represents

LEMMA SpreadHolds ==
  ASSUME NEW n \in 0..7, NEW m \in 1..3, NEW limit \in 1..3
  PROVE  SpreadSound(<<n, m, limit>>)
<1> DEFINE row(i) == [customer |-> i, anchor |-> [source |-> i % m]]
           customers == [i \in 1..n |-> row(i)]
           T == {row(i) : i \in 1..n}
           out == Representatives("summary", customers, limit)
           strata(rows) == {Stratum("summary", r) : r \in rows}
<1>1. Different(customers, n, T)
  <2>1. n \in Nat /\ \A i, j \in 1..n : row(i) = row(j) => i = j
    OBVIOUS
  <2>2. \A i \in 1..n : row(i) \in T
    OBVIOUS
  <2> HIDE DEF row, T
  <2>3. customers \in [1..n -> T]
    BY <2>2
  <2>4. \A i, j \in 1..n : customers[i] = customers[j] => i = j
    BY <2>1
  <2> HIDE DEF customers
  <2>5. customers \in Seq(T) /\ Len(customers) = n /\ DOMAIN customers = 1..n
    BY <2>1, <2>3
  <2> QED
    BY <2>4, <2>5 DEF Different, IsInjective
<1> HIDE DEF T
<1>2. /\ Different(out, Fewer(n, limit), ToSet(customers))
      /\ Cardinality(strata(ToSet(out))) = Fewer(Cardinality(strata(ToSet(customers))), limit)
  <2> HIDE DEF customers
  <2>1. Represents(out, "summary", customers, n, limit)
    BY <1>1, RepresentativesAre
  <2> QED
    BY <2>1 DEF Represents
<1>3. IsInjective(out) /\ Len(out) = Fewer(n, limit) /\ ToSet(out) \subseteq ToSet(customers)
  <2> HIDE DEF customers, out
  <2> QED
    BY <1>2, DifferentAre DEF Different
<1> QED
  BY <1>2, <1>3 DEF SpreadSound, Fewer

-----------------------------------------------------------------------------
(* Sequences, one element at a time.                                       *)

LEMMA AppendIs ==
  ASSUME NEW E, NEW q \in Seq(E), NEW e \in E
  PROVE  /\ Len(q) \in Nat /\ Len(q) + 1 \in Nat /\ q \in [1..Len(q) -> E]
         /\ Append(q, e) \in Seq(E) /\ Append(q, e) \in [1..(Len(q) + 1) -> E] /\ Len(Append(q, e)) = Len(q) + 1
         /\ Append(q, e)[Len(q) + 1] = e
         /\ \A i \in 1..Len(q) : i \in 1..(Len(q) + 1) /\ Append(q, e)[i] = q[i]
<1>1. Len(q) \in Nat /\ q \in [1..Len(q) -> E]
  OBVIOUS
<1>2. /\ Append(q, e) \in Seq(E) /\ Len(Append(q, e)) = Len(q) + 1
      /\ Append(q, e)[Len(q) + 1] = e /\ \A i \in 1..Len(q) : Append(q, e)[i] = q[i]
  BY AppendProperties
<1>3. Append(q, e) \in [1..(Len(q) + 1) -> E]
  <2>1. Append(q, e) \in [1..Len(Append(q, e)) -> E]
    BY <1>2, LenProperties
  <2> QED
    BY <1>2, <2>1
<1>4. Len(q) + 1 \in Nat /\ \A i \in 1..Len(q) : i \in 1..(Len(q) + 1)
  BY <1>1
<1> QED
  BY <1>1, <1>2, <1>3, <1>4

\* What holds of the empty sequence and passes to a longer one holds of all.
LEMMA SeqInduction ==
  ASSUME NEW E, NEW Z, << >> \in Z, \A q \in Seq(E), e \in E : q \in Z => Append(q, e) \in Z
  PROVE  Seq(E) \subseteq Z
<1> DEFINE S == {n \in Nat : \A q \in Seq(E) : Len(q) = n => q \in Z}
<1>1. 0 \in S
  OBVIOUS
<1>2. ASSUME NEW n \in S PROVE n + 1 \in S
  <2>1. ASSUME NEW q \in Seq(E), Len(q) = n + 1 PROVE q \in Z
    <3> DEFINE p == SubSeq(q, 1, n)
    <3>1. n \in Nat /\ n + 1 \in 1..Len(q) /\ \A i \in 1..n : q[i] \in E
      BY <2>1
    <3>2. p \in Seq(E) /\ Len(p) = n /\ \A i \in 1..n : p[i] = q[i]
      BY <3>1, SubSeqProperties
    <3>3. q[n + 1] \in E
      BY <3>1
    <3>4. q = Append(p, q[n + 1])
      <4> HIDE DEF p
      <4>1. /\ Append(p, q[n + 1]) \in Seq(E) /\ Len(Append(p, q[n + 1])) = n + 1
            /\ Append(p, q[n + 1])[n + 1] = q[n + 1] /\ \A i \in 1..n : Append(p, q[n + 1])[i] = p[i]
        BY <3>2, <3>3, AppendIs
      <4>2. \A i \in 1..(n + 1) : Append(p, q[n + 1])[i] = q[i]
        BY <3>1, <3>2, <4>1
      <4> HIDE DEF S
      <4> QED
        BY <2>1, <4>1, <4>2, SeqEqual
    <3>5. p \in Z
      BY <1>2, <3>2
    <3> HIDE DEF p
    <3> QED
      BY <3>2, <3>3, <3>4, <3>5
  <2> QED
    BY <2>1
<1>3. S \in SUBSET Nat
  OBVIOUS
<1> HIDE DEF S
<1>4. S = Nat
  BY <1>1, <1>2, <1>3, SetInduction
<1>5. \A q \in Seq(E) : Len(q) \in Nat
  OBVIOUS
<1> QED
  BY <1>4, <1>5 DEF S

\* r holds what G makes of the first elements of q, from base on.
GoesTo(V, G, base, q, end) ==
  \E r \in [0..Len(q) -> V] : r[0] = base /\ (\A i \in 1..Len(q) : r[i] = G[<<r[i - 1], q[i]>>]) /\ end = r[Len(q)]

LEMMA RunsGo ==
  ASSUME NEW E, NEW V, NEW G, NEW base \in V, NEW q \in Seq(E), NEW F, NEW end, RunsTo(V, F, base, Len(q), end),
         \A x \in V, i \in 1..Len(q) : F[<<x, i>>] = G[<<x, q[i]>>]
  PROVE  GoesTo(V, G, base, q, end)
<1> DEFINE n == Len(q)
<1>1. n \in Nat /\ \A i \in 1..n : i - 1 \in 0..n
  OBVIOUS
<1>2. PICK r \in [0..n -> V] : Runs(F, base, n, r) /\ r[n] = end
  BY DEF RunsTo
<1>3. \A i \in 1..n : r[i - 1] \in V
  BY <1>1, <1>2
<1>4. \A i \in 1..n : r[i] = G[<<r[i - 1], q[i]>>]
  BY <1>2, <1>3 DEF Runs
<1> QED
  BY <1>2, <1>4 DEF Runs, GoesTo

LEMMA GoesIn ==
  ASSUME NEW E, NEW V, NEW G, NEW base, NEW q \in Seq(E), NEW end, GoesTo(V, G, base, q, end)
  PROVE  end \in V
<1>1. Len(q) \in 0..Len(q)
  OBVIOUS
<1> QED
  BY <1>1 DEF GoesTo

LEMMA GoesNowhere ==
  ASSUME NEW V, NEW G, NEW base, NEW end, GoesTo(V, G, base, << >>, end)
  PROVE  end = base
BY DEF GoesTo

LEMMA GoesOn ==
  ASSUME NEW E, NEW V, NEW G, NEW base, NEW q \in Seq(E), NEW e \in E, NEW x, NEW y,
         GoesTo(V, G, base, q, x), GoesTo(V, G, base, Append(q, e), y)
  PROVE  x \in V /\ y = G[<<x, e>>]
<1> DEFINE n == Len(q)
           a == Append(q, e)
           m == n + 1
<1>1. n \in Nat /\ m \in Nat /\ Len(a) = m /\ a[m] = e /\ \A i \in 1..n : a[i] = q[i]
  BY AppendIs
<1>2. PICK r \in [0..n -> V] : r[0] = base /\ (\A i \in 1..n : r[i] = G[<<r[i - 1], q[i]>>]) /\ x = r[n]
  BY DEF GoesTo
<1> HIDE DEF n, a
<1>3. PICK t \in [0..m -> V] : t[0] = base /\ (\A i \in 1..m : t[i] = G[<<t[i - 1], a[i]>>]) /\ y = t[m]
  BY <1>1 DEF GoesTo, a
<1> DEFINE T == [i \in 0..n |-> {r[i]}]
<1>4. /\ m \in 1..m /\ m - 1 = n /\ n \in 0..n /\ 0 \in 0..n
      /\ \A i \in 1..n : i \in 1..m /\ i \in 0..n /\ i - 1 \in 0..n
  BY <1>1
<1>5. t[0] \in T[0]
  BY <1>2, <1>3, <1>4
<1>6. ASSUME NEW i \in 1..n, t[i - 1] \in T[i - 1] PROVE t[i] \in T[i]
  <2>1. t[i - 1] = r[i - 1]
    BY <1>4, <1>6
  <2>2. t[i] = G[<<t[i - 1], a[i]>>] /\ r[i] = G[<<r[i - 1], q[i]>>] /\ a[i] = q[i]
    BY <1>1, <1>2, <1>3, <1>4
  <2> QED
    BY <1>4, <2>1, <2>2
<1>7. t[n] = r[n]
  <2> HIDE DEF T
  <2>1. t[n] \in T[n]
    BY <1>1, <1>4, <1>5, <1>6, Reaches
  <2> QED
    BY <1>4, <2>1 DEF T
<1>8. t[m] = G[<<t[n], e>>]
  BY <1>1, <1>3, <1>4
<1> QED
  BY <1>2, <1>3, <1>4, <1>7, <1>8

\* One element more.
OnlyStep(x, e, S) == IF e \in S THEN Append(x, e) ELSE x

OnlyOver(E, V, S) == \A x \in V, d \in E : OnlyStep(x, d, S) \in V
OnlyGoes(E, q, S) == Only(<< >>, S) = << >> /\ \A e \in E : Only(Append(q, e), S) = OnlyStep(Only(q, S), e, S)

LEMMA OnlyTrace ==
  ASSUME NEW S, NEW E, NEW V, << >> \in V, OnlyOver(E, V, S), NEW seq \in Seq(E)
  PROVE  GoesTo(V, [p \in V \X E |-> OnlyStep(p[1], p[2], S)], << >>, seq, Only(seq, S))
<1> DEFINE n == Len(seq)
           base == << >>
           G == [p \in V \X E |-> OnlyStep(p[1], p[2], S)]
           op(x, i) == OnlyStep(x, seq[i], S)
           Fix(f) == f = [s \in SUBSET (1..n) |-> IF s = {} THEN base ELSE op(f[s \ {Max(s)}], Max(s))]
           F == [p \in V \X (1..n) |-> op(p[1], p[2])]
           all == CHOOSE f : Fix(f)
<1>0. n \in Nat /\ DOMAIN seq = 1..n /\ base \in V /\ \A i \in 1..n : seq[i] \in E
  OBVIOUS
<1>1. Only(seq, S) = all[1..n]
  BY <1>0 DEF Only, OnlyStep, FoldLeft, MapThenFoldSet
<1>2. F \in [V \X (1..n) -> V] /\ \A x \in V, i \in 1..n : F[<<x, i>>] = op(x, i) /\ op(x, i) = G[<<x, seq[i]>>]
  BY <1>0 DEF OnlyOver
<1> HIDE DEF op, F, G, base, n
<1>3. Fix(all)
  <2>1. PICK f \in [SUBSET (1..n) -> V] : FoldOf(F, base, n, f)
    BY <1>0, <1>2, FoldExists
  <2>2. ASSUME NEW s \in SUBSET (1..n) PROVE f[s] = IF s = {} THEN base ELSE op(f[s \ {Max(s)}], Max(s))
    <3>1. f[s] = IF s = {} THEN base ELSE F[<<f[s \ {Max(s)}], Max(s)>>]
      BY <2>1 DEF FoldOf
    <3>2. s # {} => Max(s) \in 1..n /\ f[s \ {Max(s)}] \in V
      BY <1>0, <2>1, MaxIn
    <3> QED
      BY <1>2, <3>1, <3>2
  <2>3. Fix(f)
    BY <2>1, <2>2
  <2> HIDE DEF Fix
  <2> QED
    BY <2>3
<1> HIDE DEF all
<1>4. Unfolds(V, F, base, n, all)
  <2>1. \A s \in SUBSET (1..n) : s # {} => Max(s) \in 1..n
    BY <1>0, MaxIn
  <2> QED
    BY <1>2, <1>3, <2>1 DEF Unfolds
<1>5. RunsTo(V, F, base, n, Only(seq, S))
  <2>1. F \in [V \X (1..n) -> V]
    BY <1>2
  <2>2. RunsTo(V, F, base, n, all[1..n])
    BY <1>0, <1>4, <2>1, FoldTrace
  <2> QED
    BY <1>1, <2>2
<1>6. \A x \in V, i \in 1..n : F[<<x, i>>] = G[<<x, seq[i]>>]
  BY ZenonT(60), <1>2
<1>7. GoesTo(V, G, base, seq, Only(seq, S))
  BY <1>0, <1>5, <1>6, RunsGo DEF n
<1> QED
  BY <1>7 DEF G, base

LEMMA OnlyLaw ==
  ASSUME NEW S, NEW E, NEW V, << >> \in V, OnlyOver(E, V, S), NEW q \in Seq(E)
  PROVE  OnlyGoes(E, q, S) /\ Only(q, S) \in V
<1> DEFINE G == [p \in V \X E |-> OnlyStep(p[1], p[2], S)]
           base == << >>
           none == << >>
           x == Only(q, S)
<1>1. GoesTo(V, G, base, q, x)
  BY OnlyTrace
<1>2. GoesTo(V, G, base, none, Only(none, S))
  <2>1. none \in Seq(E)
    OBVIOUS
  <2> QED
    BY <2>1, OnlyTrace
<1>3. \A y \in V, e \in E : G[<<y, e>>] = OnlyStep(y, e, S)
  OBVIOUS
<1> HIDE DEF G, base, none, x
<1>4. x \in V /\ Only(none, S) = base
  BY <1>1, <1>2, GoesIn, GoesNowhere DEF none
<1>5. ASSUME NEW e \in E PROVE Only(Append(q, e), S) = OnlyStep(x, e, S)
  <2> DEFINE longer == Append(q, e)
  <2>1. longer \in Seq(E)
    BY AppendIs
  <2>2. GoesTo(V, G, base, longer, Only(longer, S))
    BY <2>1, OnlyTrace DEF G, base
  <2> HIDE DEF longer
  <2>3. Only(longer, S) = G[<<x, e>>]
    BY <1>1, <2>2, GoesOn DEF longer
  <2> QED
    BY <1>3, <1>4, <2>3 DEF longer
<1> QED
  BY <1>4, <1>5 DEF base, none, x, OnlyGoes

VocabularyOver(E, V, limit) == \A x \in V, d \in E : Learn(x, d, limit) \in V
VocabularyGoes(E, q, limit) == Vocabulary(<< >>, limit) = [values |-> {}, truncated |-> FALSE] /\ \A e \in E : Vocabulary(Append(q, e), limit) = Learn(Vocabulary(q, limit), e, limit)

LEMMA VocabularyTrace ==
  ASSUME NEW limit, NEW E, NEW V, [values |-> {}, truncated |-> FALSE] \in V, VocabularyOver(E, V, limit), NEW seq \in Seq(E)
  PROVE  GoesTo(V, [p \in V \X E |-> Learn(p[1], p[2], limit)], [values |-> {}, truncated |-> FALSE], seq, Vocabulary(seq, limit))
<1> DEFINE n == Len(seq)
           base == [values |-> {}, truncated |-> FALSE]
           G == [p \in V \X E |-> Learn(p[1], p[2], limit)]
           op(x, i) == Learn(x, seq[i], limit)
           Fix(f) == f = [s \in SUBSET (1..n) |-> IF s = {} THEN base ELSE op(f[s \ {Max(s)}], Max(s))]
           F == [p \in V \X (1..n) |-> op(p[1], p[2])]
           all == CHOOSE f : Fix(f)
<1>0. n \in Nat /\ DOMAIN seq = 1..n /\ base \in V /\ \A i \in 1..n : seq[i] \in E
  OBVIOUS
<1>1. Vocabulary(seq, limit) = all[1..n]
  BY <1>0 DEF Vocabulary, FoldLeft, MapThenFoldSet
<1>2. F \in [V \X (1..n) -> V] /\ \A x \in V, i \in 1..n : F[<<x, i>>] = op(x, i) /\ op(x, i) = G[<<x, seq[i]>>]
  BY <1>0 DEF VocabularyOver
<1> HIDE DEF op, F, G, base, n
<1>3. Fix(all)
  <2>1. PICK f \in [SUBSET (1..n) -> V] : FoldOf(F, base, n, f)
    BY <1>0, <1>2, FoldExists
  <2>2. ASSUME NEW s \in SUBSET (1..n) PROVE f[s] = IF s = {} THEN base ELSE op(f[s \ {Max(s)}], Max(s))
    <3>1. f[s] = IF s = {} THEN base ELSE F[<<f[s \ {Max(s)}], Max(s)>>]
      BY <2>1 DEF FoldOf
    <3>2. s # {} => Max(s) \in 1..n /\ f[s \ {Max(s)}] \in V
      BY <1>0, <2>1, MaxIn
    <3> QED
      BY <1>2, <3>1, <3>2
  <2>3. Fix(f)
    BY <2>1, <2>2
  <2> HIDE DEF Fix
  <2> QED
    BY <2>3
<1> HIDE DEF all
<1>4. Unfolds(V, F, base, n, all)
  <2>1. \A s \in SUBSET (1..n) : s # {} => Max(s) \in 1..n
    BY <1>0, MaxIn
  <2> QED
    BY <1>2, <1>3, <2>1 DEF Unfolds
<1>5. RunsTo(V, F, base, n, Vocabulary(seq, limit))
  <2>1. F \in [V \X (1..n) -> V]
    BY <1>2
  <2>2. RunsTo(V, F, base, n, all[1..n])
    BY <1>0, <1>4, <2>1, FoldTrace
  <2> QED
    BY <1>1, <2>2
<1>6. \A x \in V, i \in 1..n : F[<<x, i>>] = G[<<x, seq[i]>>]
  BY ZenonT(60), <1>2
<1>7. GoesTo(V, G, base, seq, Vocabulary(seq, limit))
  BY <1>0, <1>5, <1>6, RunsGo DEF n
<1> QED
  BY <1>7 DEF G, base

LEMMA VocabularyLaw ==
  ASSUME NEW limit, NEW E, NEW V, [values |-> {}, truncated |-> FALSE] \in V, VocabularyOver(E, V, limit), NEW q \in Seq(E)
  PROVE  VocabularyGoes(E, q, limit) /\ Vocabulary(q, limit) \in V
<1> DEFINE G == [p \in V \X E |-> Learn(p[1], p[2], limit)]
           base == [values |-> {}, truncated |-> FALSE]
           none == << >>
           x == Vocabulary(q, limit)
<1>1. GoesTo(V, G, base, q, x)
  BY VocabularyTrace
<1>2. GoesTo(V, G, base, none, Vocabulary(none, limit))
  <2>1. none \in Seq(E)
    OBVIOUS
  <2> QED
    BY <2>1, VocabularyTrace
<1>3. \A y \in V, e \in E : G[<<y, e>>] = Learn(y, e, limit)
  OBVIOUS
<1> HIDE DEF G, base, none, x
<1>4. x \in V /\ Vocabulary(none, limit) = base
  BY <1>1, <1>2, GoesIn, GoesNowhere DEF none
<1>5. ASSUME NEW e \in E PROVE Vocabulary(Append(q, e), limit) = Learn(x, e, limit)
  <2> DEFINE longer == Append(q, e)
  <2>1. longer \in Seq(E)
    BY AppendIs
  <2>2. GoesTo(V, G, base, longer, Vocabulary(longer, limit))
    BY <2>1, VocabularyTrace DEF G, base
  <2> HIDE DEF longer
  <2>3. Vocabulary(longer, limit) = G[<<x, e>>]
    BY <1>1, <2>2, GoesOn DEF longer
  <2> QED
    BY <1>3, <1>4, <2>3 DEF longer
<1> QED
  BY <1>4, <1>5 DEF base, none, x, VocabularyGoes

LEMMA AppendSet ==
  ASSUME NEW E, NEW q \in Seq(E), NEW e \in E
  PROVE  ToSet(Append(q, e)) = ToSet(q) \cup {e}
<1> DEFINE a == Append(q, e)
           n == Len(q)
<1>1. n \in Nat /\ DOMAIN q = 1..n /\ DOMAIN a = 1..(n + 1) /\ a[n + 1] = e /\ \A i \in 1..n : i \in 1..(n + 1) /\ a[i] = q[i]
  BY AppendIs
<1>2. n + 1 \in 1..(n + 1) /\ \A i \in 1..(n + 1) : i \in 1..n \/ i = n + 1
  BY <1>1
<1> HIDE DEF a, n
<1> QED
  BY <1>1, <1>2 DEF ToSet, a

LEMMA LargestOf ==
  ASSUME NEW S \in SUBSET Int, IsFiniteSet(S), S # {}
  PROVE  \E x \in S : \A y \in S : y <= x
<1> DEFINE Z == {n \in Nat : \A U \in SUBSET Int : IsFiniteSet(U) /\ Cardinality(U) = n /\ U # {} => \E x \in U : \A y \in U : y <= x}
<1>1. 0 \in Z
  BY FS_EmptySet
<1>2. ASSUME NEW n \in Z PROVE n + 1 \in Z
  <2>1. ASSUME NEW U \in SUBSET Int, IsFiniteSet(U), Cardinality(U) = n + 1, U # {}
        PROVE  \E x \in U : \A y \in U : y <= x
    <3>1. PICK u \in U : TRUE
      BY <2>1
    <3> DEFINE W == U \ {u}
    <3>2. IsFiniteSet(W) /\ Cardinality(W) = n /\ W \in SUBSET Int
      <4>1. IsFiniteSet(W) /\ Cardinality(W) = Cardinality(U) - 1
        BY <2>1, <3>1, FS_RemoveElement
      <4>2. n \in Nat
        BY <1>2
      <4> QED
        BY <2>1, <4>1, <4>2
    <3>3. CASE W = {}
      BY <3>1, <3>3
    <3>4. CASE W # {}
      <4>1. PICK x \in W : \A y \in W : y <= x
        BY <1>2, <3>2, <3>4
      <4>2. \A y \in U : y \in W \/ y = u
        OBVIOUS
      <4>3. x \in Int /\ u \in Int /\ x \in U
        BY <3>1, <4>1
      <4>4. CASE u <= x
        BY <4>1, <4>2, <4>3, <4>4
      <4>5. CASE ~(u <= x)
        <5>1. \A y \in W : y <= u
          BY <3>2, <4>1, <4>3, <4>5
        <5> QED
          BY <3>1, <4>2, <4>3, <5>1
      <4> QED
        BY <4>4, <4>5
    <3> QED
      BY <3>3, <3>4
  <2> QED
    BY <2>1
<1>3. Z \in SUBSET Nat
  OBVIOUS
<1> HIDE DEF Z
<1>4. Z = Nat
  BY <1>1, <1>2, <1>3, SetInduction
<1>5. Cardinality(S) \in Z
  BY <1>4, FS_CardinalityType
<1> QED
  BY <1>5 DEF Z

\* voc holds the n smallest of S.
SmallestOf(voc, S, n) ==
  /\ S \in SUBSET Int /\ IsFiniteSet(S)
  /\ voc = [values |-> voc.values, truncated |-> voc.truncated]
  /\ voc.values \in SUBSET S /\ Cardinality(voc.values) = Fewer(n, Cardinality(S))
  /\ \A x \in voc.values, y \in S \ voc.values : x < y
  /\ voc.truncated = (Cardinality(S) > n)

LEMMA LearnKeeps ==
  ASSUME NEW n \in Nat \ {0}, NEW S, NEW voc, SmallestOf(voc, S, n), NEW v \in Int
  PROVE  SmallestOf(Learn(voc, v, n), S \cup {v}, n)
<1> DEFINE W == voc.values
           next == Learn(voc, v, n)
           U == S \cup {v}
<1>1. /\ S \in SUBSET Int /\ IsFiniteSet(S) /\ W \in SUBSET S /\ Cardinality(W) = Fewer(n, Cardinality(S))
      /\ \A x \in W, y \in S \ W : x < y
      /\ voc.truncated = (Cardinality(S) > n) /\ voc = [values |-> W, truncated |-> voc.truncated]
  BY DEF SmallestOf
<1>2. IsFiniteSet(W) /\ Cardinality(W) \in Nat /\ Cardinality(S) \in Nat
  BY <1>1, FS_Subset, FS_CardinalityType
<1>3. /\ U \in SUBSET Int /\ IsFiniteSet(U) /\ Cardinality(U) \in Nat
      /\ Cardinality(U) = IF v \in S THEN Cardinality(S) ELSE Cardinality(S) + 1
  BY <1>1, FS_AddElement, FS_CardinalityType
<1> HIDE DEF W
<1>4. CASE v \in W
  <2>1. next = voc
    BY <1>4 DEF Learn, W
  <2>2. U = S
    BY <1>1, <1>4
  <2> QED
    BY <2>1, <2>2
<1>5. CASE v \notin W /\ Cardinality(W) < n
  <2>1. next = [voc EXCEPT !.values = @ \cup {v}]
    BY <1>5 DEF Learn, W
  <2>2. next.values = W \cup {v} /\ next.truncated = voc.truncated /\ next = [values |-> next.values, truncated |-> next.truncated]
    BY <1>1, <2>1
  <2>3. Cardinality(W) = Cardinality(S)
    BY <1>1, <1>2, <1>5 DEF Fewer
  <2>4. W = S
    BY <1>1, <2>3, FS_Subset
  <2>5. Cardinality(U) <= n /\ U = next.values
    BY <1>2, <1>3, <1>5, <2>2, <2>4
  <2>6. ~(Cardinality(S) > n) /\ ~(Cardinality(U) > n) /\ Fewer(n, Cardinality(U)) = Cardinality(U)
    BY <1>2, <1>3, <1>5, <2>3, <2>5 DEF Fewer
  <2>7. next.truncated = (Cardinality(U) > n)
    BY <1>1, <2>2, <2>6
  <2> HIDE DEF next, U
  <2> QED
    BY <1>3, <2>2, <2>5, <2>6, <2>7 DEF SmallestOf, next, U
<1>6. CASE v \notin W /\ ~(Cardinality(W) < n)
  <2> DEFINE largest == CHOOSE x \in W : \A y \in W : y <= x
  <2>1. next = [values |-> IF v < largest THEN (W \ {largest}) \cup {v} ELSE W, truncated |-> TRUE]
    BY <1>6 DEF Learn, W
  <2>2. Cardinality(W) = n /\ W # {}
    <3>1. Cardinality(W) = n
      BY <1>1, <1>2, <1>6 DEF Fewer
    <3> QED
      BY <3>1, FS_EmptySet
  <2>3. \E x \in W : \A y \in W : y <= x
    BY <1>1, <1>2, <2>2, LargestOf
  <2>4. largest \in W /\ \A y \in W : y <= largest
    BY <2>3
  <2>5. Cardinality(U) > n
    <3>1. Cardinality(W \cup {v}) = n + 1
      BY <1>2, <1>6, <2>2, FS_AddElement
    <3>2. W \cup {v} \in SUBSET U
      BY <1>1
    <3>3. Cardinality(W \cup {v}) <= Cardinality(U)
      BY <1>3, <3>2, FS_Subset
    <3> QED
      BY <1>3, <3>1, <3>3
  <2>6. Fewer(n, Cardinality(U)) = n
    BY <1>3, <2>5 DEF Fewer
  <2> HIDE DEF largest, next, U
  <2>7. next = [values |-> next.values, truncated |-> next.truncated] /\ next.truncated = (Cardinality(U) > n)
    BY <2>1, <2>5
  <2>8. CASE v < largest
    <3>1. next.values = (W \ {largest}) \cup {v}
      BY <2>1, <2>8
    <3>2. Cardinality(next.values) = n
      <4>1. IsFiniteSet(W \ {largest}) /\ Cardinality(W \ {largest}) = n - 1
        BY <1>2, <2>2, <2>4, FS_RemoveElement
      <4>2. Cardinality((W \ {largest}) \cup {v}) = (n - 1) + 1
        BY <1>6, <4>1, FS_AddElement
      <4> QED
        BY <3>1, <4>2
    <3>3. ASSUME NEW x \in next.values, NEW y \in U \ next.values PROVE x < y
      <4>1. largest \in Int /\ y \in Int /\ x \in Int /\ \A w \in W : w \in Int
        BY <1>1, <1>3, <2>4, <3>1, <3>3
      <4>2. (x \in W /\ x # largest) \/ x = v
        BY <3>1
      <4>3. y = largest \/ y \in S \ W
        BY <3>1 DEF U
      <4>4. x < largest
        BY <2>4, <2>8, <4>1, <4>2
      <4>5. y \in S \ W => largest < y
        BY <1>1, <2>4
      <4> QED
        BY <4>1, <4>3, <4>4, <4>5
    <3>4. next.values \in SUBSET U
      BY <1>1, <3>1 DEF U
    <3> QED
      BY <1>3, <2>6, <2>7, <3>2, <3>3, <3>4 DEF SmallestOf, next, U
  <2>9. CASE ~(v < largest)
    <3>1. next.values = W
      BY <2>1, <2>9
    <3>2. ASSUME NEW x \in W, NEW y \in U \ W PROVE x < y
      <4>1. x <= largest /\ x \in Int /\ largest \in Int /\ v # largest
        BY <1>1, <1>6, <2>4
      <4>2. y = v \/ y \in S \ W
        BY DEF U
      <4>3. x < v
        BY <2>9, <4>1
      <4> QED
        BY <1>1, <4>2, <4>3
    <3>3. W \in SUBSET U
      BY <1>1 DEF U
    <3> QED
      BY <1>3, <2>2, <2>6, <2>7, <3>1, <3>2, <3>3 DEF SmallestOf, next, U
  <2> QED
    BY <2>8, <2>9
<1> QED
  BY <1>4, <1>5, <1>6

LEMMA VocabularyIs ==
  ASSUME NEW n \in Nat \ {0}, NEW q \in Seq(Int)
  PROVE  SmallestOf(Vocabulary(q, n), ToSet(q), n)
<1> DEFINE V == [values : SUBSET Int, truncated : BOOLEAN]
           Z == {p \in Seq(Int) : SmallestOf(Vocabulary(p, n), ToSet(p), n)}
           base == [values |-> {}, truncated |-> FALSE]
<1>1. base \in V
  OBVIOUS
<1>2. VocabularyOver(Int, V, n)
  BY DEF VocabularyOver, Learn
<1> HIDE DEF V
<1>3. ASSUME NEW p \in Seq(Int)
      PROVE  Vocabulary(<< >>, n) = base /\ \A e \in Int : Vocabulary(Append(p, e), n) = Learn(Vocabulary(p, n), e, n)
  <2>1. VocabularyGoes(Int, p, n)
    BY <1>1, <1>2, VocabularyLaw
  <2> QED
    BY <2>1 DEF VocabularyGoes
<1>4. << >> \in Z
  <2>1. Vocabulary(<< >>, n) = base
    <3>1. << >> \in Seq(Int) /\ 0 \in Int
      OBVIOUS
    <3> QED
      BY <1>3, <3>1
  <2>2. ToSet(<< >>) = {} /\ IsFiniteSet({}) /\ Cardinality({}) = 0 /\ Fewer(n, 0) = 0 /\ ~(0 > n)
    BY FS_EmptySet DEF ToSet, Fewer
  <2> DEFINE none == {}
  <2> HIDE DEF none
  <2>3. SmallestOf(base, none, n)
    <3>1. base.values = none /\ base.truncated = FALSE /\ base = [values |-> base.values, truncated |-> base.truncated]
      BY DEF none
    <3>2. /\ none \in SUBSET Int /\ IsFiniteSet(none) /\ Cardinality(none) = Fewer(n, Cardinality(none))
          /\ (Cardinality(none) > n) = FALSE /\ \A x \in none, y \in none \ none : x < y
      BY <2>2 DEF none
    <3> HIDE DEF base
    <3> QED
      BY <3>1, <3>2 DEF SmallestOf
  <2>4. << >> \in Seq(Int)
    OBVIOUS
  <2> QED
    BY <2>1, <2>2, <2>3, <2>4 DEF none
<1>5. ASSUME NEW p \in Seq(Int), NEW e \in Int, p \in Z PROVE Append(p, e) \in Z
  <2>1. ToSet(Append(p, e)) = ToSet(p) \cup {e}
    BY AppendSet
  <2>2. SmallestOf(Learn(Vocabulary(p, n), e, n), ToSet(p) \cup {e}, n)
    <3> DEFINE voc == Vocabulary(p, n)
               S == ToSet(p)
    <3>1. SmallestOf(voc, S, n)
      BY <1>5
    <3> HIDE DEF voc, S
    <3>2. SmallestOf(Learn(voc, e, n), S \cup {e}, n)
      BY <3>1, LearnKeeps
    <3> QED
      BY <3>2 DEF voc, S
  <2>3. Vocabulary(Append(p, e), n) = Learn(Vocabulary(p, n), e, n)
    BY <1>3
  <2>4. Append(p, e) \in Seq(Int)
    BY AppendIs
  <2>5. SmallestOf(Vocabulary(Append(p, e), n), ToSet(Append(p, e)), n)
    BY <2>1, <2>2, <2>3
  <2> QED
    BY <2>4, <2>5
<1> HIDE DEF Z
<1>6. q \in Z
  BY <1>4, <1>5, SeqInduction
<1> QED
  BY <1>6 DEF Z

\* The n smallest are those with less than n smaller ones.
LEMMA LeastAre ==
  ASSUME NEW n \in Nat \ {0}, NEW S, NEW voc, SmallestOf(voc, S, n)
  PROVE  voc = [values |-> Least(S, n), truncated |-> Cardinality(S) > n]
<1> DEFINE W == voc.values
           Below(x) == {y \in S : y < x}
<1>1. /\ S \in SUBSET Int /\ IsFiniteSet(S) /\ W \in SUBSET S /\ Cardinality(W) = Fewer(n, Cardinality(S))
      /\ \A x \in W, y \in S \ W : x < y
      /\ voc = [values |-> W, truncated |-> Cardinality(S) > n]
  BY DEF SmallestOf
<1> HIDE DEF W
<1>2. IsFiniteSet(W) /\ Cardinality(W) \in Nat /\ Cardinality(S) \in Nat /\ \A x : IsFiniteSet(Below(x)) /\ Cardinality(Below(x)) \in Nat
  <2>1. \A x : Below(x) \in SUBSET S
    OBVIOUS
  <2> HIDE DEF Below
  <2> QED
    BY <1>1, <2>1, FS_Subset, FS_CardinalityType
<1>3. ASSUME NEW x \in W PROVE Cardinality(Below(x)) < n
  <2>1. Below(x) \in SUBSET (W \ {x})
    <3>1. ASSUME NEW y \in S, y < x PROVE y \in W /\ y # x
      <4>1. x \in Int /\ y \in Int /\ (y \in W \/ x < y)
        BY <1>1, <1>3
      <4> QED
        BY <3>1, <4>1
    <3> QED
      BY <3>1
  <2>2. IsFiniteSet(W \ {x}) /\ Cardinality(W \ {x}) = Cardinality(W) - 1
    BY <1>2, <1>3, FS_RemoveElement
  <2> HIDE DEF Below
  <2>3. Cardinality(Below(x)) <= Cardinality(W \ {x})
    BY <2>1, <2>2, FS_Subset
  <2>4. Cardinality(W) <= n
    BY <1>1, <1>2 DEF Fewer
  <2> QED
    BY <1>2, <2>2, <2>3, <2>4
<1>4. ASSUME NEW x \in S \ W PROVE ~(Cardinality(Below(x)) < n)
  <2>1. W \in SUBSET Below(x)
    BY <1>1, <1>4
  <2>2. W # S /\ Cardinality(W) < Cardinality(S)
    <3>1. W \in SUBSET (S \ {x})
      BY <1>1, <1>4
    <3>2. IsFiniteSet(S \ {x}) /\ Cardinality(S \ {x}) = Cardinality(S) - 1
      BY <1>1, <1>4, FS_RemoveElement
    <3>3. Cardinality(W) <= Cardinality(S \ {x})
      BY <3>1, <3>2, FS_Subset
    <3> QED
      BY <1>2, <1>4, <3>2, <3>3
  <2>3. Cardinality(W) = n
    BY <1>1, <1>2, <2>2 DEF Fewer
  <2> HIDE DEF Below
  <2>4. Cardinality(W) <= Cardinality(Below(x))
    BY <1>2, <2>1, FS_Subset
  <2> QED
    BY <1>2, <2>3, <2>4
<1>5. Least(S, n) = W
  BY <1>1, <1>3, <1>4 DEF Least
<1> QED
  BY <1>1, <1>5

\* A bounded vocabulary is the smallest values of all.
LEMMA VocabularyHolds ==
  ASSUME NEW events \in Timelines
  PROVE  VocabularySound(events)
<1> DEFINE seen == [i \in DOMAIN events |-> events[i].action]
<1>1. seen \in Seq(Int)
  <2>1. events \in Seq(ToSet(events)) /\ \A i \in DOMAIN events : events[i] \in ToSet(events)
    BY TimelinesAssumption DEF ToSet
  <2>2. DOMAIN events = 1..Len(events) /\ Len(events) \in Nat
    BY <2>1
  <2>3. \A i \in 1..Len(events) : events[i].action \in Int
    BY <2>1, <2>2, TimelinesAssumption
  <2>4. seen \in [1..Len(events) -> Int]
    BY <2>2, <2>3
  <2> HIDE DEF seen
  <2> QED
    BY <2>2, <2>4
<1> HIDE DEF seen
<1>2. ASSUME NEW n \in 1..2
      PROVE  Vocabulary(seen, n) = [values |-> Least(ToSet(seen), n), truncated |-> Cardinality(ToSet(seen)) > n]
  <2>1. n \in Nat \ {0}
    OBVIOUS
  <2>2. SmallestOf(Vocabulary(seen, n), ToSet(seen), n)
    BY <1>1, <2>1, VocabularyIs
  <2> DEFINE voc == Vocabulary(seen, n)
             S == ToSet(seen)
  <2> HIDE DEF voc, S
  <2>3. SmallestOf(voc, S, n)
    BY <2>2 DEF voc, S
  <2>4. voc = [values |-> Least(S, n), truncated |-> Cardinality(S) > n]
    BY <2>1, <2>3, LeastAre
  <2> QED
    BY <2>4 DEF voc, S
<1> QED
  BY <1>2 DEF VocabularySound, seen

-----------------------------------------------------------------------------
(* The elements of a set in a sequence, and the order of events.           *)

LEMMA OnlyIs ==
  ASSUME NEW E, NEW S, NEW q \in Seq(E)
  PROVE  OnlyGoes(E, q, S) /\ Only(q, S) \in Seq(E \cap S)
<1> DEFINE V == Seq(E \cap S)
<1>1. << >> \in V
  OBVIOUS
<1>2. OnlyOver(E, V, S)
  <2>1. ASSUME NEW x \in V, NEW d \in E PROVE OnlyStep(x, d, S) \in V
    BY AppendProperties DEF OnlyStep
  <2> QED
    BY <2>1 DEF OnlyOver
<1> HIDE DEF V
<1>3. OnlyGoes(E, q, S) /\ Only(q, S) \in V
  BY <1>1, <1>2, OnlyLaw
<1> QED
  BY <1>3 DEF V

LEMMA OnlyAppend ==
  ASSUME NEW E, NEW S, NEW q \in Seq(E), NEW e \in E
  PROVE  Only(Append(q, e), S) = OnlyStep(Only(q, S), e, S)
<1>1. OnlyGoes(E, q, S)
  BY OnlyIs
<1> QED
  BY <1>1 DEF OnlyGoes

LEMMA OnlyNothing ==
  ASSUME NEW S
  PROVE  Only(<< >>, S) = << >>
<1>1. << >> \in Seq({})
  OBVIOUS
<1>2. OnlyGoes({}, << >>, S)
  BY <1>1, OnlyIs
<1> QED
  BY <1>2 DEF OnlyGoes

LEMMA OnlyHas ==
  ASSUME NEW E, NEW S, NEW q \in Seq(E)
  PROVE  Only(q, S) \in Seq(E) /\ ToSet(Only(q, S)) = ToSet(q) \cap S
<1> DEFINE Z == {p \in Seq(E) : Only(p, S) \in Seq(E) /\ ToSet(Only(p, S)) = ToSet(p) \cap S}
<1>1. << >> \in Z
  <2>1. << >> \in Seq(E)
    OBVIOUS
  <2>2. Only(<< >>, S) = << >>
    BY OnlyNothing
  <2>3. ToSet(<< >>) = {}
    BY DEF ToSet
  <2> QED
    BY <2>1, <2>2, <2>3
<1>2. ASSUME NEW p \in Seq(E), NEW e \in E, p \in Z PROVE Append(p, e) \in Z
  <2> DEFINE o == Only(p, S)
             a == Append(p, e)
  <2>1. o \in Seq(E) /\ ToSet(o) = ToSet(p) \cap S
    BY <1>2
  <2>2. a \in Seq(E) /\ ToSet(a) = ToSet(p) \cup {e} /\ Append(o, e) \in Seq(E) /\ ToSet(Append(o, e)) = ToSet(o) \cup {e}
    BY <2>1, AppendIs, AppendSet
  <2>3. Only(a, S) = OnlyStep(o, e, S)
    BY OnlyAppend
  <2> HIDE DEF o, a
  <2>4. Only(a, S) \in Seq(E) /\ ToSet(Only(a, S)) = ToSet(a) \cap S
    BY <2>1, <2>2, <2>3 DEF OnlyStep
  <2> QED
    BY <2>2, <2>4 DEF a
<1> HIDE DEF Z
<1>3. q \in Z
  BY <1>1, <1>2, SeqInduction
<1> QED
  BY <1>3 DEF Z

\* The events of E are numbered.
Numbered(E) == \A e \in E : e.at \in Int /\ e.source \in Int /\ e.id \in Int

LEMMA OrderIs ==
  ASSUME NEW E, Numbered(E), NEW x \in E, NEW y \in E
  PROVE  /\ Precedes(x, y) => ~Precedes(y, x) /\ Key(x) # Key(y)
         /\ ~Precedes(x, x)
         /\ Precedes(x, y) => x.at <= y.at
<1>1. {x.at, x.source, x.id, y.at, y.source, y.id} \subseteq Int
  BY DEF Numbered
<1> QED
  BY <1>1 DEF Precedes, Key

\* Every element of q precedes the ones after it.
Ordered(q) == \A i, j \in 1..Len(q) : i < j => Precedes(q[i], q[j])

LEMMA OrderedOnly ==
  ASSUME NEW E, NEW S, NEW q \in Seq(E), Ordered(q)
  PROVE  Ordered(Only(q, S))
<1> DEFINE Z == {p \in Seq(E) : Ordered(p) => Ordered(Only(p, S))}
<1>1. << >> \in Z
  <2>1. << >> \in Seq(E)
    OBVIOUS
  <2>2. Only(<< >>, S) = << >>
    BY OnlyNothing
  <2> QED
    BY <2>1, <2>2
<1>2. ASSUME NEW p \in Seq(E), NEW e \in E, p \in Z PROVE Append(p, e) \in Z
  <2> DEFINE o == Only(p, S)
             a == Append(p, e)
             n == Len(p)
             m == Len(o)
             b == Append(o, e)
  <2>1. /\ a \in Seq(E) /\ n \in Nat /\ Len(a) = n + 1 /\ a[n + 1] = e /\ \A i \in 1..n : i \in 1..(n + 1) /\ a[i] = p[i]
    BY AppendIs
  <2>2. o \in Seq(E) /\ ToSet(o) = ToSet(p) \cap S
    BY OnlyHas
  <2>3. /\ b \in Seq(E) /\ m \in Nat /\ Len(b) = m + 1 /\ b[m + 1] = e /\ \A i \in 1..m : b[i] = o[i]
    BY <2>2, AppendIs
  <2>4. Only(a, S) = OnlyStep(o, e, S)
    BY OnlyAppend
  <2>5. \A i \in 1..m : \E j \in 1..n : o[i] = p[j]
    <3>1. DOMAIN o = 1..m /\ DOMAIN p = 1..n
      BY <2>1, <2>2
    <3> HIDE DEF o, m, n
    <3> QED
      BY <2>2, <3>1 DEF ToSet
  <2> HIDE DEF a, b, m, n, o
  <2>6. ASSUME Ordered(a) PROVE Ordered(Only(a, S))
    <3>1. Ordered(p)
      BY <2>1, <2>6 DEF Ordered, n
    <3>2. Ordered(o)
      BY <1>2, <3>1 DEF o
    <3>3. \A j \in 1..n : Precedes(p[j], e)
      <4>1. n + 1 \in 1..(n + 1) /\ \A j \in 1..n : j < n + 1
        BY <2>1
      <4> QED
        BY <2>1, <2>6, <4>1 DEF Ordered
    <3>4. \A i \in 1..m : Precedes(o[i], e)
      BY <2>5, <3>3
    <3>5. ASSUME NEW i \in 1..(m + 1), NEW j \in 1..(m + 1), i < j PROVE Precedes(b[i], b[j])
      <4>1. i \in 1..m /\ (j \in 1..m \/ j = m + 1)
        BY <2>3, <3>5
      <4>2. CASE j = m + 1
        BY <2>3, <3>4, <4>1, <4>2
      <4>3. CASE j \in 1..m
        BY <2>3, <3>2, <3>5, <4>1, <4>3 DEF Ordered, m
      <4> QED
        BY <4>1, <4>2, <4>3
    <3>6. Ordered(b)
      BY <2>3, <3>5 DEF Ordered
    <3> QED
      BY <2>4, <3>2, <3>6 DEF OnlyStep, b
  <2> QED
    BY <2>1, <2>6 DEF a
<1> HIDE DEF Z
<1>3. q \in Z
  BY <1>1, <1>2, SeqInduction
<1> QED
  BY <1>3 DEF Z

-----------------------------------------------------------------------------
(* The events around an anchor.                                            *)

WindowStep(w, e, anchor, q) == IF e.customer = anchor.customer THEN Capture(w, e, anchor, q) ELSE w

WindowOver(E, V, anchor, q0) == \A x \in V, d \in E : WindowStep(x, d, anchor, q0) \in V
WindowGoes(E, q, anchor, q0) == Window(<< >>, anchor, q0) = [before |-> << >>, rows |-> << >>, left |-> q0.after, found |-> FALSE] /\ \A e \in E : Window(Append(q, e), anchor, q0) = WindowStep(Window(q, anchor, q0), e, anchor, q0)

LEMMA WindowTrace ==
  ASSUME NEW anchor, NEW q0, NEW E, NEW V, [before |-> << >>, rows |-> << >>, left |-> q0.after, found |-> FALSE] \in V, WindowOver(E, V, anchor, q0), NEW seq \in Seq(E)
  PROVE  GoesTo(V, [p \in V \X E |-> WindowStep(p[1], p[2], anchor, q0)], [before |-> << >>, rows |-> << >>, left |-> q0.after, found |-> FALSE], seq, Window(seq, anchor, q0))
<1> DEFINE n == Len(seq)
           base == [before |-> << >>, rows |-> << >>, left |-> q0.after, found |-> FALSE]
           G == [p \in V \X E |-> WindowStep(p[1], p[2], anchor, q0)]
           op(x, i) == WindowStep(x, seq[i], anchor, q0)
           Fix(f) == f = [s \in SUBSET (1..n) |-> IF s = {} THEN base ELSE op(f[s \ {Max(s)}], Max(s))]
           F == [p \in V \X (1..n) |-> op(p[1], p[2])]
           all == CHOOSE f : Fix(f)
<1>0. n \in Nat /\ DOMAIN seq = 1..n /\ base \in V /\ \A i \in 1..n : seq[i] \in E
  OBVIOUS
<1>1. Window(seq, anchor, q0) = all[1..n]
  BY <1>0 DEF Window, WindowStep, FoldLeft, MapThenFoldSet
<1>2. F \in [V \X (1..n) -> V] /\ \A x \in V, i \in 1..n : F[<<x, i>>] = op(x, i) /\ op(x, i) = G[<<x, seq[i]>>]
  BY <1>0 DEF WindowOver
<1> HIDE DEF op, F, G, base, n
<1>3. Fix(all)
  <2>1. PICK f \in [SUBSET (1..n) -> V] : FoldOf(F, base, n, f)
    BY <1>0, <1>2, FoldExists
  <2>2. ASSUME NEW s \in SUBSET (1..n) PROVE f[s] = IF s = {} THEN base ELSE op(f[s \ {Max(s)}], Max(s))
    <3>1. f[s] = IF s = {} THEN base ELSE F[<<f[s \ {Max(s)}], Max(s)>>]
      BY <2>1 DEF FoldOf
    <3>2. s # {} => Max(s) \in 1..n /\ f[s \ {Max(s)}] \in V
      BY <1>0, <2>1, MaxIn
    <3> QED
      BY <1>2, <3>1, <3>2
  <2>3. Fix(f)
    BY <2>1, <2>2
  <2> HIDE DEF Fix
  <2> QED
    BY <2>3
<1> HIDE DEF all
<1>4. Unfolds(V, F, base, n, all)
  <2>1. \A s \in SUBSET (1..n) : s # {} => Max(s) \in 1..n
    BY <1>0, MaxIn
  <2> QED
    BY <1>2, <1>3, <2>1 DEF Unfolds
<1>5. RunsTo(V, F, base, n, Window(seq, anchor, q0))
  <2>1. F \in [V \X (1..n) -> V]
    BY <1>2
  <2>2. RunsTo(V, F, base, n, all[1..n])
    BY <1>0, <1>4, <2>1, FoldTrace
  <2> QED
    BY <1>1, <2>2
<1>6. \A x \in V, i \in 1..n : F[<<x, i>>] = G[<<x, seq[i]>>]
  BY ZenonT(60), <1>2
<1>7. GoesTo(V, G, base, seq, Window(seq, anchor, q0))
  BY <1>0, <1>5, <1>6, RunsGo DEF n
<1> QED
  BY <1>7 DEF G, base

LEMMA WindowLaw ==
  ASSUME NEW anchor, NEW q0, NEW E, NEW V, [before |-> << >>, rows |-> << >>, left |-> q0.after, found |-> FALSE] \in V, WindowOver(E, V, anchor, q0), NEW q \in Seq(E)
  PROVE  WindowGoes(E, q, anchor, q0) /\ Window(q, anchor, q0) \in V
<1> DEFINE G == [p \in V \X E |-> WindowStep(p[1], p[2], anchor, q0)]
           base == [before |-> << >>, rows |-> << >>, left |-> q0.after, found |-> FALSE]
           none == << >>
           x == Window(q, anchor, q0)
<1>1. GoesTo(V, G, base, q, x)
  BY WindowTrace
<1>2. GoesTo(V, G, base, none, Window(none, anchor, q0))
  <2>1. none \in Seq(E)
    OBVIOUS
  <2> QED
    BY <2>1, WindowTrace
<1>3. \A y \in V, e \in E : G[<<y, e>>] = WindowStep(y, e, anchor, q0)
  OBVIOUS
<1> HIDE DEF G, base, none, x
<1>4. x \in V /\ Window(none, anchor, q0) = base
  BY <1>1, <1>2, GoesIn, GoesNowhere DEF none
<1>5. ASSUME NEW e \in E PROVE Window(Append(q, e), anchor, q0) = WindowStep(x, e, anchor, q0)
  <2> DEFINE longer == Append(q, e)
  <2>1. longer \in Seq(E)
    BY AppendIs
  <2>2. GoesTo(V, G, base, longer, Window(longer, anchor, q0))
    BY <2>1, WindowTrace DEF G, base
  <2> HIDE DEF longer
  <2>3. Window(longer, anchor, q0) = G[<<x, e>>]
    BY <1>1, <2>2, GoesOn DEF longer
  <2> QED
    BY <1>3, <1>4, <2>3 DEF longer
<1> QED
  BY <1>4, <1>5 DEF base, none, x, WindowGoes

\* part is the n elements of o from place lo on.
IsPart(part, E, o, lo, n) == part \in Seq(E) /\ Len(part) = n /\ \A i \in 1..n : part[i] = o[lo + i - 1]

\* o ends before the anchor: its last b events are held.
Ahead(w, E, o, a, b) ==
  LET k == Fewer(b, Len(o))
  IN  ~w.found /\ w.left = a /\ IsPart(w.before, E, o, Len(o) - k + 1, k)

\* The anchor is the event after the first k of o: b of these, the anchor and a of the next are shown.
Around(w, E, o, anchor, k, a, b) ==
  LET after == Len(o) - k - 1
  IN  /\ k \in Nat /\ after \in Nat
      /\ o[k + 1] = anchor /\ (\A i \in 1..k : Precedes(o[i], anchor))
      /\ \A i \in (k + 2)..Len(o) : Precedes(anchor, o[i])
      /\ w.found /\ w.left = a - Fewer(a, after)
      /\ IsPart(w.rows, E, o, k + 1 - Fewer(b, k), Fewer(b, k) + 1 + Fewer(a, after))

Windows(E) == [before : Seq(E), rows : Seq(E), left : Nat, found : BOOLEAN]

\* One more event of the customer: before the anchor, the anchor, or after it.
LEMMA CaptureAhead ==
  ASSUME NEW E, Numbered(E), NEW anchor \in E, NEW e \in E, Precedes(e, anchor), NEW o \in Seq(E),
         NEW q, q.before \in Nat, NEW a \in Nat, NEW w \in Windows(E), Ahead(w, E, o, a, q.before)
  PROVE  Ahead(Capture(w, e, anchor, q), E, Append(o, e), a, q.before)
<1> DEFINE b == q.before
           m == Len(o)
           k == Fewer(b, m)
           old == w.before
           full == Append(old, e)
           low == (IF Len(full) > b THEN Len(full) - b ELSE 0) + 1
           part == SubSeq(full, low, Len(full))
           p == Append(o, e)
           k2 == Fewer(b, Len(p))
           next == Capture(w, e, anchor, q)
<1>0. Key(e) # Key(anchor) /\ ~Precedes(anchor, e)
  BY OrderIs
<1>1. next = [w EXCEPT !.before = part]
  <2> HIDE DEF part
  <2>1. part = LET c == Append(w.before, e) IN SubSeq(c, (IF Len(c) > q.before THEN Len(c) - q.before ELSE 0) + 1, Len(c))
    BY DEF part
  <2> QED
    BY <1>0, <2>1 DEF Capture
<1>2. next.before = part /\ next.found = w.found /\ next.left = w.left
  BY <1>1 DEF Windows
<1>3. b \in Nat /\ m \in Nat /\ k \in Nat /\ k <= b /\ k <= m /\ old \in Seq(E) /\ Len(old) = k /\ ~w.found /\ w.left = a
  BY DEF Ahead, IsPart, Fewer
<1>4. \A i \in 1..k : old[i] = o[m - k + 1 + i - 1]
  BY DEF Ahead, IsPart
<1>5. p \in Seq(E) /\ Len(p) = m + 1 /\ p[m + 1] = e /\ \A i \in 1..m : p[i] = o[i]
  BY AppendIs
<1>6. full \in Seq(E) /\ Len(full) = k + 1 /\ full[k + 1] = e /\ \A i \in 1..k : full[i] = old[i]
  BY <1>3, AppendIs
<1> HIDE DEF k, b
<1>7. low = (IF k + 1 > b THEN k + 1 - b ELSE 0) + 1
  BY <1>3, <1>6
<1> HIDE DEF full, p, old
<1>8. low \in Nat /\ low >= 1 /\ k2 = k + 1 - low + 1 /\ k2 \in Nat /\ (m + 1) - k2 + 1 = (m - k) + low
  <2> HIDE DEF low
  <2>1. k = Fewer(b, m) /\ k2 = Fewer(b, m + 1)
    BY <1>5 DEF k, b
  <2> HIDE DEF k2, m
  <2> QED
    BY <1>3, <1>7, <2>1 DEF Fewer
<1> HIDE DEF low, k2
<1>9. \A i \in 1..(k + 1) : full[i] = p[m - k + i]
  <2>1. ASSUME NEW i \in 1..(k + 1) PROVE full[i] = p[m - k + i]
    <3>1. CASE i = k + 1
      BY <1>3, <1>5, <1>6, <3>1
    <3>2. CASE i # k + 1
      <4>1. i \in 1..k /\ m - k + i \in 1..m /\ m - k + 1 + i - 1 = m - k + i
        BY <1>3, <3>2
      <4> QED
        BY <1>4, <1>5, <1>6, <4>1
    <3> QED
      BY <3>1, <3>2
  <2> QED
    BY <2>1
<1>10. part \in Seq(E) /\ Len(part) = k2 /\ \A i \in 1..k2 : part[i] = full[low + i - 1]
  <2>1. \A i \in low..(k + 1) : full[i] \in E
    BY <1>6, <1>8
  <2>2. low \in Int /\ k + 1 \in Int /\ Len(full) = k + 1
    BY <1>3, <1>6, <1>8
  <2>3. /\ SubSeq(full, low, k + 1) \in Seq(E) /\ Len(SubSeq(full, low, k + 1)) = (IF low <= k + 1 THEN (k + 1) - low + 1 ELSE 0)
        /\ \A i \in 1..((k + 1) - low + 1) : SubSeq(full, low, k + 1)[i] = full[low + i - 1]
    BY <2>1, <2>2, SubSeqProperties
  <2> QED
    BY <1>3, <1>8, <2>2, <2>3
<1>11. \A i \in 1..k2 : part[i] = p[(m + 1) - k2 + 1 + i - 1]
  <2>1. ASSUME NEW i \in 1..k2 PROVE part[i] = p[(m + 1) - k2 + 1 + i - 1]
    <3>1. low + i - 1 \in 1..(k + 1) /\ m - k + (low + i - 1) = (m + 1) - k2 + 1 + i - 1
      BY <1>3, <1>8
    <3>2. part[i] = full[low + i - 1]
      BY <1>10
    <3> HIDE DEF part
    <3> QED
      BY <1>9, <3>1, <3>2
  <2> QED
    BY <2>1
<1> HIDE DEF part, next, m
<1>12. IsPart(part, E, p, Len(p) - k2 + 1, k2)
  BY <1>5, <1>10, <1>11 DEF IsPart
<1> QED
  BY <1>2, <1>3, <1>12 DEF Ahead, k2, next, p, b

LEMMA CaptureAnchor ==
  ASSUME NEW E, Numbered(E), NEW anchor \in E, NEW o \in Seq(E), \A i \in 1..Len(o) : Precedes(o[i], anchor),
         NEW q, q.before \in Nat, NEW a \in Nat, NEW w \in Windows(E), Ahead(w, E, o, a, q.before)
  PROVE  Around(Capture(w, anchor, anchor, q), E, Append(o, anchor), anchor, Len(o), a, q.before)
<1> DEFINE b == q.before
           m == Len(o)
           k == Fewer(b, m)
           old == w.before
           rows == old \o <<anchor>>
           p == Append(o, anchor)
           next == Capture(w, anchor, anchor, q)
<1>0. ~Precedes(anchor, anchor)
  BY OrderIs
<1>1. next = [w EXCEPT !.rows = rows, !.found = TRUE]
  BY <1>0 DEF Capture
<1>2. next.rows = rows /\ next.found = TRUE /\ next.left = w.left
  BY <1>1 DEF Windows
<1>3. b \in Nat /\ m \in Nat /\ k \in Nat /\ k <= b /\ k <= m /\ old \in Seq(E) /\ Len(old) = k /\ w.left = a
  BY DEF Ahead, IsPart, Fewer
<1>4. \A i \in 1..k : old[i] = o[m - k + 1 + i - 1]
  BY DEF Ahead, IsPart
<1>5. p \in Seq(E) /\ Len(p) = m + 1 /\ p[m + 1] = anchor /\ \A i \in 1..m : p[i] = o[i]
  BY AppendIs
<1> HIDE DEF k, b, m, old
<1>6. rows \in Seq(E) /\ Len(rows) = k + 1 /\ rows[k + 1] = anchor /\ \A i \in 1..k : rows[i] = old[i]
  <2>1. rows = Append(old, anchor)
    BY <1>3, AppendIsConcat
  <2>2. old \in Seq(E) /\ anchor \in E /\ Len(old) = k
    BY <1>3
  <2>3. /\ Append(old, anchor) \in Seq(E) /\ Len(Append(old, anchor)) = Len(old) + 1
        /\ Append(old, anchor)[Len(old) + 1] = anchor
        /\ \A i \in 1..Len(old) : Append(old, anchor)[i] = old[i]
    BY <2>2, AppendIs
  <2> HIDE DEF rows
  <2> QED
    BY ZenonT(60), <2>1, <2>2, <2>3
<1> HIDE DEF next, rows, p, k, b, m, old
<1>7. \A i \in 1..(k + 1) : rows[i] = p[m + 1 - k + i - 1]
  <2>1. ASSUME NEW i \in 1..(k + 1) PROVE rows[i] = p[m + 1 - k + i - 1]
    <3>1. CASE i = k + 1
      BY <1>3, <1>5, <1>6, <3>1
    <3>2. CASE i # k + 1
      <4>1. i \in 1..k /\ m - k + 1 + i - 1 \in 1..m /\ m + 1 - k + i - 1 = m - k + 1 + i - 1
        BY <1>3, <3>2
      <4> QED
        BY <1>4, <1>5, <1>6, <4>1
    <3> QED
      BY <3>1, <3>2
  <2> QED
    BY <2>1
<1>8. Fewer(a, 0) = 0 /\ Len(p) - m - 1 = 0 /\ k + 1 + 0 = k + 1 /\ a - 0 = a
  BY <1>3, <1>5 DEF Fewer
<1>9. IsPart(rows, E, p, m + 1 - k, k + 1 + Fewer(a, Len(p) - m - 1))
  BY <1>6, <1>7, <1>8 DEF IsPart
<1>10. (\A i \in 1..m : Precedes(p[i], anchor)) /\ \A i \in (m + 2)..Len(p) : Precedes(anchor, p[i])
  <2>1. \A i \in 1..m : Precedes(o[i], anchor)
    BY DEF m
  <2>2. \A i \in (m + 2)..Len(p) : FALSE
    BY <1>3, <1>5
  <2> QED
    BY <1>5, <2>1, <2>2
<1>11. k = Fewer(b, m)
  BY DEF k, m, b
<1>12. Around(next, E, p, anchor, m, a, b)
  BY <1>2, <1>3, <1>5, <1>8, <1>9, <1>10, <1>11 DEF Around
<1> QED
  BY <1>12 DEF next, p, m, b

LEMMA CaptureAfter ==
  ASSUME NEW E, Numbered(E), NEW anchor \in E, NEW e \in E, Precedes(anchor, e), NEW o \in Seq(E),
         NEW q, q.before \in Nat, NEW a \in Nat, NEW w \in Windows(E), NEW k, Around(w, E, o, anchor, k, a, q.before)
  PROVE  Around(Capture(w, e, anchor, q), E, Append(o, e), anchor, k, a, q.before)
<1> DEFINE b == q.before
           m == Len(o)
           n == m - k - 1
           j == Fewer(b, k)
           lo == k + 1 - j
           old == w.rows
           p == Append(o, e)
           next == Capture(w, e, anchor, q)
<1>0. Key(e) # Key(anchor) /\ ~Precedes(e, anchor)
  BY OrderIs
<1>1. /\ k \in Nat /\ n \in Nat /\ o[k + 1] = anchor /\ (\A i \in 1..k : Precedes(o[i], anchor))
      /\ (\A i \in (k + 2)..m : Precedes(anchor, o[i])) /\ w.found = TRUE /\ w.left = a - Fewer(a, n)
      /\ old \in Seq(E) /\ Len(old) = j + 1 + Fewer(a, n)
      /\ \A i \in 1..(j + 1 + Fewer(a, n)) : old[i] = o[lo + i - 1]
  BY DEF Around, IsPart, Windows
<1>2. next = IF w.left > 0 THEN [w EXCEPT !.rows = Append(old, e), !.left = w.left - 1] ELSE w
  BY <1>0, <1>1 DEF Capture
<1>3. /\ next.found = TRUE
      /\ w.left > 0 => next.rows = Append(old, e) /\ next.left = w.left - 1
      /\ ~(w.left > 0) => next.rows = old /\ next.left = w.left
  BY <1>1, <1>2 DEF Windows
<1>4. b \in Nat /\ m \in Nat /\ m = n + k + 1 /\ j \in Nat /\ j <= k /\ lo \in Nat /\ lo >= 1
  <2>1. b \in Nat /\ m \in Nat
    OBVIOUS
  <2>2. m = n + k + 1
    BY <1>1, <2>1
  <2> HIDE DEF b, m, n
  <2>3. j \in Nat /\ j <= k
    BY <1>1, <2>1 DEF Fewer
  <2> HIDE DEF j
  <2> QED
    BY <1>1, <2>1, <2>2, <2>3
<1>5. p \in Seq(E) /\ Len(p) = m + 1 /\ p[m + 1] = e /\ \A i \in 1..m : p[i] = o[i]
  BY AppendIs
<1> HIDE DEF next, b, j, lo, p
<1>6. Len(p) - k - 1 = n + 1 /\ n + 1 \in Nat
  BY <1>1, <1>4, <1>5
<1>7. Append(old, e) \in Seq(E) /\ Len(Append(old, e)) = Len(old) + 1 /\ Append(old, e)[Len(old) + 1] = e
      /\ \A i \in 1..Len(old) : Append(old, e)[i] = old[i]
  BY SMTT(60), <1>1, AppendIs
<1> HIDE DEF old, n, m
<1>8. /\ p[k + 1] = anchor /\ (\A i \in 1..k : Precedes(p[i], anchor))
      /\ \A i \in (k + 2)..Len(p) : Precedes(anchor, p[i])
  <2>1. k + 1 \in 1..m /\ \A i \in 1..k : i \in 1..m
    BY <1>1, <1>4
  <2>2. ASSUME NEW i \in (k + 2)..(m + 1) PROVE Precedes(anchor, p[i])
    <3>1. i = m + 1 \/ (i \in (k + 2)..m /\ i \in 1..m)
      BY <1>1, <1>4
    <3> QED
      BY <1>1, <1>5, <3>1
  <2> QED
    BY <1>1, <1>5, <2>1, <2>2
<1>9. CASE w.left > 0
  <2>1. n < a /\ Fewer(a, n) = n /\ Fewer(a, n + 1) = n + 1
    BY <1>1, <1>9 DEF Fewer
  <2>2. j + 1 + (n + 1) = Len(old) + 1 /\ lo + (j + n + 2) - 1 = m + 1 /\ Len(old) = j + 1 + n
    BY <1>1, <1>4, <2>1 DEF lo
  <2>3. ASSUME NEW i \in 1..(j + 1 + (n + 1)) PROVE next.rows[i] = p[lo + i - 1]
    <3>1. CASE i = j + n + 2
      <4>1. i = Len(old) + 1 /\ lo + i - 1 = m + 1
        BY <1>1, <1>4, <2>2, <3>1
      <4> QED
        BY <1>3, <1>5, <1>7, <1>9, <4>1
    <3>2. CASE i # j + n + 2
      <4>1. i \in 1..(j + 1 + n) /\ lo + i - 1 \in 1..m
        BY <1>1, <1>4, <2>2, <3>2
      <4> QED
        BY ZenonT(60), <1>1, <1>3, <1>5, <1>7, <1>9, <2>1, <2>2, <4>1
    <3> QED
      BY <3>1, <3>2
  <2>4. IsPart(next.rows, E, p, lo, j + 1 + (n + 1))
    BY <1>3, <1>7, <1>9, <2>2, <2>3 DEF IsPart
  <2>5. next.left = a - (n + 1)
    BY <1>1, <1>3, <1>9, <2>1
  <2> QED
    BY <1>1, <1>3, <1>6, <1>8, <2>1, <2>4, <2>5 DEF Around, next, p, b, j, lo
<1>10. CASE ~(w.left > 0)
  <2>1. Fewer(a, n) = a /\ Fewer(a, n + 1) = a /\ a <= n
    BY <1>1, <1>10 DEF Fewer
  <2>2. ASSUME NEW i \in 1..(j + 1 + a) PROVE next.rows[i] = p[lo + i - 1]
    <3>1. lo + i - 1 \in 1..m
      BY <1>1, <1>4, <2>1 DEF lo
    <3> QED
      BY <1>1, <1>3, <1>5, <1>10, <2>1, <3>1
  <2>3. IsPart(next.rows, E, p, lo, j + 1 + a)
    BY <1>1, <1>3, <1>10, <2>1, <2>2 DEF IsPart
  <2>4. next.left = a - a
    BY <1>1, <1>3, <1>10, <2>1
  <2> QED
    BY <1>1, <1>3, <1>6, <1>8, <2>1, <2>3, <2>4 DEF Around, next, p, b, j, lo
<1> QED
  BY <1>9, <1>10

\* What the window holds after a prefix p of the scan.
Held(p, E, S, anchor, q) ==
  LET o == Only(p, S)
      w == Window(p, anchor, q)
  IN  /\ w \in Windows(E)
      /\ (\A i \in 1..Len(o) : Precedes(o[i], anchor)) => Ahead(w, E, o, q.after, q.before)
      /\ anchor \in ToSet(p) => \E k \in Nat : Around(w, E, o, anchor, k, q.after, q.before)

LEMMA CaptureTyped ==
  ASSUME NEW E, NEW anchor \in E, NEW q, q.before \in Nat, q.after \in Nat, NEW e \in E, NEW w \in Windows(E)
  PROVE  Capture(w, e, anchor, q) \in Windows(E)
<1> DEFINE b == Append(w.before, e)
           low == (IF Len(b) > q.before THEN Len(b) - q.before ELSE 0) + 1
           part == SubSeq(b, low, Len(b))
<1>1. w.before \in Seq(E) /\ w.rows \in Seq(E) /\ w.left \in Nat /\ w.found \in BOOLEAN
  BY DEF Windows
<1>2. b \in Seq(E) /\ w.before \o <<e>> \in Seq(E) /\ Append(w.rows, e) \in Seq(E)
  BY <1>1
<1>3. part \in Seq(E)
  <2> HIDE DEF b
  <2>1. low \in Int /\ Len(b) \in Int /\ low >= 1
    BY <1>2
  <2>2. \A i \in low..Len(b) : b[i] \in E
    BY <1>2, <2>1
  <2> QED
    BY <2>1, <2>2, SubSeqProperties
<1>4. [w EXCEPT !.before = part] \in Windows(E) /\ [w EXCEPT !.rows = w.before \o <<e>>, !.found = TRUE] \in Windows(E)
  BY <1>1, <1>2, <1>3 DEF Windows
<1>5. w.left > 0 => [w EXCEPT !.rows = Append(w.rows, e), !.left = w.left - 1] \in Windows(E)
  <2>1. w.left > 0 => w.left - 1 \in Nat
    BY <1>1
  <2> DEFINE rows == Append(w.rows, e)
             left == w.left - 1
  <2>2. rows \in Seq(E)
    BY <1>2
  <2> HIDE DEF rows, left
  <2>3. left \in Nat => [w EXCEPT !.rows = rows, !.left = left] \in Windows(E)
    BY <2>2 DEF Windows
  <2> QED
    BY <2>1, <2>3 DEF rows, left
<1>6. \/ Capture(w, e, anchor, q) = [w EXCEPT !.before = part]
      \/ Capture(w, e, anchor, q) = [w EXCEPT !.rows = w.before \o <<e>>, !.found = TRUE]
      \/ w.left > 0 /\ Capture(w, e, anchor, q) = [w EXCEPT !.rows = Append(w.rows, e), !.left = w.left - 1]
      \/ Capture(w, e, anchor, q) = w
  BY DEF Capture
<1> QED
  BY <1>4, <1>5, <1>6

LEMMA HeldOn ==
  ASSUME NEW E, Numbered(E), NEW S \in SUBSET E, NEW anchor \in S, S = {x \in E : x.customer = anchor.customer},
         NEW q, q.before \in Nat, q.after \in Nat, NEW p \in Seq(E), NEW e \in E, Held(p, E, S, anchor, q),
         Ordered(Append(p, e)), Window(Append(p, e), anchor, q) = WindowStep(Window(p, anchor, q), e, anchor, q)
  PROVE  Held(Append(p, e), E, S, anchor, q)
<1> DEFINE o == Only(p, S)
           w == Window(p, anchor, q)
           p2 == Append(p, e)
           o2 == Only(p2, S)
           w2 == Window(p2, anchor, q)
<1>1. /\ w \in Windows(E) /\ o \in Seq(E)
      /\ (\A i \in 1..Len(o) : Precedes(o[i], anchor)) => Ahead(w, E, o, q.after, q.before)
      /\ anchor \in ToSet(p) => \E k \in Nat : Around(w, E, o, anchor, k, q.after, q.before)
  BY OnlyHas DEF Held
<1>2. ToSet(p2) = ToSet(p) \cup {e} /\ ToSet(o) = ToSet(p) \cap S
  BY AppendSet, OnlyHas
<1>3. o2 = OnlyStep(o, e, S) /\ w2 = WindowStep(w, e, anchor, q)
  BY OnlyAppend
<1>4. \A x \in ToSet(p) : Precedes(x, e)
  <2>1. /\ Len(p) \in Nat /\ DOMAIN p = 1..Len(p) /\ Len(p2) = Len(p) + 1 /\ p2[Len(p) + 1] = e
        /\ \A i \in 1..Len(p) : i \in 1..(Len(p) + 1) /\ p2[i] = p[i]
    BY AppendIs
  <2>2. Len(p) + 1 \in 1..(Len(p) + 1) /\ \A i \in 1..Len(p) : i < Len(p) + 1
    BY <2>1
  <2> HIDE DEF p2
  <2>3. \A i \in 1..Len(p) : Precedes(p[i], e)
    BY <2>1, <2>2 DEF Ordered, p2
  <2> QED
    BY <2>1, <2>3 DEF ToSet
<1>5. DOMAIN o = 1..Len(o) /\ Len(o) \in Nat /\ \A i \in 1..Len(o) : o[i] \in ToSet(o)
  <2>1. DOMAIN o = 1..Len(o) /\ Len(o) \in Nat
    BY <1>1
  <2> HIDE DEF o
  <2> QED
    BY <2>1 DEF ToSet
<1> HIDE DEF o, w, p2, o2, w2
<1>6. CASE e \notin S
  <2>1. o2 = o /\ w2 = w /\ e # anchor
    BY <1>3, <1>6 DEF OnlyStep, WindowStep
  <2> QED
    BY <1>1, <1>2, <2>1 DEF Held, p2, o2, w2
<1>7. CASE e \in S
  <2>1. o2 = Append(o, e) /\ w2 = Capture(w, e, anchor, q)
    BY <1>3, <1>7 DEF OnlyStep, WindowStep
  <2>2. w2 \in Windows(E)
    BY <1>1, <2>1, CaptureTyped
  <2>3. ASSUME \A i \in 1..Len(o2) : Precedes(o2[i], anchor) PROVE Ahead(w2, E, o2, q.after, q.before)
    <3>1. /\ Len(o2) = Len(o) + 1 /\ o2[Len(o) + 1] = e /\ \A i \in 1..Len(o) : i \in 1..(Len(o) + 1) /\ o2[i] = o[i]
      BY <1>1, <2>1, AppendIs
    <3>2. Len(o) + 1 \in 1..(Len(o) + 1)
      BY <1>5
    <3>3. Precedes(e, anchor) /\ \A i \in 1..Len(o) : Precedes(o[i], anchor)
      BY <2>3, <3>1, <3>2
    <3>4. Ahead(w, E, o, q.after, q.before)
      BY <1>1, <3>3
    <3> QED
      BY <1>1, <2>1, <3>3, <3>4, CaptureAhead
  <2>4. ASSUME anchor \in ToSet(p2) PROVE \E k \in Nat : Around(w2, E, o2, anchor, k, q.after, q.before)
    <3>1. CASE e = anchor
      <4>1. \A i \in 1..Len(o) : Precedes(o[i], anchor)
        BY <1>2, <1>4, <1>5, <3>1
      <4>2. Ahead(w, E, o, q.after, q.before)
        BY <1>1, <4>1
      <4>3. Around(Capture(w, anchor, anchor, q), E, Append(o, anchor), anchor, Len(o), q.after, q.before)
        BY <1>1, <4>1, <4>2, CaptureAnchor
      <4> QED
        BY <1>5, <2>1, <3>1, <4>3
    <3>2. CASE e # anchor
      <4>1. anchor \in ToSet(p) /\ Precedes(anchor, e)
        BY <1>2, <1>4, <2>4, <3>2
      <4>2. PICK k \in Nat : Around(w, E, o, anchor, k, q.after, q.before)
        BY <1>1, <4>1
      <4>3. Around(Capture(w, e, anchor, q), E, Append(o, e), anchor, k, q.after, q.before)
        BY <1>1, <4>1, <4>2, CaptureAfter
      <4> QED
        BY <2>1, <4>3
    <3> QED
      BY <3>1, <3>2
  <2> QED
    BY <2>2, <2>3, <2>4 DEF Held, p2, o2, w2
<1> QED
  BY <1>6, <1>7

LEMMA HeldAll ==
  ASSUME NEW E, Numbered(E), NEW S \in SUBSET E, NEW anchor \in S, S = {x \in E : x.customer = anchor.customer},
         NEW q, q.before \in Nat, q.after \in Nat, NEW events \in Seq(E), Ordered(events)
  PROVE  Held(events, E, S, anchor, q)
<1> DEFINE V == Windows(E)
           base == [before |-> << >>, rows |-> << >>, left |-> q.after, found |-> FALSE]
           Z == {p \in Seq(E) : Ordered(p) => Held(p, E, S, anchor, q)}
<1>1. base \in V
  BY DEF Windows
<1>2. WindowOver(E, V, anchor, q)
  <2>1. ASSUME NEW w \in V, NEW e \in E PROVE WindowStep(w, e, anchor, q) \in V
    <3>1. Capture(w, e, anchor, q) \in V
      BY CaptureTyped
    <3> QED
      BY <3>1 DEF WindowStep
  <2> QED
    BY <2>1 DEF WindowOver
<1> HIDE DEF V
<1>3. \A p \in Seq(E) : WindowGoes(E, p, anchor, q)
  BY <1>1, <1>2, WindowLaw
<1>4. << >> \in Z
  <2> DEFINE none == << >>
  <2>1. none \in Seq(E) /\ Len(none) = 0 /\ ToSet(none) = {}
    BY DEF ToSet
  <2>2. Only(none, S) = none
    BY OnlyNothing
  <2>3. Window(none, anchor, q) = base
    BY <1>3, <2>1 DEF WindowGoes
  <2>4. Fewer(q.before, 0) = 0
    BY DEF Fewer
  <2>5. Ahead(base, E, none, q.after, q.before)
    <3>1. base.found = FALSE /\ base.left = q.after /\ base.before = none
      OBVIOUS
    <3>2. \A i \in 1..0 : FALSE
      OBVIOUS
    <3> HIDE DEF base, none
    <3> QED
      BY <2>1, <2>4, <3>1, <3>2 DEF Ahead, IsPart
  <2> HIDE DEF base, none
  <2>6. Held(none, E, S, anchor, q)
    BY <1>1, <2>1, <2>2, <2>3, <2>5 DEF Held, V
  <2> QED
    BY <2>1, <2>6 DEF none
<1>5. ASSUME NEW p \in Seq(E), NEW e \in E, p \in Z PROVE Append(p, e) \in Z
  <2>1. ASSUME Ordered(Append(p, e)) PROVE Held(Append(p, e), E, S, anchor, q)
    <3>1. Ordered(p)
      <4>1. Len(p) \in Nat /\ Len(Append(p, e)) = Len(p) + 1 /\ \A i \in 1..Len(p) : i \in 1..(Len(p) + 1) /\ Append(p, e)[i] = p[i]
        BY AppendIs
      <4> DEFINE a == Append(p, e)
      <4> HIDE DEF a
      <4> QED
        BY <2>1, <4>1 DEF Ordered
    <3>2. Held(p, E, S, anchor, q)
      BY <1>5, <3>1
    <3>3. Window(Append(p, e), anchor, q) = WindowStep(Window(p, anchor, q), e, anchor, q)
      <4>1. WindowGoes(E, p, anchor, q)
        BY <1>3
      <4> QED
        BY <4>1 DEF WindowGoes
    <3> QED
      BY <2>1, <3>2, <3>3, HeldOn
  <2>2. Append(p, e) \in Seq(E)
    BY AppendIs
  <2> QED
    BY <2>1, <2>2
<1> HIDE DEF Z
<1>6. events \in Z
  BY <1>4, <1>5, SeqInduction
<1> QED
  BY <1>6 DEF Z
\* Evidence is so many of the customer's events before and after the anchor.
LEMMA WindowHolds ==
  ASSUME NEW events \in Timelines
  PROVE  WindowSound(events)
<1> SUFFICES ASSUME NEW i0 \in DOMAIN events, NEW b \in 0..2, NEW a \in 0..2
             PROVE  LET own == Only(events, {e \in ToSet(events) : e.customer = events[i0].customer})
                        at == SelectInSeq(own, LAMBDA e : Key(e) = Key(events[i0]))
                        w == Window(events, events[i0], [before |-> b, after |-> a])
                    IN  /\ w.found
                        /\ w.rows = SubSeq(own, IF at > b THEN at - b ELSE 1, IF at + a > Len(own) THEN Len(own) ELSE at + a)
  BY DEF WindowSound, Those
<1> DEFINE E == ToSet(events)
           anchor == events[i0]
           S == {e \in E : e.customer = anchor.customer}
           own == Only(events, S)
           q == [before |-> b, after |-> a]
           at == SelectInSeq(own, LAMBDA e : Key(e) = Key(anchor))
           w == Window(events, anchor, q)
<1>1. events \in Seq(E) /\ anchor \in E /\ anchor \in S /\ S \in SUBSET E
  BY TimelinesAssumption DEF ToSet
<1>2. Numbered(E)
  BY TimelinesAssumption DEF Numbered
<1>3. Ordered(events)
  <2>1. DOMAIN events = 1..Len(events)
    BY <1>1
  <2> QED
    BY <2>1, TimelinesAssumption DEF Ordered
<1>4. q.before = b /\ q.after = a /\ a \in Nat /\ b \in Nat
  OBVIOUS
<1>5. S = {x \in E : x.customer = anchor.customer}
  OBVIOUS
<1> HIDE DEF E, anchor, S, q
<1>6. Held(events, E, S, anchor, q)
  BY <1>1, <1>2, <1>3, <1>4, <1>5, HeldAll
<1>7. own \in Seq(E)
  BY <1>1, OnlyHas
<1>8. PICK k \in Nat : Around(w, E, own, anchor, k, a, b)
  BY <1>1, <1>4, <1>6 DEF Held, E
<1> HIDE DEF w, own
<1> DEFINE m == Len(own)
           n == m - k - 1
           j == Fewer(b, k)
           l == Fewer(a, n)
<1>9. /\ n \in Nat /\ own[k + 1] = anchor /\ (\A i \in 1..k : Precedes(own[i], anchor))
      /\ (\A i \in (k + 2)..m : Precedes(anchor, own[i])) /\ w.found
      /\ IsPart(w.rows, E, own, k + 1 - j, j + 1 + l)
  BY <1>8 DEF Around
<1>10. m \in Nat /\ m = n + k + 1 /\ \A i \in 1..m : own[i] \in E
  BY <1>7, <1>9
<1>11. at = k + 1
  <2> DEFINE I == {i \in 1..m : Key(own[i]) = Key(anchor)}
  <2>1. at = IF I # {} THEN Min(I) ELSE 0
    BY DEF SelectInSeq
  <2>2. ASSUME NEW i \in 1..m, i # k + 1 PROVE Key(own[i]) # Key(anchor)
    <3>1. i \in 1..k \/ i \in (k + 2)..m
      BY <1>9, <1>10, <2>2
    <3>2. Precedes(own[i], anchor) \/ Precedes(anchor, own[i])
      BY <1>9, <3>1
    <3> QED
      BY <1>1, <1>2, <1>10, <3>2, OrderIs
  <2>3. k + 1 \in 1..m
    BY <1>9, <1>10
  <2>4. I = {k + 1}
    BY <1>9, <2>2, <2>3
  <2> HIDE DEF I
  <2>5. Min(I) = k + 1
    <3>1. Min({k + 1}) = CHOOSE x \in {k + 1} : \A y \in {k + 1} : x =< y
      BY DEF Min
    <3>2. k + 1 <= k + 1
      BY <2>3
    <3> QED
      BY <2>4, <3>1, <3>2
  <2> QED
    BY <2>1, <2>4, <2>5
<1> HIDE DEF at, m, n
<1> DEFINE low == IF at > b THEN at - b ELSE 1
           high == IF at + a > m THEN m ELSE at + a
           part == SubSeq(own, low, high)
<1>12. /\ low = k + 1 - j /\ high = k + 1 + l /\ low \in 1..m /\ high \in 1..m /\ low <= high
       /\ high - low + 1 = j + 1 + l
  BY <1>4, <1>9, <1>10, <1>11 DEF Fewer
<1> HIDE DEF low, high, j, l
<1>13. part \in Seq(E) /\ Len(part) = high - low + 1 /\ \A i \in 1..(high - low + 1) : part[i] = own[low + i - 1]
  <2>1. low \in Int /\ high \in Int /\ \A i \in low..high : own[i] \in E
    BY <1>10, <1>12
  <2> QED
    BY <1>12, <2>1, SubSeqProperties
<1>14. w.rows \in Seq(E) /\ Len(w.rows) = high - low + 1 /\ \A i \in 1..(high - low + 1) : w.rows[i] = own[low + i - 1]
  BY <1>9, <1>12 DEF IsPart
<1> HIDE DEF part
<1>15. w.rows = part
  BY <1>13, <1>14, SeqEqual
<1> QED
  BY <1>9, <1>15 DEF part, low, high, at, m, w, own, q, S, anchor, E

-----------------------------------------------------------------------------
(* Predicates.                                                             *)

\* A predicate on a source's own field selects events of that source, and of these every
\* event has the field or misses it.
LEMMA PredicatesHold ==
  ASSUME NEW events
  PROVE  PredicatesSound(events)
<1> SUFFICES ASSUME NEW e \in ToSet(events), NEW p \in Predicates
             PROVE  /\ Selects(e, p) => p.field.scope = "canonical" \/ e.source = p.field.source
                    /\ Selects(e, [p EXCEPT !.op = "exists"]) # Selects(e, [p EXCEPT !.op = "missing"])
                         <=> Applicable(e, p.field)
                    /\ p.op \in {"in", "not_in"} => ~(Selects(e, p) /\ Selects(e, [p EXCEPT !.op =
                                                                       IF p.op = "in" THEN "not_in" ELSE "in"]))
  BY ZenonT(60) DEF PredicatesSound
<1> DEFINE With(op) == [p EXCEPT !.op = op]
           v == Value(e, p.field)
<1>1. \A op : With(op).field = p.field /\ With(op).op = op /\ With(op).values = p.values
  <2>1. p = [field |-> p.field, op |-> p.op, values |-> p.values, type |-> p.type]
    BY PredicatesAssumption
  <2> QED
    BY <2>1
<1> HIDE DEF With
<1>2. Selects(e, p) => p.field.scope = "canonical" \/ e.source = p.field.source
  BY DEF Selects, Applicable
<1>3. Selects(e, With("exists")) <=> Applicable(e, p.field) /\ v # Null
  BY <1>1 DEF Selects
<1>4. Selects(e, With("missing")) <=> Applicable(e, p.field) /\ v = Null
  BY <1>1 DEF Selects
<1>5. Selects(e, With("exists")) \in BOOLEAN /\ Selects(e, With("missing")) \in BOOLEAN
  BY DEF Selects
<1>6. Selects(e, With("exists")) # Selects(e, With("missing")) <=> Applicable(e, p.field)
  BY <1>3, <1>4, <1>5
<1>7. ASSUME NEW q, q.op \in {"in", "not_in"}, q.field = p.field, Selects(e, q)
      PROVE  (q.op = "in" => v \in q.values) /\ (q.op = "not_in" => v \notin q.values)
  BY <1>7 DEF Selects, Compares
<1>8. p.op = "in" => ~(Selects(e, p) /\ Selects(e, With("not_in")))
  BY <1>1, <1>7
<1>9. p.op = "not_in" => ~(Selects(e, p) /\ Selects(e, With("in")))
  BY <1>1, <1>7
<1> QED
  BY <1>2, <1>6, <1>8, <1>9 DEF With

-----------------------------------------------------------------------------
(* What is left out of a sequence, and what its elements become.           *)

LEMMA OnlySame ==
  ASSUME NEW E, NEW S, NEW T, \A e \in E : e \in S <=> e \in T, NEW q \in Seq(E)
  PROVE  Only(q, S) = Only(q, T)
<1> DEFINE Z == {p \in Seq(E) : Only(p, S) = Only(p, T)}
<1>1. << >> \in Z
  BY OnlyNothing
<1>2. ASSUME NEW p \in Seq(E), NEW e \in E, p \in Z PROVE Append(p, e) \in Z
  <2>1. Only(Append(p, e), S) = OnlyStep(Only(p, S), e, S) /\ Only(Append(p, e), T) = OnlyStep(Only(p, T), e, T)
    BY OnlyAppend
  <2>2. Append(p, e) \in Seq(E) /\ Only(p, S) = Only(p, T)
    BY <1>2, AppendIs
  <2> QED
    BY SMTT(60), <2>1, <2>2 DEF OnlyStep
<1> HIDE DEF Z
<1>3. q \in Z
  BY <1>1, <1>2, SeqInduction
<1> QED
  BY <1>3 DEF Z

LEMMA OnlyOnly ==
  ASSUME NEW E, NEW S, NEW T, NEW q \in Seq(E)
  PROVE  Only(Only(q, S), T) = Only(q, S \cap T)
<1> DEFINE Z == {p \in Seq(E) : Only(Only(p, S), T) = Only(p, S \cap T)}
<1>1. << >> \in Z
  BY OnlyNothing
<1>2. ASSUME NEW p \in Seq(E), NEW e \in E, p \in Z PROVE Append(p, e) \in Z
  <2> DEFINE o == Only(p, S)
             a == Append(p, e)
             U == S \cap T
  <2>1. Only(a, S) = OnlyStep(o, e, S) /\ Only(a, U) = OnlyStep(Only(p, U), e, U)
    BY OnlyAppend
  <2>2. o \in Seq(E) /\ a \in Seq(E) /\ Only(o, T) = Only(p, U) /\ (e \in U <=> e \in S /\ e \in T)
    BY <1>2, OnlyHas, AppendIs
  <2>3. Only(Append(o, e), T) = OnlyStep(Only(o, T), e, T)
    BY <2>2, OnlyAppend
  <2> HIDE DEF o, a, U
  <2>4. Only(Only(a, S), T) = Only(a, U)
    BY <2>1, <2>2, <2>3 DEF OnlyStep
  <2> QED
    BY <2>2, <2>4 DEF a, U
<1> HIDE DEF Z
<1>3. q \in Z
  BY <1>1, <1>2, SeqInduction
<1> QED
  BY <1>3 DEF Z

\* Every element of q as M has it.
MappedBy(q, M) == [i \in DOMAIN q |-> M[q[i]]]

IsMapped(m, q, M, D) ==
  m \in Seq(D) /\ Len(m) = Len(q) /\ DOMAIN m = DOMAIN q /\ \A i \in 1..Len(q) : m[i] = M[q[i]]

LEMMA MappedIs ==
  ASSUME NEW E, NEW D, NEW M \in [E -> D], NEW q \in Seq(E)
  PROVE  IsMapped(MappedBy(q, M), q, M, D)
<1>1. DOMAIN q = 1..Len(q) /\ Len(q) \in Nat /\ \A i \in 1..Len(q) : q[i] \in E
  OBVIOUS
<1> DEFINE m == MappedBy(q, M)
<1>2. m \in [1..Len(q) -> D] /\ DOMAIN m = DOMAIN q /\ \A i \in 1..Len(q) : m[i] = M[q[i]]
  BY <1>1 DEF MappedBy
<1> HIDE DEF m
<1>3. m \in Seq(D) /\ Len(m) = Len(q)
  BY <1>1, <1>2
<1> QED
  BY <1>2, <1>3 DEF m, IsMapped

LEMMA MappedAppend ==
  ASSUME NEW E, NEW D, NEW M \in [E -> D], NEW q \in Seq(E), NEW e \in E
  PROVE  MappedBy(Append(q, e), M) = Append(MappedBy(q, M), M[e])
<1> DEFINE a == Append(q, e)
           m == MappedBy(q, M)
           x == MappedBy(a, M)
           y == Append(m, M[e])
           n == Len(q)
<1>1. a \in Seq(E) /\ n \in Nat /\ Len(a) = n + 1 /\ a[n + 1] = e /\ \A i \in 1..n : a[i] = q[i]
  BY AppendIs
<1>2. m \in Seq(D) /\ Len(m) = n /\ \A i \in 1..n : m[i] = M[q[i]]
  <2>1. IsMapped(m, q, M, D)
    BY MappedIs
  <2> QED
    BY <2>1 DEF IsMapped
<1>3. x \in Seq(D) /\ Len(x) = n + 1 /\ \A i \in 1..(n + 1) : x[i] = M[a[i]]
  <2> HIDE DEF a
  <2>1. IsMapped(x, a, M, D)
    BY <1>1, MappedIs
  <2> QED
    BY <1>1, <2>1 DEF IsMapped
<1>4. y \in Seq(D) /\ Len(y) = n + 1 /\ y[n + 1] = M[e] /\ \A i \in 1..n : y[i] = m[i]
  <2>1. M[e] \in D
    OBVIOUS
  <2> HIDE DEF m
  <2> QED
    BY <1>2, <2>1, AppendIs
<1> HIDE DEF a, m, x, y, n
<1>5. ASSUME NEW i \in 1..(n + 1) PROVE x[i] = y[i]
  <2>1. i \in 1..n \/ i = n + 1
    BY <1>1
  <2> QED
    BY SMTT(60), <1>1, <1>2, <1>3, <1>4, <2>1
<1>6. x = y
  BY <1>3, <1>4, <1>5, SeqEqual
<1> QED
  BY <1>6 DEF x, y, a, m

\* S is what M, a map from E to D, takes into T.
Preimage(S, E, D, M, T) == M \in [E -> D] /\ S = {e \in E : M[e] \in T}

\* Leaving out before or after the elements are mapped is the same.
LEMMA MappedOnly ==
  ASSUME NEW E, NEW D, NEW M, NEW q \in Seq(E), NEW T, NEW S, Preimage(S, E, D, M, T)
  PROVE  Only(MappedBy(q, M), T) = MappedBy(Only(q, S), M)
<1> DEFINE Z == {p \in Seq(E) : Only(MappedBy(p, M), T) = MappedBy(Only(p, S), M)}
<1> M \in [E -> D]
  BY DEF Preimage
<1>1. << >> \in Z
  <2>1. << >> \in Seq(E)
    OBVIOUS
  <2>2. MappedBy(<< >>, M) = << >>
    BY DEF MappedBy
  <2> QED
    BY <2>1, <2>2, OnlyNothing
<1>2. ASSUME NEW p \in Seq(E), NEW e \in E, p \in Z PROVE Append(p, e) \in Z
  <2> DEFINE o == Only(p, S)
             m == MappedBy(p, M)
             d == M[e]
             a == Append(p, e)
  <2>1. o \in Seq(E) /\ m \in Seq(D) /\ d \in D /\ a \in Seq(E)
    BY OnlyHas, MappedIs, AppendIs DEF IsMapped
  <2>2. Only(a, S) = OnlyStep(o, e, S) /\ MappedBy(a, M) = Append(m, d)
    BY ZenonT(60), OnlyAppend, MappedAppend
  <2>3. Only(m, T) = MappedBy(o, M) /\ (e \in S <=> d \in T)
    BY <1>2 DEF Preimage
  <2> HIDE DEF o, m, a
  <2>4. Only(Append(m, d), T) = OnlyStep(Only(m, T), d, T)
    BY <2>1, OnlyAppend
  <2>5. MappedBy(Append(o, e), M) = Append(MappedBy(o, M), d)
    BY ZenonT(60), <2>1, MappedAppend
  <2> HIDE DEF d
  <2>6. Only(MappedBy(a, M), T) = MappedBy(Only(a, S), M)
    BY <2>2, <2>3, <2>4, <2>5 DEF OnlyStep
  <2> QED
    BY <2>1, <2>6 DEF a
<1> HIDE DEF Z
<1>3. q \in Z
  BY <1>1, <1>2, SeqInduction
<1> QED
  BY <1>3 DEF Z

-----------------------------------------------------------------------------
(* What is stored of an event.                                             *)

\* An event with all its parts.
Whole(e) ==
  e = [id |-> e.id, source |-> e.source, customer |-> e.customer, action |-> e.action, at |-> e.at, values |-> e.values]

Canonical(f) == f.scope = "canonical" => f.name \in {"source_id", "occurred_at", "action"}

LEMMA DescribedIs ==
  ASSUME NEW f, Described(f)
  PROVE  Canonical(f)
BY DEF Described, Canonical, CanonicalTypes

\* Storing keeps all but the values, and of these all a request names.
LEMMA KeptIs ==
  ASSUME NEW e, Whole(e), NEW q
  PROVE  /\ Whole(Kept(e, q)) /\ Kept(e, q).at = e.at /\ Kept(e, q).source = e.source
         /\ Kept(e, q).customer = e.customer /\ Kept(e, q).action = e.action /\ Kept(e, q).id = e.id
<1> DEFINE vs == [k \in {<<f.scope, f.name>> : f \in {g \in RequestFields(q) :
                                 g.scope # "canonical" /\ Applicable(e, g)}} |->
                          Value(e, [scope |-> k[1], source |-> e.source, name |-> k[2]])]
<1>1. Kept(e, q) = [e EXCEPT !.values = vs]
  BY DEF Kept
<1> HIDE DEF vs
<1> QED
  BY <1>1 DEF Whole

LEMMA KeptValue ==
  ASSUME NEW e, Whole(e), NEW q, NEW f \in RequestFields(q), Canonical(f)
  PROVE  /\ Value(Kept(e, q), f) = Value(e, f)
         /\ Applicable(Kept(e, q), f) <=> Applicable(e, f)
<1> DEFINE Names == {<<g.scope, g.name>> : g \in {h \in RequestFields(q) : h.scope # "canonical" /\ Applicable(e, h)}}
           Of(k) == [scope |-> k[1], source |-> e.source, name |-> k[2]]
           vs == [k \in Names |-> Value(e, Of(k))]
           d == Kept(e, q)
<1>1. d.at = e.at /\ d.source = e.source /\ d.action = e.action
  BY KeptIs
<1>2. d = [e EXCEPT !.values = vs]
  BY DEF Kept
<1> HIDE DEF vs
<1>3. d.values = vs
  BY <1>2 DEF Whole
<1> HIDE DEF d
<1>4. Applicable(d, f) <=> Applicable(e, f)
  BY <1>1 DEF Applicable
<1>5. ASSUME f.scope = "canonical" PROVE Value(d, f) = Value(e, f)
  <2>1. f.name = "source_id" \/ f.name = "occurred_at" \/ f.name = "action"
    BY <1>5 DEF Canonical
  <2> QED
    BY <1>1, <1>5, <2>1 DEF Value
<1>6. ASSUME f.scope # "canonical", e.source # f.source PROVE Value(d, f) = Value(e, f)
  BY <1>1, <1>6 DEF Value
<1>7. ASSUME f.scope # "canonical", e.source = f.source PROVE Value(d, f) = Value(e, f)
  <2> DEFINE k == <<f.scope, f.name>>
             g == Of(k)
  <2>1. k \in Names
    BY <1>7 DEF Applicable
  <2>2. DOMAIN vs = Names /\ vs[k] = Value(e, g)
    BY <2>1 DEF vs
  <2>3. g.scope = f.scope /\ g.source = e.source /\ g.name = f.name
    OBVIOUS
  <2> HIDE DEF g
  <2>4. Value(e, g) = Value(e, f)
    BY <1>7, <2>3 DEF Value
  <2> HIDE DEF Names
  <2>5. Value(d, f) = d.values[k]
    BY <1>1, <1>3, <1>7, <2>1, <2>2 DEF Value
  <2> QED
    BY <1>3, <2>2, <2>4, <2>5
<1>8. Value(d, f) = Value(e, f)
  BY <1>5, <1>6, <1>7
<1> QED
  BY <1>4, <1>8 DEF d

-----------------------------------------------------------------------------

-----------------------------------------------------------------------------
(* Runs without a gap.                                                     *)

ClustersOver(E, V, gap) == \A x \in V, d \in E : Cluster(x, d, gap) \in V
ClustersGoes(E, q, gap) == Clusters(<< >>, gap) = << >> /\ \A e \in E : Clusters(Append(q, e), gap) = Cluster(Clusters(q, gap), e, gap)

LEMMA ClustersTrace ==
  ASSUME NEW gap, NEW E, NEW V, << >> \in V, ClustersOver(E, V, gap), NEW seq \in Seq(E)
  PROVE  GoesTo(V, [p \in V \X E |-> Cluster(p[1], p[2], gap)], << >>, seq, Clusters(seq, gap))
<1> DEFINE n == Len(seq)
           base == << >>
           G == [p \in V \X E |-> Cluster(p[1], p[2], gap)]
           op(x, i) == Cluster(x, seq[i], gap)
           Fix(f) == f = [s \in SUBSET (1..n) |-> IF s = {} THEN base ELSE op(f[s \ {Max(s)}], Max(s))]
           F == [p \in V \X (1..n) |-> op(p[1], p[2])]
           all == CHOOSE f : Fix(f)
<1>0. n \in Nat /\ DOMAIN seq = 1..n /\ base \in V /\ \A i \in 1..n : seq[i] \in E
  OBVIOUS
<1>1. Clusters(seq, gap) = all[1..n]
  BY <1>0 DEF Clusters, FoldLeft, MapThenFoldSet
<1>2. F \in [V \X (1..n) -> V] /\ \A x \in V, i \in 1..n : F[<<x, i>>] = op(x, i) /\ op(x, i) = G[<<x, seq[i]>>]
  BY <1>0 DEF ClustersOver
<1> HIDE DEF op, F, G, base, n
<1>3. Fix(all)
  <2>1. PICK f \in [SUBSET (1..n) -> V] : FoldOf(F, base, n, f)
    BY <1>0, <1>2, FoldExists
  <2>2. ASSUME NEW s \in SUBSET (1..n) PROVE f[s] = IF s = {} THEN base ELSE op(f[s \ {Max(s)}], Max(s))
    <3>1. f[s] = IF s = {} THEN base ELSE F[<<f[s \ {Max(s)}], Max(s)>>]
      BY <2>1 DEF FoldOf
    <3>2. s # {} => Max(s) \in 1..n /\ f[s \ {Max(s)}] \in V
      BY <1>0, <2>1, MaxIn
    <3> QED
      BY <1>2, <3>1, <3>2
  <2>3. Fix(f)
    BY <2>1, <2>2
  <2> HIDE DEF Fix
  <2> QED
    BY <2>3
<1> HIDE DEF all
<1>4. Unfolds(V, F, base, n, all)
  <2>1. \A s \in SUBSET (1..n) : s # {} => Max(s) \in 1..n
    BY <1>0, MaxIn
  <2> QED
    BY <1>2, <1>3, <2>1 DEF Unfolds
<1>5. RunsTo(V, F, base, n, Clusters(seq, gap))
  <2>1. F \in [V \X (1..n) -> V]
    BY <1>2
  <2>2. RunsTo(V, F, base, n, all[1..n])
    BY <1>0, <1>4, <2>1, FoldTrace
  <2> QED
    BY <1>1, <2>2
<1>6. \A x \in V, i \in 1..n : F[<<x, i>>] = G[<<x, seq[i]>>]
  BY ZenonT(60), <1>2
<1>7. GoesTo(V, G, base, seq, Clusters(seq, gap))
  BY <1>0, <1>5, <1>6, RunsGo DEF n
<1> QED
  BY <1>7 DEF G, base

LEMMA ClustersLaw ==
  ASSUME NEW gap, NEW E, NEW V, << >> \in V, ClustersOver(E, V, gap), NEW q \in Seq(E)
  PROVE  ClustersGoes(E, q, gap) /\ Clusters(q, gap) \in V
<1> DEFINE G == [p \in V \X E |-> Cluster(p[1], p[2], gap)]
           base == << >>
           none == << >>
           x == Clusters(q, gap)
<1>1. GoesTo(V, G, base, q, x)
  BY ClustersTrace
<1>2. GoesTo(V, G, base, none, Clusters(none, gap))
  <2>1. none \in Seq(E)
    OBVIOUS
  <2> QED
    BY <2>1, ClustersTrace
<1>3. \A y \in V, e \in E : G[<<y, e>>] = Cluster(y, e, gap)
  OBVIOUS
<1> HIDE DEF G, base, none, x
<1>4. x \in V /\ Clusters(none, gap) = base
  BY <1>1, <1>2, GoesIn, GoesNowhere DEF none
<1>5. ASSUME NEW e \in E PROVE Clusters(Append(q, e), gap) = Cluster(x, e, gap)
  <2> DEFINE longer == Append(q, e)
  <2>1. longer \in Seq(E)
    BY AppendIs
  <2>2. GoesTo(V, G, base, longer, Clusters(longer, gap))
    BY <2>1, ClustersTrace DEF G, base
  <2> HIDE DEF longer
  <2>3. Clusters(longer, gap) = G[<<x, e>>]
    BY <1>1, <2>2, GoesOn DEF longer
  <2> QED
    BY <1>3, <1>4, <2>3 DEF longer
<1> QED
  BY <1>4, <1>5 DEF base, none, x, ClustersGoes

\* c is the run of p from i to j.
RunAt(c, E, p, i, j, gap) == i <= j /\ Run(p, i, j, gap) /\ IsPart(c, E, p, i, j - i + 1)

\* The clusters are the runs of p, the last one up to its end.
Cuts(cs, E, p, gap) ==
  LET n == Len(p)
      m == Len(cs)
  IN  /\ cs \in Seq(Seq(E)) /\ (n = 0 <=> m = 0)
      /\ n > 0 => \E s \in 1..n : RunAt(cs[m], E, p, s, n, gap)
      /\ \A x \in 1..(m - 1) : \E i \in 1..n, j \in 1..(n - 1) : RunAt(cs[x], E, p, i, j, gap)
      /\ \A i \in 1..n, j \in 1..(n - 1) : i <= j /\ Run(p, i, j, gap) => \E x \in 1..(m - 1) : RunAt(cs[x], E, p, i, j, gap)

LEMMA ClusterTyped ==
  ASSUME NEW E, NEW cs \in Seq(Seq(E)), NEW e \in E, NEW gap
  PROVE  Cluster(cs, e, gap) \in Seq(Seq(E))
<1>1. <<e>> \in Seq(E)
  OBVIOUS
<1>2. Append(cs, <<e>>) \in Seq(Seq(E))
  BY <1>1, AppendProperties
<1>3. ASSUME cs # << >> PROVE [cs EXCEPT ![Len(cs)] = Append(cs[Len(cs)], e)] \in Seq(Seq(E))
  <2>1. Len(cs) \in 1..Len(cs) /\ cs[Len(cs)] \in Seq(E)
    BY <1>3
  <2> DEFINE c == Append(cs[Len(cs)], e)
  <2>2. c \in Seq(E)
    BY <2>1, AppendProperties
  <2> HIDE DEF c
  <2>3. [cs EXCEPT ![Len(cs)] = c] \in Seq(Seq(E))
    BY <2>1, <2>2, ExceptSeq
  <2> QED
    BY <2>3 DEF c
<1> QED
  BY <1>2, <1>3 DEF Cluster

Timed(E) == \A e \in E : e.at \in Int

\* A run that ended goes on as it is, one that reached the end ends or goes on.
LEMMA RunOn ==
  ASSUME NEW E, Timed(E), NEW p \in Seq(E), NEW e \in E, NEW gap \in Int, NEW i \in 1..Len(p), NEW j \in 1..Len(p), i <= j
  PROVE  LET n == Len(p)
             a == Append(p, e)
         IN  /\ j < n => (Run(a, i, j, gap) <=> Run(p, i, j, gap))
             /\ e.at - p[n].at > gap => (Run(a, i, n, gap) <=> Run(p, i, n, gap))
             /\ ~(e.at - p[n].at > gap) => ~Run(a, i, n, gap) /\ (Run(a, i, n + 1, gap) <=> Run(p, i, n, gap))
<1> DEFINE n == Len(p)
           a == Append(p, e)
<1>1. /\ n \in Nat /\ Len(a) = n + 1 /\ a[n + 1] = e /\ \A k \in 1..n : a[k] = p[k]
  BY AppendIs
<1>2. \A k \in 1..n : p[k] \in E /\ p[k].at \in Int
  BY DEF Timed
<1>3. e.at \in Int
  BY DEF Timed
<1> DEFINE StartsRun == i = 1 \/ p[i].at - p[IF i = 1 THEN 1 ELSE i - 1].at > gap
           Inner(k2) == \A k \in i..(k2 - 1) : p[k + 1].at - p[k].at <= gap
<1>4. a[i] = p[i] /\ a[IF i = 1 THEN 1 ELSE i - 1] = p[IF i = 1 THEN 1 ELSE i - 1]
  BY <1>1
<1>5. ASSUME NEW k2 \in 1..n PROVE (\A k \in i..(k2 - 1) : a[k + 1].at - a[k].at <= gap) <=> Inner(k2)
  <2>1. \A k \in i..(k2 - 1) : k \in 1..n /\ k + 1 \in 1..n
    BY <1>1
  <2>2. \A k \in i..(k2 - 1) : a[k + 1] = p[k + 1] /\ a[k] = p[k]
    BY <1>1, <2>1
  <2> QED
    BY <2>2
<1> HIDE DEF a
<1>6. ASSUME j < n PROVE Run(a, i, j, gap) <=> Run(p, i, j, gap)
  <2>1. j + 1 \in 1..n /\ j # n /\ j # n + 1
    BY <1>1, <1>6
  <2>2. a[j] = p[j] /\ a[j + 1] = p[j + 1]
    BY <1>1, <2>1
  <2> HIDE DEF n
  <2> QED
    BY <1>1, <1>4, <1>5, <2>1, <2>2 DEF Run, n
<1>7. n \in 1..n /\ n + 1 # n /\ a[n] = p[n]
  BY <1>1
<1>8. Run(p, i, n, gap) <=> Inner(n) /\ StartsRun
  BY DEF Run
<1>9. Run(a, i, n, gap) <=> Inner(n) /\ StartsRun /\ e.at - p[n].at > gap
  <2> HIDE DEF Inner
  <2> QED
    BY <1>1, <1>4, <1>5, <1>7 DEF Run
<1>10. Run(a, i, n + 1, gap) <=> Inner(n) /\ StartsRun /\ e.at - p[n].at <= gap
  <2>1. (\A k \in i..((n + 1) - 1) : a[k + 1].at - a[k].at <= gap) <=> Inner(n) /\ e.at - p[n].at <= gap
    <3>1. \A k \in i..((n + 1) - 1) : k \in i..(n - 1) \/ k = n
      BY <1>1
    <3>2. n \in i..((n + 1) - 1) /\ \A k \in i..(n - 1) : k \in i..((n + 1) - 1)
      BY <1>1
    <3>3. (\A k \in i..((n + 1) - 1) : a[k + 1].at - a[k].at <= gap)
             <=> (\A k \in i..(n - 1) : a[k + 1].at - a[k].at <= gap) /\ a[n + 1].at - a[n].at <= gap
      BY <3>1, <3>2
    <3> QED
      BY <1>1, <1>5, <1>7, <3>3
  <2> HIDE DEF Inner
  <2> QED
    BY <1>1, <1>4, <2>1 DEF Run
<1>11. p[n].at \in Int
  BY <1>2, <1>7
<1> HIDE DEF Inner, StartsRun, n
<1>12. (e.at - p[n].at <= gap) <=> ~(e.at - p[n].at > gap)
  BY <1>3, <1>11
<1> QED
  BY <1>6, <1>8, <1>9, <1>10, <1>12 DEF n, a

\* There is one run up to the end.
LEMMA OneRun ==
  ASSUME NEW E, Timed(E), NEW p \in Seq(E), NEW gap \in Int, NEW i \in 1..Len(p), NEW s \in 1..Len(p),
         Run(p, i, Len(p), gap), Run(p, s, Len(p), gap)
  PROVE  i = s
<1> DEFINE n == Len(p)
<1>1. n \in Nat /\ \A k \in 1..n : p[k].at \in Int
  BY DEF Timed
<1>2. ASSUME NEW x \in 1..n, NEW y \in 1..n, Run(p, x, n, gap), Run(p, y, n, gap), x < y PROVE FALSE
  <2>1. y # 1 /\ y - 1 \in x..(n - 1) /\ (y - 1) + 1 = y /\ y - 1 \in 1..n
    BY <1>1, <1>2
  <2>2. p[(y - 1) + 1].at - p[y - 1].at <= gap
    BY <1>2, <2>1 DEF Run
  <2>3. p[y].at - p[y - 1].at > gap
    BY <1>2, <2>1 DEF Run
  <2> QED
    BY <1>1, <2>1, <2>2, <2>3
<1> QED
  BY <1>1, <1>2

LEMMA PartOn ==
  ASSUME NEW E, NEW p \in Seq(E), NEW e \in E, NEW c, NEW i \in 1..Len(p), NEW j \in 1..Len(p), i <= j, IsPart(c, E, p, i, j - i + 1)
  PROVE  IsPart(c, E, Append(p, e), i, j - i + 1)
<1> DEFINE n == Len(p)
           a == Append(p, e)
<1>1. n \in Nat /\ \A k \in 1..n : a[k] = p[k]
  BY AppendIs
<1>2. \A k \in 1..(j - i + 1) : i + k - 1 \in 1..n
  BY <1>1
<1> HIDE DEF a, n
<1>3. \A k \in 1..(j - i + 1) : a[i + k - 1] = p[i + k - 1]
  BY <1>1, <1>2
<1>4. IsPart(c, E, a, i, j - i + 1)
  BY <1>3 DEF IsPart
<1> QED
  BY <1>4 DEF a

LEMMA PartGrows ==
  ASSUME NEW E, NEW p \in Seq(E), NEW e \in E, NEW c, NEW i \in 1..Len(p), IsPart(c, E, p, i, Len(p) - i + 1)
  PROVE  IsPart(Append(c, e), E, Append(p, e), i, (Len(p) + 1) - i + 1)
<1> DEFINE n == Len(p)
           m == n - i + 1
           a == Append(p, e)
           d == Append(c, e)
<1>1. n \in Nat /\ a[n + 1] = e /\ \A k \in 1..n : a[k] = p[k]
  BY AppendIs
<1>2. m \in Nat /\ m + 1 = (n + 1) - i + 1 /\ i + (m + 1) - 1 = n + 1 /\ \A k \in 1..m : i + k - 1 \in 1..n
  BY <1>1
<1>3. c \in Seq(E) /\ Len(c) = m /\ \A k \in 1..m : c[k] = p[i + k - 1]
  BY DEF IsPart
<1>4. d \in Seq(E) /\ Len(d) = m + 1 /\ d[m + 1] = e /\ \A k \in 1..m : d[k] = c[k]
  BY <1>3, AppendIs
<1> HIDE DEF a, d, n
<1>5. ASSUME NEW k \in 1..(m + 1) PROVE d[k] = a[i + k - 1]
  <2>1. k \in 1..m \/ k = m + 1
    BY <1>2
  <2> HIDE DEF m
  <2>2. CASE k \in 1..m
    BY <1>1, <1>2, <1>3, <1>4, <2>2
  <2>3. CASE k = m + 1
    BY <1>1, <1>2, <1>4, <2>3
  <2> QED
    BY <2>1, <2>2, <2>3
<1> HIDE DEF m
<1>6. IsPart(d, E, a, i, m + 1)
  BY <1>4, <1>5 DEF IsPart
<1> QED
  BY <1>2, <1>6 DEF n, a, d

LEMMA CutsFirst ==
  ASSUME NEW E, NEW e \in E, NEW gap
  PROVE  Cuts(Cluster(<< >>, e, gap), E, Append(<< >>, e), gap)
<1> DEFINE p == <<e>>
<1>1. Append(<< >>, e) = p /\ Cluster(<< >>, e, gap) = <<p>>
  BY DEF Cluster
<1>2. p \in Seq(E) /\ Len(p) = 1 /\ p[1] = e
  OBVIOUS
<1> HIDE DEF p
<1> DEFINE cs == <<p>>
<1>3. cs \in Seq(Seq(E)) /\ Len(cs) = 1 /\ cs[1] = p
  BY <1>2
<1> HIDE DEF cs
<1>4. Run(p, 1, 1, gap)
  BY <1>2 DEF Run
<1>5. IsPart(p, E, p, 1, 1)
  BY <1>2 DEF IsPart
<1>6. RunAt(cs[1], E, p, 1, 1, gap)
  BY <1>3, <1>4, <1>5 DEF RunAt
<1>7. Cuts(cs, E, p, gap)
  BY <1>2, <1>3, <1>6 DEF Cuts
<1> QED
  BY <1>1, <1>7 DEF cs

LEMMA CutsOn ==
  ASSUME NEW E, Timed(E), NEW p \in Seq(E), p # << >>, NEW e \in E, NEW gap \in Int, NEW cs, Cuts(cs, E, p, gap)
  PROVE  Cuts(Cluster(cs, e, gap), E, Append(p, e), gap)
<1> DEFINE n == Len(p)
           m == Len(cs)
           a == Append(p, e)
           c == cs[m]
           ds == Cluster(cs, e, gap)
           broken == e.at - p[n].at > gap
<1>1. n \in Nat /\ n > 0 /\ n \in 1..n
  OBVIOUS
<1>2. a \in Seq(E) /\ Len(a) = n + 1 /\ a[n + 1] = e /\ \A k \in 1..n : a[k] = p[k]
  BY AppendIs
<1>3. cs \in Seq(Seq(E)) /\ m \in Nat /\ m # 0
  BY <1>1 DEF Cuts
<1>4. m \in 1..m /\ c \in Seq(E) /\ cs # << >>
  BY <1>3
<1>5. PICK s \in 1..n : RunAt(c, E, p, s, n, gap)
  BY <1>1 DEF Cuts
<1>6. /\ \A x \in 1..(m - 1) : \E i \in 1..n, j \in 1..(n - 1) : RunAt(cs[x], E, p, i, j, gap)
      /\ \A i \in 1..n, j \in 1..(n - 1) : i <= j /\ Run(p, i, j, gap) => \E x \in 1..(m - 1) : RunAt(cs[x], E, p, i, j, gap)
  BY DEF Cuts
<1>7. c # << >> /\ Last(c) = p[n]
  <2>1. Len(c) = n - s + 1 /\ c[n - s + 1] = p[s + (n - s + 1) - 1] /\ s <= n
    BY <1>1, <1>5 DEF RunAt, IsPart
  <2>2. s + (n - s + 1) - 1 = n /\ n - s + 1 # 0
    BY <1>1
  <2> HIDE DEF c, n
  <2> QED
    BY <2>1, <2>2 DEF Last
<1>8. /\ \A i \in 1..n, j \in 1..(n - 1) : i <= j => (Run(a, i, j, gap) <=> Run(p, i, j, gap))
      /\ broken => \A i \in 1..n : Run(a, i, n, gap) <=> Run(p, i, n, gap)
      /\ ~broken => \A i \in 1..n : ~Run(a, i, n, gap) /\ (Run(a, i, n + 1, gap) <=> Run(p, i, n, gap))
  <2>1. \A j \in 1..(n - 1) : j \in 1..n /\ j < n
    BY <1>1
  <2>2. \A i \in 1..n : i <= n
    BY <1>1
  <2> QED
    BY <1>1, <2>1, <2>2, RunOn
<1>9. \A i \in 1..n : Run(p, i, n, gap) => i = s
  <2>1. Run(p, s, n, gap)
    BY <1>5 DEF RunAt
  <2> QED
    BY <2>1, OneRun
<1>10. ASSUME NEW d, NEW i \in 1..n, NEW j \in 1..(n - 1), RunAt(d, E, p, i, j, gap) PROVE RunAt(d, E, a, i, j, gap)
  <2>1. i <= j /\ Run(p, i, j, gap) /\ IsPart(d, E, p, i, j - i + 1) /\ j \in 1..n
    BY <1>1, <1>10 DEF RunAt
  <2>2. IsPart(d, E, a, i, j - i + 1)
    BY <2>1, PartOn
  <2> QED
    BY <1>8, <2>1, <2>2 DEF RunAt
<1> HIDE DEF a
<1>11. \A x \in 1..(m - 1) : \E i \in 1..(n + 1), j \in 1..n : RunAt(cs[x], E, a, i, j, gap)
  <2>1. \A i \in 1..n : i \in 1..(n + 1)
    BY <1>1
  <2>2. \A j \in 1..(n - 1) : j \in 1..n
    BY <1>1
  <2> QED
    BY <1>6, <1>10, <2>1, <2>2
<1>12. \A i \in 1..n, j \in 1..(n - 1) : i <= j /\ Run(a, i, j, gap) => \E x \in 1..(m - 1) : RunAt(cs[x], E, a, i, j, gap)
  BY <1>6, <1>8, <1>10
<1>13. \A i \in 1..(n + 1), j \in 1..((n + 1) - 1) : i <= j => i \in 1..n /\ (j \in 1..(n - 1) \/ j = n)
  BY <1>1
<1>14. ASSUME broken PROVE Cuts(ds, E, a, gap)
  <2> DEFINE one == <<e>>
             os == Append(cs, one)
  <2>1. ds = os
    BY <1>4, <1>7, <1>14 DEF Cluster, Last
  <2>2. one \in Seq(E) /\ Len(one) = 1 /\ one[1] = e
    OBVIOUS
  <2> HIDE DEF one
  <2>3. os \in Seq(Seq(E)) /\ Len(os) = m + 1 /\ os[m + 1] = one /\ \A x \in 1..m : os[x] = cs[x]
    BY <1>3, <2>2, AppendProperties
  <2> HIDE DEF os, c
  <2>4. RunAt(one, E, a, n + 1, n + 1, gap)
    <3>1. (n + 1) - 1 = n /\ n + 1 # 1 /\ n + 1 <= n + 1 /\ (n + 1) - (n + 1) + 1 = 1 /\ (n + 1)..((n + 1) - 1) = {}
      BY <1>1
    <3>2. a[n + 1].at - a[n].at > gap
      BY <1>1, <1>2, <1>14
    <3> HIDE DEF n
    <3>3. Run(a, n + 1, n + 1, gap)
      BY <1>2, <3>1, <3>2 DEF Run
    <3>4. \A k \in 1..1 : (n + 1) + k - 1 = n + 1 /\ k = 1
      BY <1>1
    <3>5. IsPart(one, E, a, n + 1, 1)
      BY <1>2, <2>2, <3>4 DEF IsPart
    <3> QED
      BY <3>1, <3>3, <3>5 DEF RunAt
  <2>5. RunAt(c, E, a, s, n, gap)
    <3>1. s <= n /\ Run(p, s, n, gap) /\ IsPart(c, E, p, s, n - s + 1)
      BY <1>5 DEF RunAt
    <3>2. IsPart(c, E, a, s, n - s + 1)
      BY <1>1, <3>1, PartOn DEF a
    <3> QED
      BY <1>8, <1>14, <3>1, <3>2 DEF RunAt
  <2>6. \A x \in 1..m : x \in 1..(m - 1) \/ x = m
    BY <1>3
  <2>7. \A x \in 1..(m - 1) : x \in 1..m
    BY <1>3
  <2>8. n + 1 \in 1..(n + 1) /\ s \in 1..(n + 1) /\ n \in 1..((n + 1) - 1) /\ (n + 1) - 1 = n /\ (m + 1) - 1 = m
    BY SMTT(60), <1>1, <1>3
  <2>9. \A x \in 1..m : \E i \in 1..(n + 1), j \in 1..n : RunAt(os[x], E, a, i, j, gap)
    BY ZenonT(60), <1>1, <1>11, <2>3, <2>5, <2>6, <2>8 DEF c
  <2>10. ASSUME NEW i \in 1..(n + 1), NEW j \in 1..n, i <= j, Run(a, i, j, gap)
         PROVE  \E x \in 1..m : RunAt(os[x], E, a, i, j, gap)
    <3>1. i \in 1..n /\ (j \in 1..(n - 1) \/ j = n)
      BY ZenonT(60), <1>13, <2>8, <2>10
    <3>2. CASE j \in 1..(n - 1)
      BY <1>12, <2>3, <2>7, <2>10, <3>1, <3>2
    <3>3. CASE j = n
      <4>1. i = s
        BY <1>8, <1>9, <1>14, <2>10, <3>1, <3>3
      <4> QED
        BY <1>4, <2>3, <2>5, <3>3, <4>1 DEF c
    <3> QED
      BY SMTT(60), <3>1, <3>2, <3>3
  <2> HIDE DEF n, m
  <2>11. Cuts(os, E, a, gap)
    <3>1. n + 1 > 0 /\ n + 1 # 0 /\ m + 1 # 0
      BY <1>1, <1>3
    <3> QED
      BY <1>2, <2>3, <2>4, <2>8, <2>9, <2>10, <3>1 DEF Cuts
  <2> QED
    BY <2>1, <2>11
<1>15. ASSUME ~broken PROVE Cuts(ds, E, a, gap)
  <2> DEFINE d == Append(c, e)
             os == [cs EXCEPT ![m] = d]
  <2>1. ds = os
    BY <1>4, <1>7, <1>15 DEF Cluster, Last
  <2>2. d \in Seq(E)
    BY <1>4, AppendProperties
  <2> HIDE DEF d
  <2>3. os \in Seq(Seq(E)) /\ Len(os) = m /\ os[m] = d /\ \A x \in 1..m : x # m => os[x] = cs[x]
    BY <1>3, <1>4, <2>2, ExceptSeq
  <2> HIDE DEF os
  <2>4. RunAt(d, E, a, s, n + 1, gap)
    <3>1. s <= n /\ Run(p, s, n, gap) /\ IsPart(c, E, p, s, n - s + 1)
      BY <1>5 DEF RunAt
    <3> HIDE DEF c
    <3>2. IsPart(Append(c, e), E, Append(p, e), s, (n + 1) - s + 1)
      BY <3>1, PartGrows
    <3>3. s <= n + 1
      BY <1>1
    <3>4. Run(a, s, n + 1, gap)
      BY <1>8, <1>15, <3>1
    <3> QED
      BY <3>2, <3>3, <3>4 DEF RunAt, d, a
  <2>7. \A x \in 1..(m - 1) : x \in 1..m /\ x # m
    BY <1>3
  <2>8. s \in 1..(n + 1) /\ (n + 1) - 1 = n
    BY <1>1, <1>3
  <2>9. \A x \in 1..(m - 1) : \E i \in 1..(n + 1), j \in 1..n : RunAt(os[x], E, a, i, j, gap)
    BY <1>11, <2>3, <2>7
  <2>10. ASSUME NEW i \in 1..(n + 1), NEW j \in 1..n, i <= j, Run(a, i, j, gap)
         PROVE  \E x \in 1..(m - 1) : RunAt(os[x], E, a, i, j, gap)
    <3>1. i \in 1..n /\ (j \in 1..(n - 1) \/ j = n)
      BY ZenonT(60), <1>13, <2>8, <2>10
    <3>2. j \in 1..(n - 1)
      BY <1>8, <1>15, <2>10, <3>1
    <3> QED
      BY <1>12, <2>3, <2>7, <2>10, <3>1, <3>2
  <2> HIDE DEF n, m
  <2>11. Cuts(os, E, a, gap)
    <3>1. n + 1 > 0 /\ n + 1 # 0
      BY <1>1
    <3> QED
      BY <1>2, <1>3, <2>3, <2>4, <2>8, <2>9, <2>10, <3>1 DEF Cuts
  <2> QED
    BY <2>1, <2>11
<1> QED
  BY <1>14, <1>15 DEF a

\* The clusters of a sequence of events are its runs.
LEMMA ClustersCut ==
  ASSUME NEW E, Timed(E), NEW gap \in Int, NEW q \in Seq(E)
  PROVE  Cuts(Clusters(q, gap), E, q, gap)
<1> DEFINE Z == {p \in Seq(E) : Cuts(Clusters(p, gap), E, p, gap)}
           V == Seq(Seq(E))
<1>1. << >> \in V /\ ClustersOver(E, V, gap)
  BY ClusterTyped DEF ClustersOver
<1>2. \A p \in Seq(E) : ClustersGoes(E, p, gap)
  <2> HIDE DEF V
  <2> QED
    BY <1>1, ClustersLaw
<1>3. << >> \in Z
  <2>1. << >> \in Seq(E)
    OBVIOUS
  <2>2. Clusters(<< >>, gap) = << >>
    BY <1>2, <2>1 DEF ClustersGoes
  <2>3. Cuts(<< >>, E, << >>, gap)
    BY DEF Cuts
  <2> QED
    BY <2>1, <2>2, <2>3
<1>4. ASSUME NEW p \in Seq(E), NEW e \in E, p \in Z PROVE Append(p, e) \in Z
  <2> DEFINE a == Append(p, e)
             cs == Clusters(p, gap)
  <2>1. a \in Seq(E) /\ Cuts(cs, E, p, gap)
    BY <1>4, AppendIs
  <2>2. Clusters(a, gap) = Cluster(cs, e, gap)
    BY <1>2 DEF ClustersGoes
  <2> HIDE DEF cs
  <2>3. Cuts(Cluster(cs, e, gap), E, a, gap)
    <3>1. CASE p = << >>
      <4>1. cs = << >>
        BY <2>1, <3>1 DEF Cuts
      <4> QED
        BY <3>1, <4>1, CutsFirst
    <3>2. CASE p # << >>
      BY <2>1, <3>2, CutsOn
    <3> QED
      BY <3>1, <3>2
  <2> HIDE DEF a
  <2> QED
    BY <2>1, <2>2, <2>3 DEF a
<1> HIDE DEF Z
<1>5. q \in Z
  BY <1>3, <1>4, SeqInduction
<1> QED
  BY <1>5 DEF Z

-----------------------------------------------------------------------------
(* The rows of a repetition.                                               *)

\* What is looked up in a stored event is what the event says.
LEMMA LookupsKept ==
  ASSUME NEW e, Whole(e), NEW q, NEW fs \in Seq(RequestFields(q)), \A f \in ToSet(fs) : Canonical(f)
  PROVE  Lookups(Kept(e, q), fs) = Lookups(e, fs)
<1> DEFINE d == Kept(e, q)
<1>1. ASSUME NEW i \in 1..Len(fs) PROVE Value(d, fs[i]) = Value(e, fs[i])
  <2> DEFINE f == fs[i]
  <2>1. f \in RequestFields(q) /\ f \in ToSet(fs)
    BY DEF ToSet
  <2>2. Canonical(f)
    BY <2>1
  <2> HIDE DEF f
  <2>3. Value(Kept(e, q), f) = Value(e, f)
    BY <2>1, <2>2, KeptValue
  <2> QED
    BY <2>3 DEF d, f
<1> HIDE DEF d
<1> QED
  BY <1>1 DEF Lookups, d

LEMMA ExtraKept ==
  ASSUME NEW e, Whole(e), NEW q, q.group_by \in Seq(RequestFields(q)), \A f \in ToSet(q.group_by) : Canonical(f)
  PROVE  Extra(Kept(e, q), q) = Extra(e, q)
<1> DEFINE d == Kept(e, q)
           g == q.group_by
<1>1. ASSUME NEW i \in DOMAIN g PROVE Value(d, g[i]) = Value(e, g[i]) /\ (Applicable(d, g[i]) <=> Applicable(e, g[i]))
  <2> DEFINE f == g[i]
  <2>1. f \in RequestFields(q) /\ f \in ToSet(g)
    BY DEF ToSet
  <2>2. Canonical(f)
    BY <2>1
  <2> HIDE DEF f
  <2>3. Value(Kept(e, q), f) = Value(e, f) /\ (Applicable(Kept(e, q), f) <=> Applicable(e, f))
    BY <2>1, <2>2, KeptValue
  <2> QED
    BY <2>3 DEF d, f
<1> HIDE DEF d
<1> DEFINE I(x) == {j \in DOMAIN g : g[j] \notin ToSet(q.fields) /\ Applicable(x, g[j])}
<1>2. I(d) = I(e)
  BY <1>1
<1>3. Extra(d, q) = [i \in I(d) |-> Value(d, g[i])] /\ Extra(e, q) = [i \in I(e) |-> Value(e, g[i])]
  BY DEF Extra
<1>4. \A i \in I(e) : Value(d, g[i]) = Value(e, g[i])
  BY <1>1
<1> HIDE DEF I
<1>5. Extra(d, q) = Extra(e, q)
  BY <1>2, <1>3, <1>4
<1> QED
  BY <1>5 DEF d

\* A repetition that can be asked: its key and its groups name fields that are stored.
Repeats(q) ==
  /\ q.min \in Nat \ {0} /\ q.gap \in Int
  /\ q.fields \in Seq(RequestFields(q)) /\ q.group_by \in Seq(RequestFields(q))
  /\ \A f \in ToSet(q.fields) \cup ToSet(q.group_by) : Canonical(f)

\* The row of the run of o from i to j, and all of them.
RunRow(o, k, i, j, q) ==
  [customer |-> o[i].customer, values |-> k, extra |-> Extra(o[i + q.min - 1], q),
   count |-> j - i + 1, first |-> o[i].at, last |-> o[j].at, anchor |-> Kept(o[i + q.min - 1], q)]

RunRows(o, k, q) ==
  {RunRow(o, k, x[1], x[2], q) : x \in {y \in (DOMAIN o) \X (DOMAIN o) :
                                          y[2] - y[1] + 1 >= q.min /\ Run(o, y[1], y[2], q.gap)}}

\* The rows of the clusters of the stored events.
ClusterRows(m, k, q) == {RepetitionRow(k, c, q) : c \in {d \in ToSet(Clusters(m, q.gap)) : Len(d) >= q.min}}

Storing(M, E, q) == M = [e \in E |-> Kept(e, q)] /\ \A e \in E : Whole(e)

LEMMA MappedRun ==
  ASSUME NEW E, NEW q, NEW M, Storing(M, E, q), NEW D, M \in [E -> D], NEW o \in Seq(E), NEW gap,
         NEW i \in 1..Len(o), NEW j \in 1..Len(o)
  PROVE  Run(MappedBy(o, M), i, j, gap) <=> Run(o, i, j, gap)
<1> DEFINE m == MappedBy(o, M)
           n == Len(o)
<1>0. IsMapped(m, o, M, D) /\ n \in Nat /\ \A k \in 1..n : o[k] \in E
  BY MappedIs
<1>1. n \in Nat /\ Len(m) = n /\ \A k \in 1..n : m[k] = M[o[k]] /\ o[k] \in E
  BY <1>0 DEF IsMapped
<1>2. \A e \in E : M[e].at = e.at
  BY KeptIs DEF Storing
<1> HIDE DEF m
<1>3. \A k \in 1..n : m[k].at = o[k].at
  BY <1>1, <1>2
<1>4. \A k \in i..(j - 1) : k \in 1..n /\ k + 1 \in 1..n
  BY <1>1
<1>5. (IF i = 1 THEN 1 ELSE i - 1) \in 1..n /\ (IF j = n THEN j ELSE j + 1) \in 1..n
  BY <1>1
<1> HIDE DEF n
<1>6. Run(m, i, j, gap) <=> Run(o, i, j, gap)
  <2>1. (\A k \in i..(j - 1) : m[k + 1].at - m[k].at <= gap) <=> (\A k \in i..(j - 1) : o[k + 1].at - o[k].at <= gap)
    BY <1>3, <1>4
  <2> DEFINE u == IF i = 1 THEN 1 ELSE i - 1
             v == IF j = n THEN j ELSE j + 1
  <2>2. u \in 1..n /\ v \in 1..n /\ i \in 1..n /\ j \in 1..n
    BY <1>5 DEF n
  <2> HIDE DEF u, v
  <2>3. m[i].at = o[i].at /\ m[j].at = o[j].at /\ m[u].at = o[u].at /\ m[v].at = o[v].at
    BY <1>3, <2>2
  <2>4. Len(m) = n /\ Len(o) = n
    BY <1>1 DEF n
  <2> QED
    BY <2>1, <2>3, <2>4 DEF Run, u, v
<1> QED
  BY <1>6 DEF m

\* c is long enough a part of the stored events, from i to j.
LongPart(c, D, o, M, i, j, q) ==
  /\ i \in 1..Len(o) /\ j \in 1..Len(o) /\ j - i + 1 >= q.min
  /\ IsPart(c, D, MappedBy(o, M), i, j - i + 1)

LEMMA RowIs ==
  ASSUME NEW E, NEW q, Repeats(q), NEW M, Storing(M, E, q), NEW D, M \in [E -> D], NEW o \in Seq(E), NEW k, NEW c,
         NEW i, NEW j, LongPart(c, D, o, M, i, j, q)
  PROVE  RepetitionRow(k, c, q) = RunRow(o, k, i, j, q)
<1> DEFINE m == MappedBy(o, M)
           n == Len(o)
           l == q.min
           s == j - i + 1
           p == i + l - 1
<1> i \in 1..n /\ j \in 1..n /\ s >= l /\ IsPart(c, D, m, i, s)
  BY DEF LongPart
<1>0. IsMapped(m, o, M, D) /\ n \in Nat /\ \A x \in 1..n : o[x] \in E
  BY MappedIs
<1>1. n \in Nat /\ Len(m) = n /\ \A x \in 1..n : m[x] = M[o[x]] /\ o[x] \in E
  BY <1>0 DEF IsMapped
<1>2. l \in Nat \ {0} /\ s \in Nat
  BY DEF Repeats
<1>3. 1 \in 1..s /\ l \in 1..s /\ s \in 1..s /\ i + 1 - 1 = i /\ i + s - 1 = j /\ p \in 1..n
  BY <1>1, <1>2
<1>4. c \in Seq(D) /\ Len(c) = s /\ \A x \in 1..s : c[x] = m[i + x - 1]
  BY DEF IsPart
<1> HIDE DEF m, n, s
<1>5. c[1] = M[o[i]] /\ c[s] = M[o[j]] /\ c[l] = M[o[p]]
  BY <1>1, <1>3, <1>4 DEF n
<1>6. Last(c) = c[s]
  BY <1>4 DEF Last
<1>7. o[i] \in E /\ o[j] \in E /\ o[p] \in E
  BY <1>1, <1>3 DEF n
<1> DEFINE a == o[i]
           z == o[j]
           b == o[p]
<1> HIDE DEF a, z, b
<1>8. M[a] = Kept(a, q) /\ M[z] = Kept(z, q) /\ M[b] = Kept(b, q) /\ Whole(a) /\ Whole(b) /\ Whole(z)
  BY <1>7 DEF Storing, a, z, b
<1>9. M[a].customer = a.customer /\ M[a].at = a.at /\ M[z].at = z.at
  BY <1>8, KeptIs
<1>10. Extra(Kept(b, q), q) = Extra(b, q)
  <2>1. q.group_by \in Seq(RequestFields(q)) /\ \A f \in ToSet(q.group_by) : Canonical(f)
    BY DEF Repeats
  <2> QED
    BY <1>8, <2>1, ExtraKept
<1>11. RepetitionRow(k, c, q) = [customer |-> a.customer, values |-> k, extra |-> Extra(b, q), count |-> s,
                                 first |-> a.at, last |-> z.at, anchor |-> Kept(b, q)]
  BY <1>4, <1>5, <1>6, <1>8, <1>9, <1>10 DEF RepetitionRow, a, b, z, l
<1> QED
  BY <1>11 DEF RunRow, a, b, z, p, s, l

\* The rows are those of the runs that are long enough, whatever was stored of the events.
LEMMA RowsAre ==
  ASSUME NEW E, NEW q, Repeats(q), NEW M, Storing(M, E, q), Timed(E), NEW o \in Seq(E), NEW k
  PROVE  ClusterRows(MappedBy(o, M), k, q) = RunRows(o, k, q)
<1> DEFINE m == MappedBy(o, M)
           n == Len(o)
           D == {M[e] : e \in E}
           cs == Clusters(m, q.gap)
           l == q.min
<1>1. M \in [E -> D]
  BY DEF Storing
<1> HIDE DEF D
<1>2. m \in Seq(D) /\ Len(m) = n
  <2>1. IsMapped(m, o, M, D)
    BY <1>1, MappedIs
  <2> QED
    BY <2>1 DEF IsMapped
<1>3. Timed(D)
  <2>1. \A e \in E : M[e].at = e.at
    BY KeptIs DEF Storing
  <2> QED
    BY <2>1 DEF Timed, D
<1>4. Cuts(cs, D, m, q.gap)
  <2>1. q.gap \in Int
    BY DEF Repeats
  <2> HIDE DEF m
  <2> QED
    BY <1>2, <1>3, <2>1, ClustersCut
<1> HIDE DEF cs
<1>5. n \in Nat /\ l \in Nat \ {0} /\ DOMAIN o = 1..n
  BY DEF Repeats
<1>6. ASSUME NEW c \in ToSet(cs) PROVE \E i \in 1..n, j \in 1..n : RunAt(c, D, m, i, j, q.gap)
  <2> DEFINE z == Len(cs)
  <2>1. z \in Nat /\ DOMAIN cs = 1..z
    BY <1>4 DEF Cuts
  <2>2. PICK x \in 1..z : c = cs[x]
    BY <2>1 DEF ToSet
  <2>3. n > 0
    BY <1>2, <1>5, <2>1, <2>2, <1>4 DEF Cuts
  <2> HIDE DEF z
  <2>4. x \in 1..(z - 1) \/ x = z
    BY <2>1, <2>2
  <2> HIDE DEF z, m, n
  <2>5. CASE x \in 1..(z - 1)
    <3>1. PICK i \in 1..n, j \in 1..(n - 1) : RunAt(c, D, m, i, j, q.gap)
      BY <1>2, <1>4, <2>2, <2>5 DEF Cuts, z
    <3>2. j \in 1..n
      BY <1>5
    <3> QED
      BY <3>1, <3>2
  <2>6. CASE x = z
    <3>1. PICK i \in 1..n : RunAt(c, D, m, i, n, q.gap)
      BY <1>2, <1>4, <2>2, <2>3, <2>6 DEF Cuts, z
    <3>2. n \in 1..n
      BY <1>5, <2>3
    <3> QED
      BY <3>1, <3>2
  <2> QED
    BY <2>4, <2>5, <2>6
<1>7. ASSUME NEW i \in 1..n, NEW j \in 1..n, i <= j, Run(m, i, j, q.gap)
      PROVE  \E c \in ToSet(cs) : RunAt(c, D, m, i, j, q.gap)
  <2> DEFINE z == Len(cs)
  <2>1. z \in Nat /\ DOMAIN cs = 1..z /\ n > 0
    BY <1>4, <1>5 DEF Cuts
  <2>2. z # 0
    BY <1>2, <1>4, <2>1 DEF Cuts
  <2>3. z \in 1..z /\ \A x \in 1..(z - 1) : x \in 1..z
    BY <2>1, <2>2
  <2>4. \A x \in 1..z : cs[x] \in ToSet(cs)
    BY <2>1 DEF ToSet
  <2> HIDE DEF z, m, n
  <2>5. j \in 1..(n - 1) \/ j = n
    BY <1>5
  <2>6. CASE j \in 1..(n - 1)
    <3>1. PICK x \in 1..(z - 1) : RunAt(cs[x], D, m, i, j, q.gap)
      BY <1>2, <1>4, <1>7, <2>6 DEF Cuts, z
    <3> QED
      BY <2>3, <2>4, <3>1
  <2>7. CASE j = n
    <3>1. PICK s \in 1..n : RunAt(cs[z], D, m, s, n, q.gap)
      BY <1>2, <1>4, <2>1 DEF Cuts, z
    <3>2. Run(m, s, n, q.gap) /\ Run(m, i, n, q.gap)
      BY <1>7, <2>7, <3>1 DEF RunAt
    <3>3. q.gap \in Int
      BY DEF Repeats
    <3>4. i = s
      BY <1>2, <1>3, <3>2, <3>3, OneRun
    <3> QED
      BY <2>3, <2>4, <2>7, <3>1, <3>4
  <2> QED
    BY <2>5, <2>6, <2>7
<1>8. \A i \in 1..n, j \in 1..n : Run(m, i, j, q.gap) <=> Run(o, i, j, q.gap)
  BY <1>1, MappedRun
<1>9. \A i \in 1..n, j \in 1..n : j - i + 1 >= l => i <= j
  BY <1>5
<1> DEFINE Long == {d \in ToSet(cs) : Len(d) >= l}
           Of(c, i, j) == RunAt(c, D, m, i, j, q.gap)
           Row(c) == RepetitionRow(k, c, q)
<1>10. ASSUME NEW c, NEW i \in 1..n, NEW j \in 1..n, Of(c, i, j)
       PROVE  Len(c) = j - i + 1 /\ (j - i + 1 >= l => Row(c) = RunRow(o, k, i, j, q))
  <2>1. IsPart(c, D, m, i, j - i + 1)
    BY <1>10 DEF RunAt
  <2>2. Len(c) = j - i + 1
    BY <2>1 DEF IsPart
  <2>3. ASSUME j - i + 1 >= q.min PROVE RepetitionRow(k, c, q) = RunRow(o, k, i, j, q)
    <3>1. i \in 1..Len(o) /\ j \in 1..Len(o)
      OBVIOUS
    <3>2. IsPart(c, D, MappedBy(o, M), i, j - i + 1)
      BY <2>1
    <3>3. LongPart(c, D, o, M, i, j, q)
      BY <2>3, <3>1, <3>2 DEF LongPart
    <3> QED
      BY <1>1, <3>3, RowIs
  <2> QED
    BY <2>2, <2>3
<1>11. ASSUME NEW c \in Long PROVE Row(c) \in RunRows(o, k, q)
  <2>1. PICK i \in 1..n, j \in 1..n : Of(c, i, j)
    BY <1>6
  <2>2. j - i + 1 >= l /\ Row(c) = RunRow(o, k, i, j, q)
    BY <1>10, <2>1
  <2>3. Run(o, i, j, q.gap)
    BY <1>8, <2>1 DEF RunAt
  <2> DEFINE x == <<i, j>>
  <2>4. x \in (DOMAIN o) \X (DOMAIN o) /\ x[1] = i /\ x[2] = j
    BY <1>5
  <2> HIDE DEF x, Row, n
  <2>5. RunRow(o, k, x[1], x[2], q) \in RunRows(o, k, q)
    BY <2>2, <2>3, <2>4 DEF RunRows
  <2> QED
    BY <2>2, <2>4, <2>5
<1>12. ASSUME NEW r \in RunRows(o, k, q) PROVE r \in {Row(c) : c \in Long}
  <2>1. PICK x \in (DOMAIN o) \X (DOMAIN o) :
           x[2] - x[1] + 1 >= l /\ Run(o, x[1], x[2], q.gap) /\ r = RunRow(o, k, x[1], x[2], q)
    BY DEF RunRows
  <2> DEFINE i == x[1]
             j == x[2]
  <2>2. i \in 1..n /\ j \in 1..n
    BY <1>5
  <2> HIDE DEF i, j
  <2>3. j - i + 1 >= l /\ Run(o, i, j, q.gap) /\ r = RunRow(o, k, i, j, q)
    BY <2>1 DEF i, j
  <2> HIDE DEF Of
  <2>4. PICK c \in ToSet(cs) : Of(c, i, j)
    BY <1>7, <1>8, <1>9, <2>2, <2>3 DEF Of
  <2>5. Len(c) >= l /\ r = Row(c)
    BY <1>10, <2>2, <2>3, <2>4
  <2> HIDE DEF Row
  <2> QED
    BY <2>5
<1> HIDE DEF Row
<1>13. {Row(c) : c \in Long} = RunRows(o, k, q)
  BY <1>11, <1>12
<1> QED
  BY <1>13 DEF ClusterRows, Row, cs, m, l

-----------------------------------------------------------------------------
(* What is stored of each customer.                                        *)

StoredOf(E, q) == {e \in E : Stored(e, q)}
CustomersOwn(E, c, q) == {e \in E : e.customer = c /\ Stored(e, q)}
AsStored(E, q) == [e \in E |-> Kept(e, q)]
Work(events, E, c, q) == MappedBy(Only(events, CustomersOwn(E, c, q)), AsStored(E, q))

LEMMA OwnIs ==
  ASSUME NEW E, NEW events \in Seq(E), ToSet(events) = E, NEW q, NEW c, NEW stored, stored = Only(events, StoredOf(E, q))
  PROVE  /\ ToSet(stored) = StoredOf(E, q)
         /\ Only(stored, {e \in ToSet(stored) : e.customer = c}) = Only(events, CustomersOwn(E, c, q))
<1> DEFINE S == StoredOf(E, q)
           T == {e \in S : e.customer = c}
           C == CustomersOwn(E, c, q)
           U == S \cap T
<1>1. S \subseteq E /\ \A e \in E : e \in U <=> e \in C
  BY DEF StoredOf, CustomersOwn
<1> HIDE DEF S, T, C, U
<1>2. ToSet(stored) = S
  <2>1. ToSet(Only(events, S)) = ToSet(events) \cap S
    BY OnlyHas
  <2> QED
    BY <1>1, <2>1 DEF S
<1>3. Only(stored, T) = Only(events, U)
  BY OnlyOnly DEF S, U
<1>4. Only(events, U) = Only(events, C)
  BY <1>1, OnlySame
<1> QED
  BY <1>2, <1>3, <1>4 DEF S, T, C

LEMMA WorkIs ==
  ASSUME NEW E, NEW events \in Seq(E), NEW q, NEW c, NEW own, own = Only(events, CustomersOwn(E, c, q))
  PROVE  [i \in DOMAIN own |-> Kept(own[i], q)] = Work(events, E, c, q)
<1>1. own \in Seq(E)
  BY OnlyHas
<1>2. \A i \in DOMAIN own : own[i] \in E
  BY <1>1
<1>3. \A i \in DOMAIN own : AsStored(E, q)[own[i]] = Kept(own[i], q)
  BY <1>2 DEF AsStored
<1> QED
  BY <1>3 DEF Work, MappedBy

RowsOf(m, q) == IF q.mode = "repetition" THEN RepetitionMatches(m, q) ELSE SequenceMatches(m, q)

LEMMA SequencesAre ==
  ASSUME NEW E, NEW events \in Seq(E), ToSet(events) = E, NEW q
  PROVE  Sequences(events, q, FALSE) = UNION {RowsOf(Work(events, E, c, q), q) : c \in {e.customer : e \in StoredOf(E, q)}}
<1> DEFINE stored == Only(events, {e \in ToSet(events) : Stored(e, q)})
           own(c) == Only(stored, {e \in ToSet(stored) : e.customer = c})
           work(c) == [i \in DOMAIN own(c) |-> Kept(own(c)[i], q)]
           customers == {e.customer : e \in StoredOf(E, q)}
<1>1. ASSUME NEW c PROVE ToSet(stored) = StoredOf(E, q) /\ own(c) = Only(events, CustomersOwn(E, c, q))
  <2>1. stored = Only(events, StoredOf(E, q))
    BY DEF StoredOf
  <2> HIDE DEF stored
  <2> QED
    BY <2>1, OwnIs
<1>2. ASSUME NEW c PROVE work(c) = Work(events, E, c, q)
  <2> DEFINE o == own(c)
  <2>1. o = Only(events, CustomersOwn(E, c, q))
    BY <1>1
  <2> HIDE DEF o
  <2>2. [i \in DOMAIN o |-> Kept(o[i], q)] = Work(events, E, c, q)
    BY <2>1, WorkIs
  <2> QED
    BY <2>2 DEF o
<1>4. Sequences(events, q, FALSE) = UNION {RowsOf(work(c), q) : c \in {e.customer : e \in ToSet(stored)}}
  BY Zenon DEF Sequences, Those, RowsOf
<1>5. {e.customer : e \in ToSet(stored)} = customers
  BY <1>1
<1> HIDE DEF work, stored, customers
<1>6. \A c : RowsOf(work(c), q) = RowsOf(Work(events, E, c, q), q)
  BY <1>2
<1>7. Sequences(events, q, FALSE) = UNION {RowsOf(Work(events, E, c, q), q) : c \in customers}
  BY <1>4, <1>5, <1>6
<1> QED
  BY <1>7 DEF customers

KeyOf(E, c, k, q) == {e \in E : e.customer = c /\ Stored(e, q) /\ Lookups(e, q.fields) = k}

\* The stored events of one key are the customer's events of that key, as they are stored.
LEMMA KeyedWork ==
  ASSUME NEW E, NEW events \in Seq(E), ToSet(events) = E, \A e \in E : Whole(e), NEW q, Repeats(q), NEW c
  PROVE  /\ {Lookups(d, q.fields) : d \in ToSet(Work(events, E, c, q))} = {Lookups(e, q.fields) : e \in CustomersOwn(E, c, q)}
         /\ \A k : Only(Work(events, E, c, q), {d \in ToSet(Work(events, E, c, q)) : Lookups(d, q.fields) = k})
                     = MappedBy(Only(events, KeyOf(E, c, k, q)), AsStored(E, q))
<1> DEFINE M == AsStored(E, q)
           D == {Kept(e, q) : e \in E}
           C == CustomersOwn(E, c, q)
           own == Only(events, C)
           m == Work(events, E, c, q)
           key(e) == Lookups(e, q.fields)
<1>1. M \in [E -> D] /\ \A e \in E : M[e] = Kept(e, q)
  BY DEF AsStored
<1>2. C \subseteq E
  BY DEF CustomersOwn
<1>3. \A e \in E : key(M[e]) = key(e)
  <2>1. q.fields \in Seq(RequestFields(q)) /\ \A f \in ToSet(q.fields) : Canonical(f)
    BY DEF Repeats
  <2> QED
    BY <1>1, <2>1, LookupsKept
<1> HIDE DEF M, C, key
<1>4. own \in Seq(E) /\ ToSet(own) = C
  <2>1. own \in Seq(E) /\ ToSet(own) = ToSet(events) \cap C
    BY OnlyHas
  <2> QED
    BY <1>2, <2>1
<1>5. m = MappedBy(own, M)
  BY DEF Work, M, C
<1> HIDE DEF own, m
<1>6. IsMapped(m, own, M, D)
  <2> HIDE DEF D
  <2> QED
    BY <1>1, <1>4, <1>5, MappedIs
<1>7. ToSet(m) = {M[e] : e \in C}
  <2>1. DOMAIN m = DOMAIN own /\ DOMAIN own = 1..Len(own) /\ \A i \in 1..Len(own) : m[i] = M[own[i]]
    BY <1>4, <1>6 DEF IsMapped
  <2>2. ToSet(m) = {m[i] : i \in 1..Len(own)} /\ C = {own[i] : i \in 1..Len(own)}
    BY <1>4, <2>1 DEF ToSet
  <2> QED
    BY <2>1, <2>2
<1>8. {key(d) : d \in ToSet(m)} = {key(e) : e \in C}
  BY <1>2, <1>3, <1>7
<1>9. ASSUME NEW k PROVE Only(m, {d \in ToSet(m) : key(d) = k}) = MappedBy(Only(events, KeyOf(E, c, k, q)), M)
  <2> DEFINE T == {d \in ToSet(m) : key(d) = k}
             R == {e \in E : M[e] \in T}
             K == KeyOf(E, c, k, q)
             U == C \cap R
  <2>1. \A e \in E : e \in U <=> e \in K
    BY <1>3, <1>7 DEF KeyOf, CustomersOwn, key, C
  <2> HIDE DEF T, K, D
  <2>5. Preimage(R, E, D, M, T)
    BY <1>1 DEF Preimage
  <2> HIDE DEF R, U
  <2>2. Only(MappedBy(own, M), T) = MappedBy(Only(own, R), M)
    BY <1>4, <2>5, MappedOnly
  <2>3. Only(own, R) = Only(events, U)
    BY OnlyOnly DEF own, U
  <2>4. Only(events, U) = Only(events, K)
    BY <2>1, OnlySame
  <2> QED
    BY <1>5, <2>2, <2>3, <2>4 DEF T, K
<1> QED
  BY <1>8, <1>9 DEF m, key, M, C

\* A repetition reports the maximal runs of equal keys that are long enough, whatever was
\* stored of the events.
LEMMA RepetitionHolds ==
  ASSUME NEW events \in Timelines, NEW q \in Queries, q.mode = "repetition"
  PROVE  RepetitionSound(events, q)
<1> DEFINE E == ToSet(events)
           M == AsStored(E, q)
           key(e) == Lookups(e, q.fields)
           own(c, k) == Only(events, KeyOf(E, c, k, q))
           S == StoredOf(E, q)
           m(c) == Work(events, E, c, q)
<1>1. events \in Seq(E) /\ (\A e \in E : Whole(e)) /\ Timed(E)
  BY TimelinesAssumption DEF Whole, Timed
<1>2. Repeats(q)
  <2>1. RequestFields(q) = ToSet(q.group_by) \cup (ToSet(q.fields) \cup Asked(q.predicates))
    BY DEF RequestFields
  <2>2. q.group_by \in Seq(ToSet(q.group_by)) /\ q.fields \in Seq(ToSet(q.fields)) /\ q.min \in Nat \ {0} /\ q.gap \in Int
    BY QueriesAssumption
  <2>3. \A f \in ToSet(q.fields) \cup ToSet(q.group_by) : Canonical(f)
    BY QueriesAssumption, DescribedIs
  <2> HIDE DEF E
  <2>4. q.group_by \in Seq(RequestFields(q)) /\ q.fields \in Seq(RequestFields(q))
    BY <2>1, <2>2
  <2> QED
    BY <2>2, <2>3, <2>4 DEF Repeats
<1>3. Sequences(events, q, FALSE) = UNION {RowsOf(m(c), q) : c \in {e.customer : e \in S}}
  BY ZenonT(60), <1>1, SequencesAre
<1> HIDE DEF E
<1>4. ASSUME NEW c PROVE RowsOf(m(c), q) = UNION {RunRows(own(c, k), k, q) : k \in {key(e) : e \in CustomersOwn(E, c, q)}}
  <2> DEFINE w == m(c)
             of(k) == Only(w, {d \in ToSet(w) : key(d) = k})
  <2>1. RowsOf(w, q) = UNION {ClusterRows(of(k), k, q) : k \in {key(d) : d \in ToSet(w)}}
    <3> HIDE DEF w
    <3> QED
      BY DEF RowsOf, RepetitionMatches, ClusterRows, Those
  <2>2. {key(d) : d \in ToSet(w)} = {key(e) : e \in CustomersOwn(E, c, q)} /\ \A k : of(k) = MappedBy(own(c, k), M)
    BY <1>1, <1>2, KeyedWork DEF E
  <2>3. ASSUME NEW k PROVE ClusterRows(of(k), k, q) = RunRows(own(c, k), k, q)
    <3> DEFINE o == own(c, k)
    <3>1. o \in Seq(E)
      BY <1>1, OnlyHas
    <3>2. Storing(M, E, q)
      BY <1>1 DEF Storing, AsStored
    <3> HIDE DEF o, M
    <3>3. ClusterRows(MappedBy(o, M), k, q) = RunRows(o, k, q)
      BY <1>1, <1>2, <3>1, <3>2, RowsAre
    <3>4. of(k) = MappedBy(o, M)
      BY <2>2 DEF o, M
    <3> QED
      BY <3>3, <3>4 DEF o
  <2> HIDE DEF w, of, own, key
  <2> QED
    BY <2>1, <2>2, <2>3 DEF w
<1> HIDE DEF m, own, key
<1>5. UNION {RowsOf(m(c), q) : c \in {e.customer : e \in S}} = UNION {RunRows(own(x.customer, key(x)), key(x), q) : x \in S}
  <2>1. \A x \in S : x \in CustomersOwn(E, x.customer, q)
    BY DEF StoredOf, CustomersOwn
  <2>2. \A c : \A e \in CustomersOwn(E, c, q) : e \in S /\ e.customer = c
    BY DEF StoredOf, CustomersOwn
  <2> HIDE DEF S
  <2>3. ASSUME NEW r \in UNION {RowsOf(m(c), q) : c \in {e.customer : e \in S}}
        PROVE  r \in UNION {RunRows(own(x.customer, key(x)), key(x), q) : x \in S}
    <3>1. PICK c : r \in RowsOf(m(c), q)
      OBVIOUS
    <3>2. PICK e \in CustomersOwn(E, c, q) : r \in RunRows(own(c, key(e)), key(e), q)
      BY <1>4, <3>1
    <3> QED
      BY <2>2, <3>2
  <2>4. ASSUME NEW r \in UNION {RunRows(own(x.customer, key(x)), key(x), q) : x \in S}
        PROVE  r \in UNION {RowsOf(m(c), q) : c \in {e.customer : e \in S}}
    <3>1. PICK x \in S : r \in RunRows(own(x.customer, key(x)), key(x), q)
      OBVIOUS
    <3>2. r \in RowsOf(m(x.customer), q)
      BY <1>4, <2>1, <3>1
    <3> QED
      BY <3>2
  <2> QED
    BY <2>3, <2>4
<1>6. Sequences(events, q, TRUE) = {}
  BY DEF Sequences
<1>7. RepetitionSound(events, q)
       <=> /\ Sequences(events, q, FALSE) = UNION {RunRows(own(x.customer, key(x)), key(x), q) : x \in S}
           /\ Sequences(events, q, TRUE) = {}
  BY DEF RepetitionSound, RunRows, RunRow, own, key, S, StoredOf, KeyOf, E, Those
<1> QED
  BY <1>3, <1>5, <1>6, <1>7

-----------------------------------------------------------------------------
(* The n-th of a set of places.                                            *)

Placed(S) == \E n \in Nat : S \in SUBSET (1..n)

UpTo(S, b) == {j \in S : j <= b}

LEMMA UpToIs ==
  ASSUME NEW S, Placed(S), NEW b \in Int
  PROVE  IsFiniteSet(S) /\ Cardinality(S) \in Nat /\ IsFiniteSet(UpTo(S, b)) /\ Cardinality(UpTo(S, b)) \in Nat
<1>1. PICK n \in Nat : S \in SUBSET (1..n)
  BY DEF Placed
<1>2. IsFiniteSet(1..n)
  BY IntervalIs
<1>3. UpTo(S, b) \in SUBSET (1..n)
  BY <1>1 DEF UpTo
<1> QED
  BY <1>1, <1>2, <1>3, FS_Subset, FS_CardinalityType

LEMMA UpToGrows ==
  ASSUME NEW S, Placed(S), NEW b \in Int
  PROVE  Cardinality(UpTo(S, b)) = IF b \in S THEN Cardinality(UpTo(S, b - 1)) + 1 ELSE Cardinality(UpTo(S, b - 1))
<1> DEFINE low == UpTo(S, b - 1)
           high == UpTo(S, b)
<1>1. IsFiniteSet(low) /\ IsFiniteSet(high)
  BY UpToIs
<1>2. \A j \in S : (j <= b <=> j <= b - 1 \/ j = b) /\ ~(b <= b - 1)
  <2>1. \A j \in S : j \in Int
    BY DEF Placed
  <2> QED
    BY <2>1
<1>3. CASE b \in S
  <2>1. high = low \cup {b} /\ b \notin low
    BY <1>2, <1>3 DEF UpTo
  <2> HIDE DEF low, high
  <2>2. Cardinality(high) = Cardinality(low) + 1
    BY <1>1, <2>1, FS_AddElement
  <2> QED
    BY <1>3, <2>2 DEF low, high
<1>4. CASE b \notin S
  <2>1. high = low
    BY <1>2, <1>4 DEF UpTo
  <2> HIDE DEF low, high
  <2> QED
    BY <1>4, <2>1 DEF low, high
<1> QED
  BY <1>3, <1>4

LEMMA UpToWider ==
  ASSUME NEW S, Placed(S), NEW T \in SUBSET S
  PROVE  Cardinality(T) <= Cardinality(S) /\ \A b \in Int : T \in SUBSET (UpTo(S, b)) => Cardinality(T) <= Cardinality(UpTo(S, b))
<1>1. IsFiniteSet(S) /\ \A b \in Int : IsFiniteSet(UpTo(S, b))
  BY UpToIs
<1> QED
  BY <1>1, FS_Subset

\* It is in the set, ends the first n of them, and no n of them end earlier.
NthOf(S, k, x) == x \in S /\ Cardinality(UpTo(S, x)) = k /\ \A y \in S : Cardinality(UpTo(S, y)) >= k => x <= y

LEMMA NthIs ==
  ASSUME NEW S, Placed(S), NEW k \in Nat \ {0}, Cardinality(S) >= k
  PROVE  NthOf(S, k, Nth(S, k))
<1>0. PICK n \in Nat : S \in SUBSET (1..n)
  BY DEF Placed
<1> DEFINE f(b) == Cardinality(UpTo(S, b))
           Z == {b \in Nat : f(b) >= k}
<1>1. \A b \in Nat : f(b) \in Nat
  BY UpToIs
<1>2. f(0) = 0 /\ f(n) >= k
  <2>1. UpTo(S, 0) = {} /\ UpTo(S, n) = S
    <3>1. \A j \in S : j \in Nat /\ ~(j <= 0) /\ j <= n
      BY <1>0
    <3> QED
      BY <3>1 DEF UpTo
  <2> QED
    BY <2>1, FS_EmptySet
<1>3. \A b \in Nat : f(b) = IF b \in S THEN f(b - 1) + 1 ELSE f(b - 1)
  BY UpToGrows
<1> HIDE DEF f
<1>4. PICK x \in Z : \A y \in Z : x <= y
  <2>1. Z \in SUBSET Nat /\ n \in Z
    BY <1>2
  <2> HIDE DEF Z
  <2> QED
    BY <2>1, LeastNumber
<1>5. x \in Nat /\ x # 0 /\ x - 1 \in Nat /\ f(x) >= k
  BY <1>2, <1>4
<1>6. ~(f(x - 1) >= k)
  <2>1. ~(x <= x - 1)
    BY <1>5
  <2> QED
    BY <1>4, <1>5, <2>1
<1> HIDE DEF Z
<1>7. x \in S /\ f(x) = k
  BY <1>1, <1>3, <1>5, <1>6
<1> DEFINE z == Nth(S, k)
<1>8. z \in S /\ f(z) = k
  <2>1. z = CHOOSE i \in S : f(i) = k
    BY DEF Nth, f, UpTo
  <2> HIDE DEF z
  <2> QED
    BY <1>7, <2>1
<1>9. ASSUME NEW y \in S, f(y) >= k PROVE z <= y
  <2>1. y \in Nat /\ z \in Nat
    <3> HIDE DEF z
    <3> QED
      BY <1>0, <1>8
  <2> SUFFICES ASSUME y <= z - 1 PROVE FALSE
    <3> HIDE DEF z
    <3> QED
      BY <2>1
  <2>2. f(z) = f(z - 1) + 1 /\ z - 1 \in Nat
    <3> HIDE DEF z
    <3> QED
      BY <1>3, <1>8, <2>1
  <2>3. f(y) <= f(z - 1)
    <3> DEFINE T == UpTo(S, y)
    <3>1. T \in SUBSET S /\ T \in SUBSET UpTo(S, z - 1)
      <4> HIDE DEF z
      <4>1. \A j \in S : j \in Int
        BY <1>0
      <4>2. \A j \in S : j <= y => j <= z - 1
        BY <2>1, <4>1
      <4> QED
        BY <4>2 DEF UpTo
    <3> DEFINE b == z - 1
    <3>3. b \in Int
      BY <2>2
    <3> HIDE DEF T, z, b
    <3>2. Cardinality(T) <= Cardinality(UpTo(S, b))
      BY <3>1, <3>3, UpToWider DEF b
    <3> QED
      BY <3>2 DEF f, T, b
  <2> HIDE DEF z
  <2> QED
    BY <1>1, <1>8, <1>9, <2>1, <2>2, <2>3
<1> HIDE DEF z
<1> QED
  BY <1>8, <1>9 DEF NthOf, f, z

-----------------------------------------------------------------------------
(* One step of a sequence after the other.                                 *)

NoStep == [next |-> 1, first |-> Null, done |-> << >>, stopped |-> FALSE]

Taken(steps, w, span) == FoldLeft(LAMBDA m, step : Take(m, w, step, span), NoStep, steps)

TakenOver(E, V, w, span) == \A x \in V, d \in E : Take(x, w, d, span) \in V
TakenGoes(E, q, w, span) == Taken(<< >>, w, span) = NoStep /\ \A e \in E : Taken(Append(q, e), w, span) = Take(Taken(q, w, span), w, e, span)

LEMMA TakenTrace ==
  ASSUME NEW w, NEW span, NEW E, NEW V, NoStep \in V, TakenOver(E, V, w, span), NEW seq \in Seq(E)
  PROVE  GoesTo(V, [p \in V \X E |-> Take(p[1], w, p[2], span)], NoStep, seq, Taken(seq, w, span))
<1> DEFINE n == Len(seq)
           base == NoStep
           G == [p \in V \X E |-> Take(p[1], w, p[2], span)]
           op(x, i) == Take(x, w, seq[i], span)
           Fix(f) == f = [s \in SUBSET (1..n) |-> IF s = {} THEN base ELSE op(f[s \ {Max(s)}], Max(s))]
           F == [p \in V \X (1..n) |-> op(p[1], p[2])]
           all == CHOOSE f : Fix(f)
<1>0. n \in Nat /\ DOMAIN seq = 1..n /\ base \in V /\ \A i \in 1..n : seq[i] \in E
  OBVIOUS
<1>1. Taken(seq, w, span) = all[1..n]
  BY <1>0 DEF Taken, FoldLeft, MapThenFoldSet
<1>2. F \in [V \X (1..n) -> V] /\ \A x \in V, i \in 1..n : F[<<x, i>>] = op(x, i) /\ op(x, i) = G[<<x, seq[i]>>]
  BY <1>0 DEF TakenOver
<1> HIDE DEF op, F, G, base, n
<1>3. Fix(all)
  <2>1. PICK f \in [SUBSET (1..n) -> V] : FoldOf(F, base, n, f)
    BY <1>0, <1>2, FoldExists
  <2>2. ASSUME NEW s \in SUBSET (1..n) PROVE f[s] = IF s = {} THEN base ELSE op(f[s \ {Max(s)}], Max(s))
    <3>1. f[s] = IF s = {} THEN base ELSE F[<<f[s \ {Max(s)}], Max(s)>>]
      BY <2>1 DEF FoldOf
    <3>2. s # {} => Max(s) \in 1..n /\ f[s \ {Max(s)}] \in V
      BY <1>0, <2>1, MaxIn
    <3> QED
      BY <1>2, <3>1, <3>2
  <2>3. Fix(f)
    BY <2>1, <2>2
  <2> HIDE DEF Fix
  <2> QED
    BY <2>3
<1> HIDE DEF all
<1>4. Unfolds(V, F, base, n, all)
  <2>1. \A s \in SUBSET (1..n) : s # {} => Max(s) \in 1..n
    BY <1>0, MaxIn
  <2> QED
    BY <1>2, <1>3, <2>1 DEF Unfolds
<1>5. RunsTo(V, F, base, n, Taken(seq, w, span))
  <2>1. F \in [V \X (1..n) -> V]
    BY <1>2
  <2>2. RunsTo(V, F, base, n, all[1..n])
    BY <1>0, <1>4, <2>1, FoldTrace
  <2> QED
    BY <1>1, <2>2
<1>6. \A x \in V, i \in 1..n : F[<<x, i>>] = G[<<x, seq[i]>>]
  BY ZenonT(60), <1>2
<1>7. GoesTo(V, G, base, seq, Taken(seq, w, span))
  BY <1>0, <1>5, <1>6, RunsGo DEF n
<1> QED
  BY <1>7 DEF G, base

LEMMA TakenLaw ==
  ASSUME NEW w, NEW span, NEW E, NEW V, NoStep \in V, TakenOver(E, V, w, span), NEW q \in Seq(E)
  PROVE  TakenGoes(E, q, w, span) /\ Taken(q, w, span) \in V
<1> DEFINE G == [p \in V \X E |-> Take(p[1], w, p[2], span)]
           base == NoStep
           none == << >>
           x == Taken(q, w, span)
<1>1. GoesTo(V, G, base, q, x)
  BY TakenTrace
<1>2. GoesTo(V, G, base, none, Taken(none, w, span))
  <2>1. none \in Seq(E)
    OBVIOUS
  <2> QED
    BY <2>1, TakenTrace
<1>3. \A y \in V, e \in E : G[<<y, e>>] = Take(y, w, e, span)
  OBVIOUS
<1> HIDE DEF G, base, none, x
<1>4. x \in V /\ Taken(none, w, span) = base
  BY <1>1, <1>2, GoesIn, GoesNowhere DEF none
<1>5. ASSUME NEW e \in E PROVE Taken(Append(q, e), w, span) = Take(x, w, e, span)
  <2> DEFINE longer == Append(q, e)
  <2>1. longer \in Seq(E)
    BY AppendIs
  <2>2. GoesTo(V, G, base, longer, Taken(longer, w, span))
    BY <2>1, TakenTrace DEF G, base
  <2> HIDE DEF longer
  <2>3. Taken(longer, w, span) = G[<<x, e>>]
    BY <1>1, <2>2, GoesOn DEF longer
  <2> QED
    BY <1>3, <1>4, <2>3 DEF longer
<1> QED
  BY <1>4, <1>5 DEF base, none, x, TakenGoes

\* The times of D are numbers, the events of w in their order.
Stamped(D) == \A e \in D : e.at \in Nat
InTime(w) == \A i, j \in 1..Len(w) : i <= j => w[i].at <= w[j].at
Counting(S) == \A s \in S : s.min \in Nat \ {0}

\* Completing places, as CanComplete has them.
Hits(w, step, low, high) == {i \in (low + 1)..high : MatchesStep(w[i], step) /\ (low = 0 \/ w[i].at > w[low].at)}
Ends(w, step, low, x) == x > low /\ x \in Hits(w, step, low, x) /\ Cardinality(Hits(w, step, low, x)) >= step.min
Place(c, n) == IF n = 0 THEN 0 ELSE c[n]
Completion(w, p, k, c) == c \in [1..k -> 1..Len(w)] /\ \A n \in 1..k : Ends(w, p[n], Place(c, n - 1), c[n])

\* m is the first way to complete steps of p: it stopped where the next one is missing or too late.
Follows(m, w, D, p, span) ==
  LET k == Len(m.done)
      low == m.next - 1
  IN  /\ m.done \in Seq(D) /\ m.stopped \in BOOLEAN /\ k <= Len(p) /\ (m.stopped <=> k < Len(p))
      /\ low \in 0..Len(w) /\ (k = 0 <=> low = 0)
      /\ k > 0 => /\ Last(m.done) = w[low] /\ w[low].at - m.first.at <= span
                  /\ \E f \in 1..low : m.first = w[f] /\ MatchesStep(w[f], p[1])
      /\ \E c : Completion(w, p, k, c) /\ Place(c, k) = low
      /\ (\A i \in 1..Len(w) : w[i].at <= span) =>
           /\ \A c : Completion(w, p, k, c) => low <= Place(c, k)
           /\ m.stopped => \A c : ~Completion(w, p, k + 1, c)

LEMMA CompletionOn ==
  ASSUME NEW S, NEW p \in Seq(S), NEW s \in S, NEW k \in 0..Len(p), NEW w, NEW c
  PROVE  Completion(w, Append(p, s), k, c) <=> Completion(w, p, k, c)
<1> DEFINE a == Append(p, s)
<1>1. \A n \in 1..Len(p) : a[n] = p[n]
  BY AppendIs
<1>2. \A n \in 1..k : n \in 1..Len(p)
  OBVIOUS
<1> HIDE DEF a
<1>3. \A n \in 1..k : a[n] = p[n]
  BY <1>1, <1>2
<1>4. Completion(w, a, k, c) <=> Completion(w, p, k, c)
  BY <1>3 DEF Completion
<1> QED
  BY <1>4 DEF a

LEMMA CompletionEnds ==
  ASSUME NEW w, NEW p, NEW k \in Nat, NEW c, Completion(w, p, k + 1, c)
  PROVE  c[k + 1] \in 1..Len(w) /\ Ends(w, p[k + 1], Place(c, k), c[k + 1])
<1>1. k + 1 \in 1..(k + 1) /\ (k + 1) - 1 = k
  OBVIOUS
<1>2. c \in [1..(k + 1) -> 1..Len(w)] /\ \A n \in 1..(k + 1) : Ends(w, p[n], Place(c, n - 1), c[n])
  BY DEF Completion
<1>3. Ends(w, p[k + 1], Place(c, (k + 1) - 1), c[k + 1])
  BY <1>1, <1>2
<1> QED
  BY <1>1, <1>2, <1>3

\* The first k steps of a completion are completed as well.
HasPrefix(w, p, k, j, c) == \E d : Completion(w, p, k, d) /\ Place(d, k) = Place(c, k)

LEMMA CompletionPrefix ==
  ASSUME NEW w, NEW p, NEW j, NEW k \in 0..j, j \in Nat, NEW c, Completion(w, p, j, c)
  PROVE  HasPrefix(w, p, k, j, c)
<1> DEFINE d == [i \in 1..k |-> c[i]]
<1>1. \A n \in 1..k : n \in 1..j
  OBVIOUS
<1>3. d \in [1..k -> 1..Len(w)] /\ \A n \in 1..k : d[n] = c[n]
  BY <1>1 DEF Completion
<1> HIDE DEF d
<1>4. \A n \in 1..k : Place(d, n - 1) = Place(c, n - 1)
  <2>1. \A n \in 1..k : n - 1 = 0 \/ n - 1 \in 1..k
    OBVIOUS
  <2> QED
    BY <1>3, <2>1 DEF Place
<1>5. \A n \in 1..k : Ends(w, p[n], Place(d, n - 1), d[n])
  <2>1. \A n \in 1..k : Ends(w, p[n], Place(c, n - 1), c[n])
    BY <1>1 DEF Completion
  <2> QED
    BY <1>3, <1>4, <2>1
<1>6. Place(d, k) = Place(c, k)
  <2>1. k = 0 \/ k \in 1..k
    OBVIOUS
  <2> QED
    BY <1>3, <2>1 DEF Place
<1>7. Completion(w, p, k, d)
  BY <1>3, <1>5 DEF Completion
<1> QED
  BY <1>6, <1>7 DEF HasPrefix

LEMMA CompletionLonger ==
  ASSUME NEW w, NEW p, NEW k \in Nat, NEW c, Completion(w, p, k, c), NEW x \in 1..Len(w), Ends(w, p[k + 1], Place(c, k), x)
  PROVE  \E d : Completion(w, p, k + 1, d) /\ Place(d, k + 1) = x
<1> DEFINE d == [i \in 1..(k + 1) |-> IF i = k + 1 THEN x ELSE c[i]]
<1>1. k + 1 \in 1..(k + 1) /\ k + 1 # 0 /\ (k + 1) - 1 = k /\ \A n \in 1..(k + 1) : n \in 1..k \/ n = k + 1
  OBVIOUS
<1>2. \A n \in 1..k : n \in 1..(k + 1) /\ n # k + 1
  OBVIOUS
<1>3. d \in [1..(k + 1) -> 1..Len(w)] /\ d[k + 1] = x /\ \A n \in 1..k : d[n] = c[n]
  BY <1>1, <1>2 DEF Completion
<1> HIDE DEF d
<1>4. \A n \in 1..(k + 1) : Place(d, n - 1) = Place(c, n - 1)
  <2>1. \A n \in 1..(k + 1) : n - 1 = 0 \/ n - 1 \in 1..k
    OBVIOUS
  <2> QED
    BY <1>3, <2>1 DEF Place
<1>5. ASSUME NEW n \in 1..(k + 1) PROVE Ends(w, p[n], Place(d, n - 1), d[n])
  <2>1. CASE n = k + 1
    <3>1. Place(d, n - 1) = Place(c, k)
      BY <1>1, <1>4, <2>1
    <3> QED
      BY <1>3, <2>1, <3>1
  <2>2. CASE n \in 1..k
    <3>1. Ends(w, p[n], Place(c, n - 1), c[n])
      BY <2>2 DEF Completion
    <3> QED
      BY <1>3, <1>4, <2>2, <3>1
  <2> QED
    BY <1>1, <2>1, <2>2
<1>6. Completion(w, p, k + 1, d)
  BY <1>3, <1>5 DEF Completion
<1> QED
  BY <1>1, <1>3, <1>6 DEF Place

\* Where m stands, in the events of w.
At(m, w, low) ==
  /\ low \in 0..Len(w) /\ m.next = low + 1
  /\ m.done = << >> <=> low = 0
  /\ low # 0 => Last(m.done) = w[low]

LEMMA UsableAre ==
  ASSUME NEW D, Stamped(D), NEW w \in Seq(D), InTime(w), NEW m, NEW low, At(m, w, low), NEW s
  PROVE  /\ Placed(Usable(w, s, m)) /\ \A x \in Usable(w, s, m) : x \in 1..Len(w) /\ x > low
         /\ \A x \in 1..Len(w) : Hits(w, s, low, x) = UpTo(Usable(w, s, m), x)
         /\ \A x \in 1..Len(w) : \A d \in low..Len(w) : Hits(w, s, d, x) \in SUBSET UpTo(Usable(w, s, m), x)
<1> DEFINE n == Len(w)
           U == Usable(w, s, m)
           Fits(i) == MatchesStep(w[i], s) /\ (low = 0 \/ w[i].at > w[low].at)
<1>1. n \in Nat /\ low \in 0..n
  BY DEF At
<1>2. U = {i \in (low + 1)..n : Fits(i)}
  BY DEF Usable, At
<1> HIDE DEF U, n
<1>3. U \in SUBSET (1..n) /\ \A x \in U : x \in 1..n /\ x > low
  <2>1. \A i \in (low + 1)..n : i \in 1..n /\ i > low
    BY <1>1
  <2> QED
    BY <1>2, <2>1
<1>4. ASSUME NEW x \in 1..n PROVE Hits(w, s, low, x) = UpTo(U, x)
  <2>1. \A i : i \in (low + 1)..x <=> i \in (low + 1)..n /\ i <= x
    BY <1>1
  <2>2. Hits(w, s, low, x) = {i \in (low + 1)..x : Fits(i)}
    BY DEF Hits
  <2> HIDE DEF Fits
  <2> QED
    BY <1>2, <2>1, <2>2 DEF UpTo
<1>5. ASSUME NEW x \in 1..n, NEW d \in low..n PROVE Hits(w, s, d, x) \in SUBSET UpTo(U, x)
  <2>1. ASSUME NEW i \in Hits(w, s, d, x) PROVE i \in UpTo(U, x)
    <3>1. i \in (d + 1)..x /\ MatchesStep(w[i], s) /\ (d = 0 \/ w[i].at > w[d].at)
      BY DEF Hits
    <3>2. i \in (low + 1)..n /\ i <= x
      BY <1>1, <3>1
    <3>3. low = 0 \/ w[i].at > w[low].at
      <4> SUFFICES ASSUME low # 0 PROVE w[i].at > w[low].at
        OBVIOUS
      <4>1. low \in 1..n /\ d \in 1..n /\ i \in 1..n /\ low <= d /\ d # 0
        BY <1>1, <3>2
      <4>2. w[low].at <= w[d].at
        BY <4>1 DEF InTime, n
      <4>3. w[low].at \in Nat /\ w[d].at \in Nat /\ w[i].at \in Nat
        BY <4>1 DEF Stamped, n
      <4> QED
        BY <3>1, <4>1, <4>2, <4>3
    <3> QED
      BY <1>2, <3>1, <3>2, <3>3 DEF UpTo
  <2> QED
    BY <2>1
<1>6. Placed(U)
  BY <1>1, <1>3 DEF Placed
<1> QED
  BY <1>3, <1>4, <1>5, <1>6 DEF U, n

\* Every way to complete one step more ends on a usable place, with enough of them up to it.
LEMMA UsedByAll ==
  ASSUME NEW D, Stamped(D), NEW w \in Seq(D), InTime(w), NEW m, NEW low, At(m, w, low), NEW k \in Nat, NEW p, NEW s, p[k + 1] = s,
         NEW c, Completion(w, p, k + 1, c), low <= Place(c, k), s.min \in Nat
  PROVE  /\ c[k + 1] \in Usable(w, s, m) /\ Cardinality(UpTo(Usable(w, s, m), c[k + 1])) >= s.min
         /\ Cardinality(Usable(w, s, m)) >= s.min
<1> DEFINE x == c[k + 1]
           d == Place(c, k)
           U == Usable(w, s, m)
           H == Hits(w, s, d, x)
<1>1. x \in 1..Len(w) /\ Ends(w, s, d, x)
  BY CompletionEnds
<1>2. d \in low..Len(w)
  <2>1. k = 0 \/ k \in 1..(k + 1)
    OBVIOUS
  <2>2. c \in [1..(k + 1) -> 1..Len(w)]
    BY DEF Completion
  <2>3. d \in 0..Len(w)
    BY <2>1, <2>2 DEF Place
  <2>4. low \in 0..Len(w)
    BY DEF At
  <2> HIDE DEF d
  <2> QED
    BY <2>3, <2>4 DEF d
<1> HIDE DEF x, d
<1>3. x \in H /\ Cardinality(H) >= s.min
  BY <1>1 DEF Ends
<1>4. Placed(U) /\ H \in SUBSET UpTo(U, x)
  BY <1>1, <1>2, UsableAre
<1> HIDE DEF U, H
<1> DEFINE V == UpTo(U, x)
<1>5. IsFiniteSet(U) /\ IsFiniteSet(V) /\ Cardinality(U) \in Nat /\ Cardinality(V) \in Nat
  BY <1>1, <1>4, UpToIs
<1>6. V \in SUBSET U /\ x \in U
  BY <1>3, <1>4 DEF UpTo
<1>7. H \in SUBSET V
  BY <1>4
<1> HIDE DEF V
<1>8. Cardinality(H) <= Cardinality(V) /\ Cardinality(V) <= Cardinality(U) /\ Cardinality(H) \in Nat
  BY <1>5, <1>6, <1>7, FS_Subset, FS_CardinalityType
<1> QED
  BY <1>3, <1>5, <1>6, <1>8 DEF V, U, x

Standing(w, D) == [next : 1..(Len(w) + 1), first : D \cup {Null}, done : Seq(D), stopped : BOOLEAN]

\* The step ends on place x, and its first event is that on f; t is too late, or goes on.
First(m, w, f) == IF m.done = << >> THEN w[f] ELSE m.first

Advances(m, w, s, span, U, t, x, f) ==
  /\ NthOf(U, s.min, x) /\ f <= x /\ MatchesStep(w[f], s)
  /\ t = IF w[x].at - First(m, w, f).at > span THEN [m EXCEPT !.stopped = TRUE]
         ELSE [next |-> x + 1, first |-> First(m, w, f), done |-> Append(m.done, w[x]), stopped |-> FALSE]

Continues(m, w, s, span, U, t) == \E x \in 1..Len(w), f \in 1..Len(w) : Advances(m, w, s, span, U, t, x, f)

LEMMA TakeIs ==
  ASSUME NEW D, NEW w \in Seq(D), NEW m \in Standing(w, D), NEW s, s.min \in Nat \ {0}, NEW span,
         NEW U, U = Usable(w, s, m), NEW t, t = Take(m, w, s, span)
  PROVE  /\ m.stopped \/ ~(Cardinality(U) >= s.min) => t = [m EXCEPT !.stopped = TRUE]
         /\ ~m.stopped /\ Cardinality(U) >= s.min => Continues(m, w, s, span, U, t)
<1> DEFINE n == Len(w)
           x == Nth(U, s.min)
           f == Nth(U, 1)
           first == First(m, w, f)
           done == w[x]
<1>1. n \in Nat /\ m.next \in Nat \ {0}
  BY DEF Standing
<1>2. U = {i \in m.next..n : /\ m.done = << >> \/ w[i].at > Last(m.done).at
                             /\ MatchesStep(w[i], s)}
  BY DEF Usable
<1>3. Placed(U) /\ \A i \in U : i \in 1..n /\ MatchesStep(w[i], s)
  <2>1. \A i \in m.next..n : i \in 1..n
    BY <1>1
  <2>2. U \in SUBSET (1..n)
    BY <1>2, <2>1
  <2> QED
    BY <1>1, <1>2, <2>2 DEF Placed
<1>4. IsFiniteSet(U) /\ Cardinality(U) \in Nat
  <2>1. 0 \in Int
    OBVIOUS
  <2> QED
    BY <1>3, <2>1, UpToIs
<1>5. t = IF m.stopped \/ Cardinality(U) < s.min THEN [m EXCEPT !.stopped = TRUE]
          ELSE IF done.at - first.at > span THEN [m EXCEPT !.stopped = TRUE]
               ELSE [next |-> x + 1, first |-> first, done |-> Append(m.done, done), stopped |-> FALSE]
  BY DEF Take, First
<1>6. ASSUME m.stopped \/ ~(Cardinality(U) >= s.min) PROVE t = [m EXCEPT !.stopped = TRUE]
  BY <1>4, <1>5, <1>6
<1>7. ASSUME ~m.stopped, Cardinality(U) >= s.min PROVE Continues(m, w, s, span, U, t)
  <2>1. NthOf(U, s.min, x)
    BY <1>3, <1>7, NthIs
  <2>2. NthOf(U, 1, f)
    <3>1. Cardinality(U) >= 1 /\ 1 \in Nat \ {0}
      BY <1>4, <1>7
    <3> QED
      BY <1>3, <3>1, NthIs
  <2>3. ~(Cardinality(U) < s.min)
    BY <1>4, <1>7
  <2> HIDE DEF x, f, first
  <2>4. x \in U /\ f \in U
    BY <2>1, <2>2 DEF NthOf
  <2>5. Cardinality(UpTo(U, x)) >= 1
    BY <2>1 DEF NthOf
  <2>6. f <= x
    BY <2>2, <2>4, <2>5 DEF NthOf
  <2>7. t = IF done.at - first.at > span THEN [m EXCEPT !.stopped = TRUE]
            ELSE [next |-> x + 1, first |-> first, done |-> Append(m.done, done), stopped |-> FALSE]
    BY <1>5, <1>7, <2>3
  <2>8. x \in 1..Len(w) /\ f \in 1..Len(w) /\ MatchesStep(w[f], s)
    BY <1>3, <2>4
  <2>9. Advances(m, w, s, span, U, t, x, f)
    BY <2>1, <2>6, <2>7, <2>8 DEF first, Advances
  <2> QED
    BY <2>8, <2>9 DEF Continues
<1> QED
  BY <1>6, <1>7

LEMMA TakeTyped ==
  ASSUME NEW D, NEW w \in Seq(D), NEW m \in Standing(w, D), NEW s, s.min \in Nat \ {0}, NEW span
  PROVE  Take(m, w, s, span) \in Standing(w, D)
<1> DEFINE U == Usable(w, s, m)
           t == Take(m, w, s, span)
<1>1. /\ m.stopped \/ ~(Cardinality(U) >= s.min) => t = [m EXCEPT !.stopped = TRUE]
      /\ ~m.stopped /\ Cardinality(U) >= s.min => Continues(m, w, s, span, U, t)
  <2> HIDE DEF U, t
  <2> QED
    BY TakeIs DEF U, t
<1> HIDE DEF U, t
<1>2. [m EXCEPT !.stopped = TRUE] \in Standing(w, D)
  BY DEF Standing
<1>3. ASSUME Continues(m, w, s, span, U, t) PROVE t \in Standing(w, D)
  <2>1. PICK x \in 1..Len(w), f \in 1..Len(w) : Advances(m, w, s, span, U, t, x, f)
    BY <1>3 DEF Continues
  <2>2. w[x] \in D /\ w[f] \in D /\ x + 1 \in 1..(Len(w) + 1)
    OBVIOUS
  <2>3. First(m, w, f) \in D \cup {Null} /\ Append(m.done, w[x]) \in Seq(D)
    <3>1. m.done \in Seq(D) /\ m.first \in D \cup {Null}
      BY DEF Standing
    <3> QED
      BY <2>2, <3>1, AppendProperties DEF First
  <2>4. [next |-> x + 1, first |-> First(m, w, f), done |-> Append(m.done, w[x]), stopped |-> FALSE] \in Standing(w, D)
    BY <2>2, <2>3 DEF Standing
  <2> QED
    BY <1>2, <2>1, <2>4 DEF Advances
<1>4. t \in Standing(w, D)
  BY <1>1, <1>2, <1>3
<1> QED
  BY <1>4 DEF t

Early(w, span) == \A i \in 1..Len(w) : w[i].at <= span

\* No more steps: nothing else of p can be completed either, when no time is too late.
LEMMA StaysOn ==
  ASSUME NEW D, NEW w, NEW S, NEW p \in Seq(S), NEW s \in S, NEW span, NEW m \in Standing(w, D), Follows(m, w, D, p, span),
         Early(w, span) => \A c : ~Completion(w, Append(p, s), Len(m.done) + 1, c)
  PROVE  Follows([m EXCEPT !.stopped = TRUE], w, D, Append(p, s), span)
<1> DEFINE a == Append(p, s)
           t == [m EXCEPT !.stopped = TRUE]
           k == Len(m.done)
           low == m.next - 1
           N == Len(p)
<1>1. t.done = m.done /\ t.next = m.next /\ t.first = m.first /\ t.stopped = TRUE
  BY DEF Standing
<1>2. N \in Nat /\ Len(a) = N + 1 /\ \A i \in 1..N : a[i] = p[i]
  BY AppendIs
<1>3. k \in 0..N /\ m.done \in Seq(D)
  BY <1>2 DEF Follows
<1>4. \A c : Completion(w, a, k, c) <=> Completion(w, p, k, c)
  <2> HIDE DEF k
  <2> QED
    BY <1>3, CompletionOn
<1>5. k > 0 => a[1] = p[1]
  <2>1. k > 0 => 1 \in 1..N
    BY <1>2, <1>3
  <2> QED
    BY <1>2, <2>1
<1>6. k <= Len(a) /\ k < Len(a)
  BY <1>2, <1>3
<1>7. /\ low \in 0..Len(w) /\ (k = 0 <=> low = 0)
      /\ k > 0 => /\ Last(m.done) = w[low] /\ w[low].at - m.first.at <= span
                  /\ \E f \in 1..low : m.first = w[f] /\ MatchesStep(w[f], p[1])
      /\ \E c : Completion(w, p, k, c) /\ Place(c, k) = low
      /\ Early(w, span) => \A c : Completion(w, p, k, c) => low <= Place(c, k)
  BY DEF Follows, Early
<1>8. Early(w, span) => \A c : ~Completion(w, a, k + 1, c)
  OBVIOUS
<1> HIDE DEF t, a, low, N
<1>9. t.next - 1 = low /\ Len(t.done) = k
  BY <1>1 DEF low
<1> HIDE DEF k
<1>10. Follows(t, w, D, a, span)
  BY <1>1, <1>3, <1>4, <1>5, <1>6, <1>7, <1>8, <1>9 DEF Follows, Early
<1> QED
  BY <1>10 DEF t, a

\* One step of the query more.
LEMMA FollowsOn ==
  ASSUME NEW D, Stamped(D), NEW w \in Seq(D), InTime(w), NEW S, Counting(S), NEW p \in Seq(S), NEW s \in S, NEW span \in Nat,
         NEW m \in Standing(w, D), Follows(m, w, D, p, span)
  PROVE  Follows(Take(m, w, s, span), w, D, Append(p, s), span)
<1> DEFINE a == Append(p, s)
           t == Take(m, w, s, span)
           U == Usable(w, s, m)
           k == Len(m.done)
           low == m.next - 1
           N == Len(p)
           M == N + 1
           n == Len(w)
           stays == [m EXCEPT !.stopped = TRUE]
<1>1. s.min \in Nat \ {0} /\ m.next \in Int
  BY DEF Counting, Standing
<1>2. /\ m.stopped \/ ~(Cardinality(U) >= s.min) => t = stays
      /\ ~m.stopped /\ Cardinality(U) >= s.min => Continues(m, w, s, span, U, t)
  <2> HIDE DEF U, t
  <2> QED
    BY <1>1, TakeIs DEF U, t
<1>3. N \in Nat /\ Len(a) = N + 1 /\ a[N + 1] = s /\ a \in Seq(S) /\ \A i \in 1..N : a[i] = p[i]
  BY AppendIs
<1>4. /\ m.done \in Seq(D) /\ m.stopped \in BOOLEAN /\ k \in 0..N /\ (m.stopped <=> k < N)
      /\ low \in 0..n /\ (k = 0 <=> low = 0)
      /\ k > 0 => /\ Last(m.done) = w[low] /\ w[low].at - m.first.at <= span
                  /\ \E f \in 1..low : m.first = w[f] /\ MatchesStep(w[f], p[1])
      /\ \E c : Completion(w, p, k, c) /\ Place(c, k) = low
      /\ Early(w, span) =>
           /\ \A c : Completion(w, p, k, c) => low <= Place(c, k)
           /\ m.stopped => \A c : ~Completion(w, p, k + 1, c)
  BY SMTT(60), <1>3 DEF Follows, Early
<1>5. At(m, w, low)
  <2>1. m.done = << >> <=> k = 0
    BY <1>4
  <2>2. k > 0 <=> low # 0
    BY <1>4
  <2>3. m.next = low + 1
    BY <1>1
  <2> HIDE DEF low, k, n
  <2> QED
    BY <1>4, <2>1, <2>2, <2>3 DEF At, n
<1> HIDE DEF t, U, a, k, low
<1>6. /\ Placed(U) /\ \A x \in U : x \in 1..n /\ x > low
      /\ \A x \in 1..n : Hits(w, s, low, x) = UpTo(U, x)
  BY <1>5, UsableAre DEF U
<1>7. \A j \in 0..N : \A c : Completion(w, a, j, c) <=> Completion(w, p, j, c)
  BY CompletionOn DEF a
<1>8. ASSUME Early(w, span), k = N, NEW c, Completion(w, a, N + 1, c)
      PROVE  c[N + 1] \in U /\ Cardinality(UpTo(U, c[N + 1])) >= s.min /\ Cardinality(U) >= s.min
  <2> HIDE DEF N
  <2>1. PICK d : Completion(w, a, N, d) /\ Place(d, N) = Place(c, N)
    <3>1. Completion(w, a, M, c) /\ M \in Nat /\ N \in 0..M
      BY <1>3, <1>8
    <3> HIDE DEF M
    <3>2. HasPrefix(w, a, N, M, c)
      BY <3>1, CompletionPrefix
    <3> QED
      BY <3>2 DEF HasPrefix
  <2>2. Completion(w, p, N, d)
    BY <1>3, <1>7, <2>1
  <2>3. low <= Place(c, N)
    BY <1>4, <1>8, <2>1, <2>2
  <2>4. s.min \in Nat
    BY <1>1
  <2> QED
    BY <1>3, <1>5, <1>8, <2>3, <2>4, UsedByAll DEF U
<1>9. ASSUME t = stays, Early(w, span) => \A c : ~Completion(w, a, k + 1, c) PROVE Follows(t, w, D, a, span)
  BY <1>9, StaysOn DEF a, k
<1>10. CASE m.stopped
  <2>1. k + 1 \in 0..N
    BY <1>3, <1>4, <1>10
  <2>2. Early(w, span) => \A c : ~Completion(w, a, k + 1, c)
    BY <1>4, <1>7, <1>10, <2>1
  <2> QED
    BY <1>2, <1>9, <1>10, <2>2 DEF t, a
<1>11. CASE ~m.stopped /\ ~(Cardinality(U) >= s.min)
  <2>1. k = N
    BY <1>3, <1>4, <1>11
  <2>2. Early(w, span) => \A c : ~Completion(w, a, k + 1, c)
    BY <1>8, <1>11, <2>1
  <2> QED
    BY <1>2, <1>9, <1>11, <2>2 DEF t, a
<1>12. CASE ~m.stopped /\ Cardinality(U) >= s.min
  <2>1. k = N
    BY <1>3, <1>4, <1>12
  <2>2. PICK x \in 1..n, f \in 1..n : Advances(m, w, s, span, U, t, x, f)
    BY <1>2, <1>12 DEF Continues
  <2> DEFINE first == First(m, w, f)
             z == w[x]
             overdue == z.at - first.at > span
             next == [next |-> x + 1, first |-> first, done |-> Append(m.done, z), stopped |-> FALSE]
  <2>3. NthOf(U, s.min, x) /\ f <= x /\ MatchesStep(w[f], s) /\ t = IF overdue THEN stays ELSE next
    BY <2>2 DEF Advances
  <2>4. n \in Nat /\ z \in D /\ z.at \in Nat /\ w[f] \in D /\ w[f].at \in Nat
    BY DEF Stamped
  <2>5. /\ first \in D /\ first.at \in Nat
        /\ \E g \in 1..x : first = w[g] /\ MatchesStep(w[g], a[1])
    <3>1. CASE k = 0
      <4>1. first = w[f]
        BY <1>4, <3>1 DEF First, k
      <4>2. a[1] = s
        BY <1>3, <2>1, <3>1
      <4>3. f \in 1..x
        BY <2>3
      <4> HIDE DEF first
      <4> QED
        BY <2>3, <2>4, <4>1, <4>2, <4>3
    <3>2. CASE k # 0
      <4>1. k > 0 /\ 1 \in 1..N
        BY <1>3, <1>4, <3>2
      <4>2. first = m.first
        BY <1>4, <3>2 DEF First, k
      <4>3. PICK g \in 1..low : m.first = w[g] /\ MatchesStep(w[g], p[1])
        BY <1>4, <4>1
      <4>4. a[1] = p[1]
        BY <1>3, <4>1
      <4>5. x > low
        BY <1>6, <2>3 DEF NthOf
      <4>6. g \in 1..x /\ g \in 1..n
        BY <1>4, <2>4, <4>5
      <4>7. w[g] \in D /\ w[g].at \in Nat
        BY <4>6 DEF Stamped
      <4> HIDE DEF first
      <4> QED
        BY <4>2, <4>3, <4>4, <4>6, <4>7
    <3> QED
      BY <3>1, <3>2
  <2> HIDE DEF first, z, next, stays
  <2>6. CASE overdue
    <3>1. ASSUME Early(w, span) PROVE FALSE
      <4>1. z.at <= span
        BY <3>1 DEF Early, z
      <4> QED
        BY <2>4, <2>5, <2>6, <4>1
    <3> QED
      BY <1>9, <2>3, <2>6, <3>1 DEF t, a
  <2>7. CASE ~overdue
    <3>1. next.next = x + 1 /\ next.first = first /\ next.done = Append(m.done, z) /\ next.stopped = FALSE /\ t = next
      BY <2>3, <2>7 DEF next
    <3>2. /\ t.next - 1 = x /\ t.first = first /\ t.stopped = FALSE
          /\ t.done \in Seq(D) /\ Len(t.done) = M /\ Last(t.done) = z
      <4> DEFINE b == Append(m.done, z)
      <4>1. m.done \in Seq(D) /\ Len(m.done) = N
        BY <1>4, <2>1 DEF k
      <4>2. b \in Seq(D) /\ Len(b) = N + 1 /\ b[N + 1] = z
        BY <2>4, <4>1, AppendIs
      <4> HIDE DEF b
      <4>3. Last(b) = z
        BY <4>2 DEF Last
      <4>4. (x + 1) - 1 = x
        OBVIOUS
      <4> QED
        BY <3>1, <4>2, <4>3, <4>4 DEF b
    <3>3. x \in 0..n /\ M # 0 /\ x # 0 /\ M > 0
      BY <1>3, <2>4
    <3>4. z.at - first.at <= span
      BY <2>4, <2>5, <2>7
    <3>5. Ends(w, s, low, x)
      <4>1. x \in U /\ x > low /\ Cardinality(UpTo(U, x)) = s.min
        BY <1>6, <2>3 DEF NthOf
      <4>2. x \in UpTo(U, x)
        BY <4>1 DEF UpTo
      <4>3. s.min >= s.min
        BY <1>1
      <4> QED
        BY <1>6, <4>1, <4>2, <4>3 DEF Ends
    <3>6. \E c : Completion(w, a, M, c) /\ Place(c, M) = x
      <4>1. PICK c : Completion(w, p, N, c) /\ Place(c, N) = low
        BY <1>4, <2>1
      <4>2. Completion(w, a, N, c)
        BY <1>3, <1>7, <4>1
      <4>3. Ends(w, a[N + 1], Place(c, N), x)
        BY <1>3, <3>5, <4>1
      <4> HIDE DEF N
      <4> QED
        BY <1>3, <4>2, <4>3, CompletionLonger
    <3>7. ASSUME Early(w, span), NEW c, Completion(w, a, M, c) PROVE x <= Place(c, M)
      <4>1. c[M] \in U /\ Cardinality(UpTo(U, c[M])) >= s.min
        BY <1>8, <2>1, <3>7
      <4>2. x <= c[M]
        BY <2>3, <4>1 DEF NthOf
      <4> QED
        BY <3>3, <4>2 DEF Place
    <3> HIDE DEF M, N
    <3>8. Len(a) = M /\ M <= Len(a) /\ ~(M < Len(a))
      BY <1>3 DEF M
    <3>9. Follows(t, w, D, a, span)
      <4>1. t.stopped \in BOOLEAN /\ (t.stopped <=> M < Len(a)) /\ (M = 0 <=> x = 0)
        BY <3>2, <3>3, <3>8
      <4> HIDE DEF n
      <4> QED
        BY <2>5, <3>2, <3>3, <3>4, <3>6, <3>7, <3>8, <4>1 DEF Follows, Early, z, n
    <3> QED
      BY <3>9 DEF t, a
  <2> QED
    BY <2>6, <2>7
<1> QED
  BY <1>10, <1>11, <1>12

LEMMA FollowsFirst ==
  ASSUME NEW D, NEW w \in Seq(D), NEW span
  PROVE  Follows(NoStep, w, D, << >>, span) /\ NoStep \in Standing(w, D)
<1> DEFINE n == Len(w)
           none == << >>
<1>1. n \in Nat /\ 0 \in 0..n /\ 1 \in 1..(n + 1) /\ none \in Seq(D) /\ Len(none) = 0 /\ 1 - 1 = 0 /\ ~(0 < 0) /\ ~(0 > 0) /\ 0 <= 0
  OBVIOUS
<1>2. NoStep.next = 1 /\ NoStep.done = none /\ NoStep.stopped = FALSE
  BY DEF NoStep
<1>3. NoStep \in Standing(w, D)
  BY <1>1 DEF NoStep, Standing
<1>4. \E c : Completion(w, none, 0, c) /\ Place(c, 0) = 0
  <2> DEFINE c == [i \in 1..0 |-> 1]
  <2>1. c \in [1..0 -> 1..n] /\ 1..0 = {}
    OBVIOUS
  <2> HIDE DEF c
  <2>2. Completion(w, none, 0, c) /\ Place(c, 0) = 0
    BY <2>1 DEF Completion, Place
  <2> QED
    BY <2>2
<1>5. \A c : 0 <= Place(c, 0)
  BY DEF Place
<1> HIDE DEF n, none
<1> QED
  BY <1>1, <1>2, <1>3, <1>4, <1>5 DEF Follows, n, none

\* The steps are taken the first way there is.
LEMMA FollowsAll ==
  ASSUME NEW D, Stamped(D), NEW w \in Seq(D), InTime(w), NEW S, Counting(S), NEW q \in Seq(S), NEW span \in Nat
  PROVE  Follows(Taken(q, w, span), w, D, q, span)
<1> DEFINE V == Standing(w, D)
           Z == {p \in Seq(S) : Follows(Taken(p, w, span), w, D, p, span)}
<1>1. NoStep \in V /\ Follows(NoStep, w, D, << >>, span)
  BY FollowsFirst
<1>2. TakenOver(S, V, w, span)
  <2>1. ASSUME NEW x \in V, NEW d \in S PROVE Take(x, w, d, span) \in V
    <3>1. d.min \in Nat \ {0}
      BY DEF Counting
    <3> QED
      BY <3>1, TakeTyped
  <2> HIDE DEF V
  <2> QED
    BY <2>1 DEF TakenOver
<1>3. ASSUME NEW p \in Seq(S) PROVE TakenGoes(S, p, w, span) /\ Taken(p, w, span) \in V
  <2> HIDE DEF V
  <2> QED
    BY <1>1, <1>2, TakenLaw
<1>4. << >> \in Z
  <2>1. << >> \in Seq(S)
    OBVIOUS
  <2>2. Taken(<< >>, w, span) = NoStep
    BY <1>3, <2>1 DEF TakenGoes
  <2> QED
    BY <1>1, <2>1, <2>2
<1>5. ASSUME NEW p \in Seq(S), NEW s \in S, p \in Z PROVE Append(p, s) \in Z
  <2> DEFINE m == Taken(p, w, span)
             a == Append(p, s)
  <2>1. a \in Seq(S) /\ m \in V /\ Follows(m, w, D, p, span)
    BY <1>3, <1>5, AppendIs
  <2>2. Taken(a, w, span) = Take(m, w, s, span)
    BY <1>3 DEF TakenGoes
  <2> HIDE DEF m
  <2>3. Follows(Take(m, w, s, span), w, D, a, span)
    BY <2>1, FollowsOn
  <2> HIDE DEF a
  <2> QED
    BY <2>1, <2>2, <2>3 DEF a
<1> HIDE DEF Z
<1>6. q \in Z
  BY <1>4, <1>5, SeqInduction
<1> QED
  BY <1>6 DEF Z

-----------------------------------------------------------------------------
(* Steps of stored events.                                                 *)

Steps(q) ==
  /\ q.mode # "repetition"
  /\ q.steps \in Seq(ToSet(q.steps)) /\ q.steps # << >>
  /\ \A s \in ToSet(q.steps) : s.min \in Nat \ {0} /\ \A p \in s.predicates : Canonical(p.field)

LEMMA StepKept ==
  ASSUME NEW q, Steps(q), NEW e, Whole(e), NEW s \in ToSet(q.steps)
  PROVE  MatchesStep(Kept(e, q), s) <=> MatchesStep(e, s)
<1> DEFINE d == Kept(e, q)
<1>1. ASSUME NEW p \in s.predicates PROVE Selects(d, p) <=> Selects(e, p)
  <2> DEFINE f == p.field
  <2>1. f \in RequestFields(q)
    <3>1. PICK i \in DOMAIN q.steps : s = q.steps[i]
      BY DEF ToSet
    <3>2. f \in Asked(q.steps[i].predicates)
      BY <3>1 DEF Asked
    <3> QED
      BY <3>2 DEF RequestFields, Steps
  <2>2. Canonical(f)
    BY DEF Steps
  <2> HIDE DEF f
  <2>3. Value(Kept(e, q), f) = Value(e, f) /\ (Applicable(Kept(e, q), f) <=> Applicable(e, f))
    BY <2>1, <2>2, KeptValue
  <2> HIDE DEF d
  <2> QED
    BY <2>3 DEF Selects, d, f
<1>2. d.source = e.source
  BY KeptIs
<1> HIDE DEF d
<1>3. MatchesStep(d, s) <=> MatchesStep(e, s)
  BY <1>1, <1>2 DEF MatchesStep, Matches
<1> QED
  BY <1>3 DEF d

LEMMA StoredIs ==
  ASSUME NEW E, NEW q, NEW M, Storing(M, E, q), NEW o \in Seq(E)
  PROVE  /\ MappedBy(o, M) \in Seq({M[e] : e \in E}) /\ Len(MappedBy(o, M)) = Len(o)
         /\ \A i \in 1..Len(o) : MappedBy(o, M)[i] = Kept(o[i], q) /\ Whole(o[i])
<1> DEFINE m == MappedBy(o, M)
           D == {M[e] : e \in E}
<1>1. M \in [E -> D]
  BY DEF Storing
<1> HIDE DEF D
<1>2. IsMapped(m, o, M, D)
  BY <1>1, MappedIs
<1> HIDE DEF m
<1>3. m \in Seq(D) /\ Len(m) = Len(o) /\ \A i \in 1..Len(o) : m[i] = M[o[i]]
  BY <1>2 DEF IsMapped
<1>4. \A i \in 1..Len(o) : o[i] \in E
  OBVIOUS
<1> QED
  BY <1>3, <1>4 DEF Storing, m, D

LEMMA HitsStored ==
  ASSUME NEW E, NEW q, Steps(q), NEW M, Storing(M, E, q), NEW o \in Seq(E), NEW s \in ToSet(q.steps),
         NEW low \in 0..Len(o), NEW x \in 1..Len(o)
  PROVE  Hits(MappedBy(o, M), s, low, x) = Hits(o, s, low, x)
<1> DEFINE m == MappedBy(o, M)
<1>1. \A i \in 1..Len(o) : m[i] = Kept(o[i], q) /\ Whole(o[i])
  BY StoredIs
<1> HIDE DEF m
<1>2. \A i \in 1..Len(o) : m[i].at = o[i].at /\ (MatchesStep(m[i], s) <=> MatchesStep(o[i], s))
  BY <1>1, KeptIs, StepKept
<1>3. \A i \in (low + 1)..x : i \in 1..Len(o)
  OBVIOUS
<1>4. low = 0 \/ low \in 1..Len(o)
  OBVIOUS
<1>5. \A i \in (low + 1)..x : (low = 0 \/ m[i].at > m[low].at) <=> (low = 0 \/ o[i].at > o[low].at)
  BY <1>2, <1>3, <1>4
<1>6. Hits(m, s, low, x) = Hits(o, s, low, x)
  BY <1>2, <1>3, <1>5 DEF Hits
<1> QED
  BY <1>6 DEF m

\* What can be completed does not depend on what was stored.
LEMMA CompletesAre ==
  ASSUME NEW E, NEW q, Steps(q), NEW M, Storing(M, E, q), NEW o \in Seq(E), NEW k \in 0..Len(q.steps)
  PROVE  CanComplete(o, q, k) <=> \E c : Completion(MappedBy(o, M), q.steps, k, c)
<1> DEFINE m == MappedBy(o, M)
           n == Len(o)
<1>1. Len(m) = n /\ DOMAIN o = 1..n /\ n \in Nat
  <2> DEFINE D == {M[e] : e \in E}
  <2>1. m \in Seq(D) /\ Len(m) = n /\ \A i \in 1..n : m[i] = Kept(o[i], q) /\ Whole(o[i])
    BY StoredIs
  <2> HIDE DEF m, n, D
  <2>2. DOMAIN o = 1..Len(o) /\ Len(o) \in Nat
    OBVIOUS
  <2> QED
    BY <2>1, <2>2 DEF m, n
<1>2. ASSUME NEW c \in [1..k -> 1..n], NEW i \in 1..k
      PROVE  LET low == IF i = 1 THEN 0 ELSE c[i - 1]
                 hits == {j \in (low + 1)..c[i] : MatchesStep(o[j], q.steps[i]) /\ (low = 0 \/ o[j].at > o[low].at)}
             IN  (c[i] > low /\ c[i] \in hits /\ Cardinality(hits) >= q.steps[i].min)
                   <=> Ends(m, q.steps[i], Place(c, i - 1), c[i])
  <2> DEFINE s == q.steps[i]
             low == Place(c, i - 1)
             x == c[i]
  <2>1. low = (IF i = 1 THEN 0 ELSE c[i - 1])
    BY DEF Place
  <2>2. i \in 1..Len(q.steps) /\ s \in ToSet(q.steps)
    BY DEF Steps, ToSet
  <2>3. low \in 0..n /\ x \in 1..n
    <3>1. i = 1 \/ i - 1 \in 1..k
      OBVIOUS
    <3> QED
      BY <2>1, <3>1
  <2> HIDE DEF s, low, x, m
  <2>4. Hits(m, s, low, x) = Hits(o, s, low, x)
    BY <2>2, <2>3, HitsStored DEF m
  <2>5. Hits(o, s, low, x) = {j \in (low + 1)..x : MatchesStep(o[j], s) /\ (low = 0 \/ o[j].at > o[low].at)}
    BY DEF Hits
  <2> QED
    BY <2>1, <2>4, <2>5 DEF Ends, s, x, low
<1>3. \A c \in [1..k -> 1..n] : Completes(o, q, k, c) <=> \A i \in 1..k : Ends(m, q.steps[i], Place(c, i - 1), c[i])
  BY <1>2 DEF Completes
<1> HIDE DEF m, n
<1>4. CanComplete(o, q, k) <=> \E c : Completion(m, q.steps, k, c)
  BY <1>1, <1>3 DEF CanComplete, Completion
<1> QED
  BY <1>4 DEF m

\* What is known of the row of one customer, and that there is one whenever there can be.
RowSound(r, o, q) ==
  /\ r.completed \in 1..Len(q.steps) /\ CanComplete(o, q, r.completed)
  /\ r.last - r.first <= q.span /\ r.last = r.anchor.at
  /\ r.dropoff = Null <=> (q.mode = "sequence" \/ r.completed = r.total)
  /\ \E e \in ToSet(o) : e.at = r.first /\ MatchesStep(e, q.steps[1]) /\ e.customer = r.customer

Reported(R, o, q) ==
  \A k \in 1..Len(q.steps) :
    Early(o, q.span) /\ CanComplete(o, q, k) /\ (q.mode = "funnel" \/ k = Len(q.steps)) => \E r \in R : r.completed >= k

LEMMA MatchedIs ==
  ASSUME NEW w, NEW q
  PROVE  Matched(w, q) = Taken(q.steps, w, q.span)
BY Zenon DEF Matched, Taken, NoStep

LEMMA RowsReported ==
  ASSUME NEW E, Stamped(E), NEW q, Steps(q), q.mode \in {"sequence", "funnel"}, q.span \in Nat, NEW M, Storing(M, E, q),
         NEW o \in Seq(E), InTime(o)
  PROVE  /\ \A r \in RowsOf(MappedBy(o, M), q) : RowSound(r, o, q)
         /\ Reported(RowsOf(MappedBy(o, M), q), o, q)
<1> DEFINE w == MappedBy(o, M)
           D == {M[e] : e \in E}
           n == Len(o)
           S == ToSet(q.steps)
           m == Matched(w, q)
           k == Len(m.done)
           N == Len(q.steps)
           R == RowsOf(w, q)
           row == SequenceRow(m, q)
           whole == Completion(w, q.steps, k, Null)
<1>1. /\ w \in Seq(D) /\ Len(w) = n /\ n \in Nat
      /\ \A i \in 1..n : w[i] = Kept(o[i], q) /\ Whole(o[i])
  BY SMTT(60), StoredIs
<1> HIDE DEF w
<1>2. \A i \in 1..n : w[i].at = o[i].at /\ w[i].customer = o[i].customer
  BY <1>1, KeptIs
<1>3. \A i \in 1..n : o[i] \in E /\ o[i] \in ToSet(o) /\ o[i].at \in Nat
  BY DEF ToSet, Stamped
<1>4. \A s \in S, i \in 1..n : MatchesStep(w[i], s) <=> MatchesStep(o[i], s)
  BY <1>1, StepKept
<1>5. Stamped(D)
  <2>1. \A e \in E : M[e].at = e.at
    BY KeptIs DEF Storing
  <2> QED
    BY <2>1 DEF Stamped
<1> HIDE DEF D
<1>6. InTime(w)
  <2> HIDE DEF n
  <2>1. \A i, j \in 1..n : i <= j => o[i].at <= o[j].at
    BY DEF InTime, n
  <2> QED
    BY <1>1, <1>2, <2>1 DEF InTime
<1>7. q.steps \in Seq(S) /\ N \in Nat /\ N # 0 /\ \A i \in 1..N : q.steps[i] \in S
  BY DEF Steps
<1>8. Counting(S)
  BY DEF Counting, Steps
<1> DEFINE steps == q.steps
           span == q.span
<1>9. Follows(m, w, D, steps, span)
  <2>1. steps \in Seq(S) /\ span \in Nat
    BY <1>7
  <2> HIDE DEF S, steps, span, m
  <2>2. Follows(Taken(steps, w, span), w, D, steps, span)
    BY <1>1, <1>5, <1>6, <1>8, <2>1, FollowsAll
  <2>3. m = Taken(steps, w, span)
    BY MatchedIs DEF steps, span, m
  <2> QED
    BY <2>2, <2>3
<1> DEFINE low == m.next - 1
<1> HIDE DEF m
<1>10. /\ k \in 0..N /\ (m.stopped <=> k < N) /\ m.done \in Seq(D) /\ low \in 0..n /\ (k = 0 <=> low = 0)
       /\ k > 0 => /\ Last(m.done) = w[low] /\ w[low].at - m.first.at <= span
                   /\ \E f \in 1..low : m.first = w[f] /\ MatchesStep(w[f], steps[1])
       /\ \E c : Completion(w, steps, k, c)
       /\ Early(w, span) => (m.stopped => \A c : ~Completion(w, steps, k + 1, c))
  <2>1. m.done \in Seq(D)
    BY <1>9 DEF Follows
  <2>2. k \in Nat
    BY <2>1
  <2> HIDE DEF steps, span
  <2> QED
    BY <1>1, <1>9, <2>1, <2>2 DEF Follows, Early, steps
<1>11. (m.done = << >> <=> k = 0) /\ N \notin {Null} /\ k # Null
  <2>1. k \in Nat /\ N \in Nat
    BY <1>7, <1>10
  <2> HIDE DEF N, k
  <2>2. k # Null /\ N # Null
    BY <2>1, ChainsAssumption
  <2> QED
    BY <1>10, <2>2 DEF k
<1>12. \A j \in 0..N : CanComplete(o, q, j) <=> \E c : Completion(w, steps, j, c)
  BY CompletesAre DEF w
<1>13. R = IF m.done = << >> \/ (q.mode = "sequence" /\ k < N) THEN {} ELSE {row}
  BY DEF RowsOf, SequenceMatches, m
<1>14. row.completed = k /\ row.total = N /\ row.first = m.first.at /\ row.last = Last(m.done).at /\ row.anchor = Last(m.done)
       /\ row.customer = m.first.customer /\ row.dropoff = IF q.mode = "funnel" /\ k < N THEN k ELSE Null
  BY DEF SequenceRow
<1>15. ASSUME k # 0, ~(q.mode = "sequence" /\ k < N) PROVE RowSound(row, o, q)
  <2>1. k > 0 /\ k \in 1..N /\ 1 \in 1..N /\ low \in 1..n
    BY <1>7, <1>10, <1>15
  <2>2. PICK f \in 1..low : m.first = w[f] /\ MatchesStep(w[f], steps[1])
    BY <1>10, <2>1
  <2>3. f \in 1..n /\ steps[1] \in S
    BY <1>7, <2>1
  <2>4. o[f] \in ToSet(o) /\ o[f].at = row.first /\ MatchesStep(o[f], steps[1]) /\ o[f].customer = row.customer
    <3> HIDE DEF row, S
    <3> QED
      BY <1>2, <1>3, <1>4, <1>14, <2>2, <2>3
  <2>5. row.last - row.first <= span /\ row.last = row.anchor.at
    <3> HIDE DEF row
    <3> QED
      BY <1>10, <1>14, <2>1
  <2>6. CanComplete(o, q, k)
    BY <1>10, <1>12
  <2>7. row.dropoff = Null <=> (q.mode = "sequence" \/ row.completed = row.total)
    <3>1. k < N <=> k # N
      BY <1>7, <1>10
    <3> HIDE DEF row, k, N
    <3> QED
      BY <1>11, <1>14, <1>15, <3>1
  <2> HIDE DEF row, k, low
  <2> QED
    BY <1>14, <2>1, <2>4, <2>5, <2>6, <2>7 DEF RowSound
<1>16. \A r \in R : RowSound(r, o, q)
  <2> HIDE DEF R, row
  <2> QED
    BY <1>11, <1>13, <1>15
<1>17. Reported(R, o, q)
  <2> SUFFICES ASSUME NEW j \in 1..N, Early(o, q.span), CanComplete(o, q, j), q.mode = "funnel" \/ j = N
               PROVE  \E r \in R : r.completed >= j
    BY DEF Reported
  <2>1. Early(w, span)
    <3> HIDE DEF n
    <3>1. \A i \in 1..n : o[i].at <= span
      BY DEF Early, n
    <3> QED
      BY <1>1, <1>2, <3>1 DEF Early
  <2>2. PICK c : Completion(w, steps, j, c)
    <3>1. j \in 0..N
      OBVIOUS
    <3> QED
      BY <1>12, <3>1
  <2>3. ASSUME k < j PROVE FALSE
    <3> DEFINE l == k + 1
    <3>1. m.stopped
      BY <1>7, <1>10, <2>3
    <3>2. l \in 0..j /\ j \in Nat
      BY <1>10, <2>3
    <3>3. \A d : ~Completion(w, steps, l, d)
      BY <1>10, <2>1, <3>1
    <3> HIDE DEF l, steps
    <3>4. HasPrefix(w, steps, l, j, c)
      BY <2>2, <3>2, CompletionPrefix
    <3> QED
      BY <3>3, <3>4 DEF HasPrefix
  <2>4. k >= j /\ k # 0
    BY <1>7, <1>10, <2>3
  <2>5. q.mode = "sequence" => k = N
    BY <1>7, <1>10, <2>4
  <2>6. row \in R
    <3> HIDE DEF row, R, k, N
    <3>1. ~(N < N)
      BY <1>7
    <3> QED
      BY <1>11, <1>13, <2>4, <2>5, <3>1
  <2> HIDE DEF row, R, k
  <2> QED
    BY <1>14, <2>4, <2>6
<1> QED
  BY <1>16, <1>17 DEF w

\* A sequence or a funnel reports steps that happened in their order and within the span,
\* whatever was stored, and without a binding span it misses none.
LEMMA SequenceHolds ==
  ASSUME NEW events \in Timelines, NEW q \in Queries, q.mode \in {"sequence", "funnel"}
  PROVE  SequenceSound(events, q)
<1> DEFINE E == ToSet(events)
           M == AsStored(E, q)
           own(c) == Only(events, CustomersOwn(E, c, q))
           R(c) == RowsOf(Work(events, E, c, q), q)
           customers == {e.customer : e \in StoredOf(E, q)}
           rows == Sequences(events, q, FALSE)
           n == Len(events)
<1>1. events \in Seq(E) /\ (\A e \in E : Whole(e)) /\ Stamped(E) /\ Numbered(E)
  BY TimelinesAssumption DEF Whole, Stamped, Numbered
<1>2. Ordered(events) /\ DOMAIN events = 1..n /\ n \in Nat
  <2>1. DOMAIN events = 1..n /\ n \in Nat
    BY <1>1
  <2>2. \A i, j \in DOMAIN events : i < j => Precedes(events[i], events[j])
    BY TimelinesAssumption
  <2> HIDE DEF n
  <2>3. \A i, j \in 1..n : i < j => Precedes(events[i], events[j])
    <3>1. DOMAIN events = 1..n
      BY <2>1
    <3> QED
      BY <2>2, <3>1
  <2>4. Ordered(events)
    BY <2>3 DEF Ordered, n
  <2> QED
    BY <2>1, <2>4
<1>3. Steps(q)
  BY QueriesAssumption, DescribedIs DEF Steps
<1>4. q.span \in Nat
  BY QueriesAssumption
<1>5. rows = UNION {R(c) : c \in customers}
  BY ZenonT(60), <1>1, SequencesAre
<1>6. \A i \in 1..n : events[i] \in E
  BY <1>1
<1> HIDE DEF E
<1>7. ASSUME NEW c PROVE own(c) \in Seq(E) /\ InTime(own(c)) /\ ToSet(own(c)) = E \cap CustomersOwn(E, c, q)
  <2> DEFINE o == own(c)
  <2>1. o \in Seq(E) /\ ToSet(o) = ToSet(events) \cap CustomersOwn(E, c, q) /\ Ordered(o)
    BY <1>1, <1>2, OnlyHas, OrderedOnly
  <2> HIDE DEF o
  <2>2. ASSUME NEW i \in 1..Len(o), NEW j \in 1..Len(o), i <= j PROVE o[i].at <= o[j].at
    <3>1. o[i] \in E /\ o[j] \in E
      BY <2>1
    <3>2. CASE i = j
      <4>1. o[i].at \in Nat
        BY <1>1, <3>1 DEF Stamped
      <4> QED
        BY <3>2, <4>1
    <3>3. CASE i < j
      <4>1. Precedes(o[i], o[j])
        BY <2>1, <3>3 DEF Ordered
      <4> QED
        BY <1>1, <3>1, <4>1, OrderIs
    <3> QED
      BY <2>2, <3>2, <3>3
  <2>3. InTime(o)
    BY <2>2 DEF InTime
  <2> QED
    BY <2>1, <2>3 DEF o, E
<1>8. ASSUME NEW c PROVE (\A r \in R(c) : RowSound(r, own(c), q) /\ r.customer = c) /\ Reported(R(c), own(c), q)
  <2> DEFINE o == own(c)
  <2>1. o \in Seq(E) /\ InTime(o) /\ ToSet(o) = E \cap CustomersOwn(E, c, q)
    BY <1>7
  <2>2. R(c) = RowsOf(MappedBy(o, M), q)
    BY DEF Work
  <2>3. Storing(M, E, q)
    BY <1>1 DEF Storing, AsStored
  <2> HIDE DEF o, M, R
  <2>4. (\A r \in RowsOf(MappedBy(o, M), q) : RowSound(r, o, q)) /\ Reported(RowsOf(MappedBy(o, M), q), o, q)
    BY <1>1, <1>3, <1>4, <2>1, <2>3, RowsReported
  <2>5. \A r \in R(c) : r.customer = c
    BY <2>1, <2>2, <2>4 DEF RowSound, CustomersOwn
  <2> QED
    BY <2>2, <2>4, <2>5 DEF o
<1> HIDE DEF R, own, rows
<1>9. ASSUME NEW r \in rows
      PROVE  /\ CanComplete(own(r.customer), q, r.completed)
             /\ r.last - r.first <= q.span /\ r.last = r.anchor.at
             /\ r.dropoff = Null <=> (q.mode = "sequence" \/ r.completed = r.total)
             /\ \E e \in ToSet(own(r.customer)) : e.at = r.first /\ MatchesStep(e, q.steps[1])
  <2>1. PICK c : r \in R(c)
    BY <1>5
  <2>2. RowSound(r, own(c), q) /\ r.customer = c
    BY <1>8, <2>1
  <2> QED
    BY <2>2 DEF RowSound
<1>10. ASSUME NEW c, NEW k \in 1..Len(q.steps), q.span >= Last(events).at, CanComplete(own(c), q, k),
              q.mode = "funnel" \/ k = Len(q.steps)
       PROVE  \E r \in rows : r.customer = c /\ r.completed >= k
  <2> DEFINE o == own(c)
  <2>1. o \in Seq(E) /\ ToSet(o) = E \cap CustomersOwn(E, c, q)
    BY <1>7
  <2> HIDE DEF o
  <2>2. PICK x \in DOMAIN o : TRUE
    <3>1. PICK d \in [1..k -> DOMAIN o] : TRUE
      BY <1>10 DEF CanComplete, o
    <3>2. 1 \in 1..k
      OBVIOUS
    <3> QED
      BY <3>1, <3>2
  <2>3. c \in customers
    <3>1. o[x] \in CustomersOwn(E, c, q)
      BY <2>1, <2>2 DEF ToSet
    <3>2. o[x] \in StoredOf(E, q) /\ o[x].customer = c
      BY <3>1 DEF CustomersOwn, StoredOf
    <3> QED
      BY <3>2
  <2>4. Early(o, q.span)
    <3>1. ASSUME NEW e \in E PROVE e.at <= q.span
      <4>1. PICK i \in 1..n : e = events[i]
        BY <1>2 DEF E, ToSet
      <4>2. n \in 1..n /\ i <= n /\ Last(events) = events[n]
        BY <1>2, <4>1 DEF Last
      <4>3. i = n \/ i < n
        <5>1. i \in Int /\ n \in Int /\ i <= n
          BY <1>2, <4>2
        <5> HIDE DEF n
        <5> QED
          BY <5>1
      <4>4. events[n] \in E /\ events[n].at \in Nat /\ e.at \in Nat
        BY <1>1, <1>6, <4>2 DEF Stamped
      <4>5. e.at <= events[n].at
        <5>1. CASE i = n
          BY <4>1, <4>4, <5>1
        <5>2. CASE i < n
          <6>1. Precedes(e, events[n])
            BY <1>2, <4>1, <4>2, <5>2 DEF Ordered
          <6> QED
            BY <1>1, <4>4, <6>1, OrderIs
        <5> QED
          BY <4>3, <5>1, <5>2
      <4> QED
        BY <1>4, <1>10, <4>2, <4>4, <4>5
    <3>2. \A i \in 1..Len(o) : o[i] \in E
      BY <2>1
    <3> QED
      BY <3>1, <3>2 DEF Early
  <2>5. PICK r \in R(c) : r.completed >= k
    BY <1>8, <1>10, <2>4 DEF Reported, o
  <2>6. r.customer = c /\ r \in rows
    BY <1>5, <1>8, <2>3
  <2> QED
    BY <2>5, <2>6
<1>11. q.mode = "funnel" => Sequences(events, q, TRUE) = {}
  BY DEF Sequences
<1> HIDE DEF customers, n
<1>12. \A c : own(c) = Only(events, {e \in ToSet(events) : e.customer = c /\ Stored(e, q)})
  BY DEF own, CustomersOwn, E
<1> DEFINE hers(c) == Only(events, {e \in ToSet(events) : e.customer = c /\ Stored(e, q)})
<1>13. SequenceSound(events, q)
         <=> /\ \A r \in rows :
                  /\ CanComplete(hers(r.customer), q, r.completed)
                  /\ r.last - r.first <= q.span /\ r.last = r.anchor.at
                  /\ r.dropoff = Null <=> (q.mode = "sequence" \/ r.completed = r.total)
                  /\ \E e \in ToSet(hers(r.customer)) : e.at = r.first /\ MatchesStep(e, q.steps[1])
             /\ \A c \in {e.customer : e \in ToSet(events)}, k \in 1..Len(q.steps) :
                  q.span >= Last(events).at /\ CanComplete(hers(c), q, k) /\ (q.mode = "funnel" \/ k = Len(q.steps))
                    => \E r \in rows : r.customer = c /\ r.completed >= k
             /\ q.mode = "funnel" => Sequences(events, q, TRUE) = {}
  BY DEF SequenceSound, rows, Those
<1>14. \A c : own(c) = hers(c)
  BY <1>12
<1> HIDE DEF hers
<1>15. ASSUME NEW r \in rows
       PROVE  /\ CanComplete(hers(r.customer), q, r.completed)
              /\ r.last - r.first <= q.span /\ r.last = r.anchor.at
              /\ r.dropoff = Null <=> (q.mode = "sequence" \/ r.completed = r.total)
              /\ \E e \in ToSet(hers(r.customer)) : e.at = r.first /\ MatchesStep(e, q.steps[1])
  <2>1. own(r.customer) = hers(r.customer)
    BY <1>14
  <2> QED
    BY <1>9, <2>1
<1>16. ASSUME NEW c \in {e.customer : e \in ToSet(events)}, NEW k \in 1..Len(q.steps),
              q.span >= Last(events).at /\ CanComplete(hers(c), q, k) /\ (q.mode = "funnel" \/ k = Len(q.steps))
       PROVE  \E r \in rows : r.customer = c /\ r.completed >= k
  <2>1. own(c) = hers(c)
    BY <1>14
  <2> QED
    BY <1>10, <1>16, <2>1
<1> QED
  BY <1>11, <1>13, <1>15, <1>16, Zenon

-----------------------------------------------------------------------------
(* Sequences of different events are counted by their sets.                *)

LEMMA CountIs ==
  ASSUME NEW E, Numbered(E), NEW q \in Seq(E), Ordered(q), NEW S
  PROVE  Len(Only(q, S)) = Cardinality(ToSet(q) \cap S) /\ IsFiniteSet(ToSet(q))
<1> DEFINE o == Only(q, S)
           n == Len(o)
<1>1. o \in Seq(E) /\ ToSet(o) = ToSet(q) \cap S /\ Ordered(o)
  BY OnlyHas, OrderedOnly
<1>2. n \in Nat /\ DOMAIN o = 1..n /\ \A i \in 1..n : o[i] \in E
  BY <1>1
<1>3. Ordered(o) <=> \A i, j \in 1..n : i < j => Precedes(o[i], o[j])
  BY DEF Ordered
<1> HIDE DEF o, n
<1>4. ASSUME NEW i \in 1..n, NEW j \in 1..n, o[i] = o[j] PROVE i = j
  <2>1. ~(i < j)
    <3>1. ASSUME i < j PROVE FALSE
      <4>1. Precedes(o[i], o[j])
        BY <1>1, <1>3, <3>1
      <4> QED
        BY <1>2, <1>4, <4>1, OrderIs
    <3> QED
      BY <3>1
  <2>2. ~(j < i)
    <3>1. ASSUME j < i PROVE FALSE
      <4>1. Precedes(o[j], o[i])
        BY <1>1, <1>3, <3>1
      <4> QED
        BY <1>2, <1>4, <4>1, OrderIs
    <3> QED
      BY <3>1
  <2>3. i \in Int /\ j \in Int
    BY <1>2
  <2> QED
    BY <2>1, <2>2, <2>3
<1>5. Different(o, n, E)
  BY <1>1, <1>2, <1>4 DEF Different, IsInjective, n
<1>6. Cardinality(ToSet(o)) = n
  BY <1>5, DifferentAre
<1>7. IsFiniteSet(ToSet(q))
  BY ElementsAreFinite
<1> QED
  BY <1>1, <1>6, <1>7 DEF n, o

-----------------------------------------------------------------------------
(* The first events by customer.                                           *)

Remembered(seq) == FoldLeft(Remember, << >>, seq)

\* An event of E by customer, for the customers of some.
Anchors(E) == UNION {[C -> E] : C \in SUBSET {e.customer : e \in E}}

RememberedOver(E, V) == \A x \in V, d \in E : Remember(x, d) \in V
RememberedGoes(E, q) == Remembered(<< >>) = << >> /\ \A e \in E : Remembered(Append(q, e)) = Remember(Remembered(q), e)

LEMMA RememberedTrace ==
  ASSUME NEW E, NEW V, << >> \in V, RememberedOver(E, V), NEW seq \in Seq(E)
  PROVE  GoesTo(V, [p \in V \X E |-> Remember(p[1], p[2])], << >>, seq, Remembered(seq))
<1> DEFINE n == Len(seq)
           base == << >>
           G == [p \in V \X E |-> Remember(p[1], p[2])]
           op(x, i) == Remember(x, seq[i])
           Fix(f) == f = [s \in SUBSET (1..n) |-> IF s = {} THEN base ELSE op(f[s \ {Max(s)}], Max(s))]
           F == [p \in V \X (1..n) |-> op(p[1], p[2])]
           all == CHOOSE f : Fix(f)
<1>0. n \in Nat /\ DOMAIN seq = 1..n /\ base \in V /\ \A i \in 1..n : seq[i] \in E
  OBVIOUS
<1>1. Remembered(seq) = all[1..n]
  BY <1>0 DEF Remembered, FoldLeft, MapThenFoldSet
<1>2. F \in [V \X (1..n) -> V] /\ \A x \in V, i \in 1..n : F[<<x, i>>] = op(x, i) /\ op(x, i) = G[<<x, seq[i]>>]
  BY <1>0 DEF RememberedOver
<1> HIDE DEF op, F, G, base, n
<1>3. Fix(all)
  <2>1. PICK f \in [SUBSET (1..n) -> V] : FoldOf(F, base, n, f)
    BY <1>0, <1>2, FoldExists
  <2>2. ASSUME NEW s \in SUBSET (1..n) PROVE f[s] = IF s = {} THEN base ELSE op(f[s \ {Max(s)}], Max(s))
    <3>1. f[s] = IF s = {} THEN base ELSE F[<<f[s \ {Max(s)}], Max(s)>>]
      BY <2>1 DEF FoldOf
    <3>2. s # {} => Max(s) \in 1..n /\ f[s \ {Max(s)}] \in V
      BY <1>0, <2>1, MaxIn
    <3> QED
      BY <1>2, <3>1, <3>2
  <2>3. Fix(f)
    BY <2>1, <2>2
  <2> HIDE DEF Fix
  <2> QED
    BY <2>3
<1> HIDE DEF all
<1>4. Unfolds(V, F, base, n, all)
  <2>1. \A s \in SUBSET (1..n) : s # {} => Max(s) \in 1..n
    BY <1>0, MaxIn
  <2> QED
    BY <1>2, <1>3, <2>1 DEF Unfolds
<1>5. RunsTo(V, F, base, n, Remembered(seq))
  <2>1. F \in [V \X (1..n) -> V]
    BY <1>2
  <2>2. RunsTo(V, F, base, n, all[1..n])
    BY <1>0, <1>4, <2>1, FoldTrace
  <2> QED
    BY <1>1, <2>2
<1>6. \A x \in V, i \in 1..n : F[<<x, i>>] = G[<<x, seq[i]>>]
  BY ZenonT(60), <1>2
<1>7. GoesTo(V, G, base, seq, Remembered(seq))
  BY <1>0, <1>5, <1>6, RunsGo DEF n
<1> QED
  BY <1>7 DEF G, base

LEMMA RememberedLaw ==
  ASSUME NEW E, NEW V, << >> \in V, RememberedOver(E, V), NEW q \in Seq(E)
  PROVE  RememberedGoes(E, q) /\ Remembered(q) \in V
<1> DEFINE G == [p \in V \X E |-> Remember(p[1], p[2])]
           base == << >>
           none == << >>
           x == Remembered(q)
<1>1. GoesTo(V, G, base, q, x)
  BY RememberedTrace
<1>2. GoesTo(V, G, base, none, Remembered(none))
  <2>1. none \in Seq(E)
    OBVIOUS
  <2> QED
    BY <2>1, RememberedTrace
<1>3. \A y \in V, e \in E : G[<<y, e>>] = Remember(y, e)
  OBVIOUS
<1> HIDE DEF G, base, none, x
<1>4. x \in V /\ Remembered(none) = base
  BY <1>1, <1>2, GoesIn, GoesNowhere DEF none
<1>5. ASSUME NEW e \in E PROVE Remembered(Append(q, e)) = Remember(x, e)
  <2> DEFINE longer == Append(q, e)
  <2>1. longer \in Seq(E)
    BY AppendIs
  <2>2. GoesTo(V, G, base, longer, Remembered(longer))
    BY <2>1, RememberedTrace DEF G, base
  <2> HIDE DEF longer
  <2>3. Remembered(longer) = G[<<x, e>>]
    BY <1>1, <2>2, GoesOn DEF longer
  <2> QED
    BY <1>3, <1>4, <2>3 DEF longer
<1> QED
  BY <1>4, <1>5 DEF base, none, x, RememberedGoes

LEMMA RememberIs ==
  ASSUME NEW E, NEW a \in Anchors(E), NEW e \in E
  PROVE  Remember(a, e) \in Anchors(E) /\ DOMAIN Remember(a, e) = DOMAIN a \cup {e.customer}
<1> DEFINE all == {x.customer : x \in E}
<1>1. PICK C \in SUBSET all : a \in [C -> E]
  BY DEF Anchors
<1> DEFINE D == C \cup {e.customer}
<1>2. D \in SUBSET all /\ DOMAIN a = C
  BY <1>1
<1>3. Remember(a, e) \in [D -> E]
  BY <1>1, <1>2 DEF Remember
<1> HIDE DEF D, all
<1>4. DOMAIN Remember(a, e) = D
  BY <1>3
<1> QED
  BY <1>2, <1>3, <1>4 DEF Anchors, D, all

LEMMA NoAnchors ==
  ASSUME NEW E
  PROVE  << >> \in Anchors(E) /\ DOMAIN << >> = {}
<1>1. << >> \in [{} -> E]
  OBVIOUS
<1>2. {} \in SUBSET {e.customer : e \in E}
  OBVIOUS
<1> QED
  BY <1>1, <1>2 DEF Anchors

LEMMA RememberedAre ==
  ASSUME NEW E, NEW q \in Seq(E)
  PROVE  DOMAIN Remembered(q) = {e.customer : e \in ToSet(q)}
<1> DEFINE Z == {p \in Seq(E) : DOMAIN Remembered(p) = {e.customer : e \in ToSet(p)}}
           V == Anchors(E)
           base == << >>
<1>1. base \in V /\ DOMAIN base = {}
  BY NoAnchors
<1>2. RememberedOver(E, V)
  BY RememberIs DEF RememberedOver
<1>3. ASSUME NEW p \in Seq(E)
      PROVE  Remembered(base) = base /\ Remembered(p) \in V
             /\ \A e \in E : Remembered(Append(p, e)) = Remember(Remembered(p), e)
  <2>1. RememberedGoes(E, p) /\ Remembered(p) \in V
    BY <1>1, <1>2, RememberedLaw
  <2> QED
    BY <2>1 DEF RememberedGoes
<1>4. << >> \in Z
  <2>1. << >> \in Seq(E)
    OBVIOUS
  <2>2. Remembered(base) = base
    BY <1>3, <2>1
  <2>3. ToSet(<< >>) = {}
    BY DEF ToSet
  <2> QED
    BY <1>1, <2>1, <2>2, <2>3
<1>5. ASSUME NEW p \in Seq(E), NEW e \in E, p \in Z PROVE Append(p, e) \in Z
  <2> DEFINE a == Append(p, e)
             r == Remembered(p)
  <2>1. a \in Seq(E) /\ ToSet(a) = ToSet(p) \cup {e}
    BY AppendIs, AppendSet
  <2>2. r \in V /\ Remembered(a) = Remember(r, e) /\ DOMAIN r = {x.customer : x \in ToSet(p)}
    BY <1>3, <1>5
  <2> HIDE DEF a, r
  <2>3. DOMAIN Remembered(a) = DOMAIN r \cup {e.customer}
    BY ZenonT(60), <2>2, RememberIs
  <2>4. DOMAIN Remembered(a) = {x.customer : x \in ToSet(a)}
    BY <2>1, <2>2, <2>3
  <2> QED
    BY <2>1, <2>4 DEF a
<1> HIDE DEF Z
<1>6. q \in Z
  BY <1>4, <1>5, SeqInduction
<1> QED
  BY <1>6 DEF Z

-----------------------------------------------------------------------------
(* Sums of counts.                                                         *)

CountsSum(R) == MapThenSumSet(LAMBDA r : r.count, R)

\* h adds up the counts of any rows of R.
Adds(h, R) ==
  /\ h = [s \in SUBSET R |-> h[s]] /\ h[{}] = 0
  /\ \A s \in SUBSET R, r \in R : r \in s => h[s] = r.count + h[s \ {r}]

LEMMA SumIs ==
  ASSUME NEW R, IsFiniteSet(R), NEW h, Adds(h, R)
  PROVE  CountsSum(R) = h[R]
<1> DEFINE pick(s) == CHOOSE x \in s : TRUE
           Fix(f) == f = [s \in SUBSET R |-> IF s = {} THEN 0 ELSE pick(s).count + f[s \ {pick(s)}]]
           all == CHOOSE f : Fix(f)
<1>1. CountsSum(R) = all[R]
  BY DEF CountsSum, MapThenSumSet, MapThenFoldSet
<1>2. \A s : s # {} => pick(s) \in s
  OBVIOUS
<1> HIDE DEF pick
<1>3. ASSUME NEW s \in SUBSET R PROVE h[s] = IF s = {} THEN 0 ELSE pick(s).count + h[s \ {pick(s)}]
  <2>1. CASE s = {}
    BY <2>1 DEF Adds
  <2>2. CASE s # {}
    <3>1. pick(s) \in s /\ pick(s) \in R
      BY <1>2, <2>2
    <3> QED
      BY <2>2, <3>1 DEF Adds
  <2> QED
    BY <2>1, <2>2
<1>4. Fix(h)
  <2>1. h = [s \in SUBSET R |-> h[s]]
    BY DEF Adds
  <2>2. [s \in SUBSET R |-> h[s]] = [s \in SUBSET R |-> IF s = {} THEN 0 ELSE pick(s).count + h[s \ {pick(s)}]]
    BY <1>3
  <2> QED
    BY <2>1, <2>2
<1>5. Fix(all)
  <2> HIDE DEF Fix
  <2> QED
    BY <1>4
<1> HIDE DEF all
<1>6. \A s \in SUBSET R : all[s] = IF s = {} THEN 0 ELSE pick(s).count + all[s \ {pick(s)}]
  BY <1>5
<1> DEFINE Z == {n \in Nat : \A s \in SUBSET R : Cardinality(s) = n => all[s] = h[s]}
<1>7. \A s \in SUBSET R : IsFiniteSet(s) /\ Cardinality(s) \in Nat
  BY FS_Subset, FS_CardinalityType
<1>8. 0 \in Z
  <2>1. ASSUME NEW s \in SUBSET R, Cardinality(s) = 0 PROVE all[s] = h[s]
    <3>1. s = {}
      BY <1>7, <2>1, FS_EmptySet
    <3> QED
      BY <1>3, <1>6, <3>1
  <2> QED
    BY <2>1
<1>9. ASSUME NEW n \in Z PROVE n + 1 \in Z
  <2>1. ASSUME NEW s \in SUBSET R, Cardinality(s) = n + 1 PROVE all[s] = h[s]
    <3>1. s # {}
      <4>1. n \in Nat /\ n + 1 # 0
        OBVIOUS
      <4> QED
        BY <2>1, <4>1, FS_EmptySet
    <3> DEFINE t == s \ {pick(s)}
    <3>2. t \in SUBSET R /\ Cardinality(t) = n
      <4>1. Cardinality(t) = Cardinality(s) - 1
        BY <1>2, <1>7, <3>1, FS_RemoveElement
      <4>2. n \in Nat
        OBVIOUS
      <4> QED
        BY <2>1, <4>1, <4>2
    <3>3. all[t] = h[t]
      BY <1>9, <3>2
    <3>4. all[s] = pick(s).count + all[t] /\ h[s] = pick(s).count + h[t]
      BY <1>3, <1>6, <3>1
    <3> QED
      BY <3>3, <3>4
  <2> QED
    BY <2>1
<1>10. Z \in SUBSET Nat
  OBVIOUS
<1> HIDE DEF Z
<1>11. Z = Nat
  BY <1>8, <1>9, <1>10, SetInduction
<1>12. all[R] = h[R]
  BY <1>7, <1>11 DEF Z
<1> QED
  BY <1>1, <1>12

-----------------------------------------------------------------------------
(* The values of a field.                                                  *)

\* The events of E that may have field f, and those with value w.
Having(E, f) == {e \in E : e.source = f.source}
Valuing(E, f, w) == {e \in Having(E, f) : Value(e, f) = w}

ValueRow(E, f, w) ==
  [value |-> w, count |-> Cardinality(Valuing(E, f, w)), missing |-> Cardinality(Valuing(E, f, Null)),
   total |-> Cardinality(Having(E, f))]
ValueRows(E, f) == {ValueRow(E, f, w) : w \in {Value(e, f) : e \in Having(E, f)}}

\* The events with a value of some rows.
Rowed(E, f, s) == {e \in Having(E, f) : \E r \in s : r.value = Value(e, f)}

LEMMA RowsAddUp ==
  ASSUME NEW E, IsFiniteSet(E), NEW f
  PROVE  CountsSum(ValueRows(E, f)) = Cardinality(Having(E, f))
<1> DEFINE A == Having(E, f)
           R == ValueRows(E, f)
           h == [s \in SUBSET R |-> Cardinality(Rowed(E, f, s))]
<1>1. IsFiniteSet(A)
  BY FS_Subset DEF Having
<1>2. IsFiniteSet(R)
  <2> DEFINE g == [e \in A |-> ValueRow(E, f, Value(e, f))]
  <2>1. R = {g[e] : e \in A}
    BY DEF ValueRows
  <2> HIDE DEF g, R, A
  <2> QED
    BY <1>1, <2>1, ImageIsFinite
<1>3. \A s : IsFiniteSet(Rowed(E, f, s)) /\ Cardinality(Rowed(E, f, s)) \in Nat
  <2>1. \A s : Rowed(E, f, s) \in SUBSET A
    BY DEF Rowed
  <2> QED
    BY <1>1, <2>1, FS_Subset, FS_CardinalityType
<1>4. \A w : IsFiniteSet(Valuing(E, f, w)) /\ Cardinality(Valuing(E, f, w)) \in Nat
  <2>1. \A w : Valuing(E, f, w) \in SUBSET A
    BY DEF Valuing
  <2> QED
    BY <1>1, <2>1, FS_Subset, FS_CardinalityType
<1>5. \A r \in R : r.count = Cardinality(Valuing(E, f, r.value)) /\ r = ValueRow(E, f, r.value)
  BY DEF ValueRows, ValueRow
<1>6. Rowed(E, f, {}) = {} /\ Rowed(E, f, R) = A
  <2>1. \A e \in A : ValueRow(E, f, Value(e, f)) \in R /\ ValueRow(E, f, Value(e, f)).value = Value(e, f)
    BY DEF ValueRows, ValueRow
  <2> QED
    BY <2>1 DEF Rowed
<1> HIDE DEF A, R
<1>7. ASSUME NEW s \in SUBSET R, NEW r \in s
      PROVE  Cardinality(Rowed(E, f, s)) = r.count + Cardinality(Rowed(E, f, s \ {r}))
  <2> DEFINE x == Rowed(E, f, s)
             y == Rowed(E, f, s \ {r})
             z == Valuing(E, f, r.value)
  <2>1. x = z \cup y
    BY DEF Rowed, Valuing
  <2>2. z \cap y = {}
    <3>1. ASSUME NEW e \in z, e \in y PROVE FALSE
      <4>1. PICK t \in s \ {r} : t.value = Value(e, f)
        BY <3>1 DEF Rowed
      <4>2. Value(e, f) = r.value
        BY DEF Valuing
      <4> QED
        BY <1>5, <4>1, <4>2
    <3> QED
      BY <3>1
  <2>3. IsFiniteSet(z) /\ IsFiniteSet(y) /\ Cardinality(z) \in Nat /\ Cardinality(y) \in Nat
    BY <1>3, <1>4
  <2>4. r.count = Cardinality(z)
    BY <1>5
  <2> HIDE DEF x, y, z
  <2>5. Cardinality(x) = Cardinality(z) + Cardinality(y) - Cardinality({})
    BY <2>1, <2>2, <2>3, FS_Union
  <2>6. Cardinality(x) = r.count + Cardinality(y)
    BY <2>3, <2>4, <2>5, FS_EmptySet
  <2> QED
    BY <2>6 DEF x, y
<1>8. Adds(h, R)
  <2>1. \A s \in SUBSET R : h[s] = Cardinality(Rowed(E, f, s))
    OBVIOUS
  <2>2. h = [s \in SUBSET R |-> h[s]]
    OBVIOUS
  <2>3. h[{}] = 0
    <3>1. h[{}] = Cardinality({})
      BY <1>6, <2>1
    <3> QED
      BY <3>1, FS_EmptySet
  <2> HIDE DEF h
  <2>4. ASSUME NEW s \in SUBSET R, NEW r \in R, r \in s PROVE h[s] = r.count + h[s \ {r}]
    <3>1. s \ {r} \in SUBSET R
      OBVIOUS
    <3>2. h[s] = Cardinality(Rowed(E, f, s)) /\ h[s \ {r}] = Cardinality(Rowed(E, f, s \ {r}))
      BY <2>1, <3>1
    <3> QED
      BY <1>7, <2>4, <3>2
  <2> QED
    BY <2>2, <2>3, <2>4 DEF Adds
<1>9. h[R] = Cardinality(A)
  BY <1>6
<1> HIDE DEF h
<1>10. CountsSum(R) = h[R]
  BY <1>2, <1>8, SumIs
<1> QED
  BY <1>9, <1>10 DEF R, A

LEMMA ValuedIs ==
  ASSUME NEW E, Numbered(E), NEW events \in Seq(E), ToSet(events) = E, Ordered(events), NEW f, f.scope # "canonical"
  PROVE  /\ Valued(events, [field |-> f, predicates |-> {}]).rows = ValueRows(E, f)
         /\ DOMAIN Valued(events, [field |-> f, predicates |-> {}]).anchors = {e.customer : e \in Having(E, f)}
         /\ Len(Only(events, Having(E, f))) = Cardinality(Having(E, f))
         /\ Only(events, Having(E, f)) \in Seq(E)
<1> DEFINE A == Having(E, f)
           o == Only(events, A)
           q == [field |-> f, predicates |-> {}]
           hits == Those(events, LAMBDA e : Matches(e, q.predicates) /\ Applicable(e, q.field))
<1>1. \A e \in E : Matches(e, {}) /\ (Applicable(e, f) <=> e.source = f.source)
  BY DEF Matches, Applicable
<1>2. hits = o
  <2>1. {e \in E : Matches(e, {}) /\ Applicable(e, f)} = A
    BY <1>1 DEF Having
  <2> QED
    BY <2>1 DEF Those
<1>3. o \in Seq(E) /\ ToSet(o) = A /\ Ordered(o)
  <2>1. o \in Seq(E) /\ ToSet(o) = ToSet(events) \cap A /\ Ordered(o)
    BY OnlyHas, OrderedOnly
  <2> QED
    BY <2>1 DEF Having
<1>4. Len(o) = Cardinality(A)
  <2>1. Len(o) = Cardinality(ToSet(events) \cap A)
    BY CountIs
  <2>2. E \cap A = A
    BY DEF Having
  <2> QED
    BY <2>1, <2>2
<1>5. ASSUME NEW w PROVE Len(Those(o, LAMBDA e : Value(e, f) = w)) = Cardinality(Valuing(E, f, w))
  <2> DEFINE S == {e \in A : Value(e, f) = w}
  <2>1. Those(o, LAMBDA e : Value(e, f) = w) = Only(o, S)
    BY <1>3 DEF Those
  <2> HIDE DEF o
  <2>2. Len(Only(o, S)) = Cardinality(ToSet(o) \cap S)
    BY <1>3, CountIs
  <2>3. ToSet(o) \cap S = Valuing(E, f, w)
    BY <1>3 DEF Valuing
  <2> QED
    BY <2>1, <2>2, <2>3
<1> DEFINE mine(h, w) == [value |-> w, count |-> Len(Those(h, LAMBDA e : Value(e, f) = w)),
                          missing |-> Len(Those(h, LAMBDA e : Value(e, f) = Null)), total |-> Len(h)]
<1>6. Valued(events, q).rows = {mine(hits, w) : w \in {Value(e, f) : e \in ToSet(hits)}}
  BY DEF Valued
<1>7. Valued(events, q).anchors = Remembered(hits)
  BY DEF Valued, Remembered
<1> HIDE DEF hits, o, A
<1>8. \A w : mine(o, w) = ValueRow(E, f, w)
  BY <1>4, <1>5 DEF ValueRow, A
<1> HIDE DEF mine
<1>9. Valued(events, q).rows = ValueRows(E, f)
  <2>1. Valued(events, q).rows = {mine(o, w) : w \in {Value(e, f) : e \in A}}
    BY <1>2, <1>3, <1>6, Zenon
  <2>2. {mine(o, w) : w \in {Value(e, f) : e \in A}} = {ValueRow(E, f, w) : w \in {Value(e, f) : e \in A}}
    BY <1>8
  <2> QED
    BY <2>1, <2>2 DEF ValueRows, A
<1>10. DOMAIN Valued(events, q).anchors = {e.customer : e \in A}
  BY <1>2, <1>3, <1>7, RememberedAre
<1> QED
  BY <1>3, <1>4, <1>9, <1>10 DEF A, o

\* The catalog's views of a field agree: the rows of its values add up to the events that
\* may have it, and a query may filter by it only when it is public.
LEMMA CatalogHolds ==
  ASSUME NEW events \in Timelines
  PROVE  CatalogSound(events)
<1> DEFINE E == ToSet(events)
<1>1. events \in Seq(E) /\ Numbered(E)
  BY TimelinesAssumption DEF Numbered
<1>2. Ordered(events)
  <2> DEFINE n == Len(events)
  <2>1. DOMAIN events = 1..n
    BY <1>1
  <2>2. \A i, j \in DOMAIN events : i < j => Precedes(events[i], events[j])
    BY TimelinesAssumption
  <2> HIDE DEF n
  <2>3. \A i, j \in 1..n : i < j => Precedes(events[i], events[j])
    BY <2>1, <2>2
  <2> QED
    BY <2>3 DEF Ordered, n
<1>3. IsFiniteSet(E)
  BY <1>1, ElementsAreFinite
<1> HIDE DEF E
<1>4. ASSUME NEW p \in Predicates, p.field.scope # "canonical"
      PROVE  LET v == Valued(events, [field |-> p.field, predicates |-> {}])
                 f == FieldRow(events, p.field, FALSE)
                 own == {e \in E : Applicable(e, p.field)}
             IN  /\ CountsSum(v.rows) = SourceRow(events, p.field.source).count
                 /\ \A r \in v.rows : r.missing = f.missing /\ r.total = f.total
                 /\ f.missing # Null => f.missing = Cardinality({e \in own : Value(e, p.field) = Null})
                 /\ DOMAIN v.anchors = {e.customer : e \in own}
                 /\ PredicateAllowed(p, {1, 2}) => p.field \in PublicFields({1, 2})
  <2> DEFINE g == p.field
             A == Having(E, g)
             o == Only(events, A)
             v == Valued(events, [field |-> g, predicates |-> {}])
             f == FieldRow(events, g, FALSE)
             own == {e \in E : Applicable(e, g)}
  <2>1. own = A
    BY <1>4 DEF Applicable, Having
  <2>2. /\ v.rows = ValueRows(E, g) /\ DOMAIN v.anchors = {e.customer : e \in A}
        /\ Len(o) = Cardinality(A) /\ o \in Seq(E)
    BY <1>1, <1>2, <1>4, ValuedIs DEF E
  <2>3. Those(events, LAMBDA e : e.source = g.source) = o
    BY DEF Those, Having, E
  <2>4. SourceRow(events, g.source).count = Len(o)
    BY <2>3 DEF SourceRow
  <2>5. CountsSum(v.rows) = Cardinality(A)
    BY <1>3, <2>2, RowsAddUp
  <2>6. Ordered(o) /\ ToSet(o) = A
    <3>1. ToSet(o) = ToSet(events) \cap A /\ Ordered(o)
      BY <1>1, <1>2, OnlyHas, OrderedOnly
    <3> QED
      BY <3>1 DEF Having, E
  <2>7. o # << >> => f.missing = Cardinality(Valuing(E, g, Null)) /\ f.total = Cardinality(A)
    <3> DEFINE S == {e \in A : Value(e, g) = Null}
    <3>1. Those(o, LAMBDA e : Value(e, g) = Null) = Only(o, S)
      BY <2>6 DEF Those
    <3>2. f.missing = (IF o = << >> THEN Null ELSE Len(Those(o, LAMBDA e : Value(e, g) = Null)))
          /\ f.total = (IF o = << >> THEN Null ELSE Len(o))
      BY <1>4, <2>3 DEF FieldRow
    <3> HIDE DEF o, f
    <3>3. Len(Only(o, S)) = Cardinality(ToSet(o) \cap S)
      BY <1>1, <2>2, <2>6, CountIs
    <3>4. ToSet(o) \cap S = Valuing(E, g, Null)
      BY <2>6 DEF Valuing
    <3> QED
      BY <2>2, <3>1, <3>2, <3>3, <3>4
  <2>8. o = << >> => f.missing = Null /\ v.rows = {}
    <3>1. ASSUME o = << >> PROVE f.missing = Null
      BY <2>3, <3>1 DEF FieldRow
    <3>2. ASSUME o = << >> PROVE A = {}
      BY <2>6, <3>2 DEF ToSet
    <3> QED
      BY <2>2, <3>1, <3>2 DEF ValueRows
  <2>9. \A r \in v.rows : r.missing = Cardinality(Valuing(E, g, Null)) /\ r.total = Cardinality(A)
    BY <2>2 DEF ValueRows, ValueRow
  <2>10. PredicateAllowed(p, {1, 2}) => g \in PublicFields({1, 2})
    <3> SUFFICES ASSUME PredicateAllowed(p, {1, 2}) PROVE g \in PublicFields({1, 2})
      OBVIOUS
    <3>1. \E use : FieldAllowed(g, {1, 2}, use)
      BY DEF PredicateAllowed
    <3>2. g.source \in {1, 2} /\ Described(g) /\ Public(g)
      BY <1>4, <3>1 DEF FieldAllowed
    <3>3. <<g.scope, g.name>> \in {x \in DOMAIN Catalog[g.source] : ~Catalog[g.source][x].pii}
      BY <1>4, <3>2 DEF Described, Public
    <3>4. g = [scope |-> g.scope, source |-> g.source, name |-> g.name]
      BY PredicatesAssumption
    <3> QED
      BY <3>2, <3>3, <3>4 DEF PublicFields
  <2> HIDE DEF v, f, o, A, own
  <2>11. CountsSum(v.rows) = SourceRow(events, g.source).count
    BY <2>2, <2>4, <2>5
  <2>12. \A r \in v.rows : r.missing = f.missing /\ r.total = f.total
    BY <2>7, <2>8, <2>9
  <2>13. f.missing # Null => f.missing = Cardinality({e \in own : Value(e, g) = Null})
    <3>1. {e \in A : Value(e, g) = Null} = Valuing(E, g, Null)
      BY DEF Valuing, A
    <3> QED
      BY <2>1, <2>7, <2>8, <3>1
  <2>14. DOMAIN v.anchors = {e.customer : e \in own}
    BY <2>1, <2>2
  <2> QED
    BY <2>10, <2>11, <2>12, <2>13, <2>14 DEF v, f, own
<1> QED
  BY <1>4, Zenon DEF CatalogSound, CountsSum, E

-----------------------------------------------------------------------------
(* One event in its group.                                                 *)

Figures == [count : Int, total : Int, minimum : Int \cup {Null}, maximum : Int \cup {Null}]

StatsOf(E) ==
  LET C == {e.customer : e \in E}
  IN  [events : Nat, customers : SUBSET C, anchors : Anchors(E), numbers : Figures,
       denominator : Nat, numerator : Nat, among : SUBSET C, with : SUBSET C]

\* What a summary measures of the events of E are numbers.
Measures(E, q) == \A e \in E : Value(e, q.measure) \in Int \cup {Null}

Den(G, q) == {e \in G : Matches(e, q.denominator)}
Num(G, q) == {e \in Den(G, q) : Matches(e, q.numerator)}

\* The metrics of a group are those of its events.
StatsRight(st, G, q) ==
  /\ IsFiniteSet(G) /\ st.events = Cardinality(G)
  /\ st.denominator = Cardinality(Den(G, q)) /\ st.numerator = Cardinality(Num(G, q))
  /\ st.customers = {e.customer : e \in G} /\ DOMAIN st.anchors = st.customers
  /\ st.among = {e.customer : e \in Den(G, q)} /\ st.with = {e.customer : e \in Num(G, q)}

LEMMA NoStatsRight ==
  ASSUME NEW E, NEW q
  PROVE  NoStats \in StatsOf(E) /\ StatsRight(NoStats, {}, q)
<1>1. << >> \in Anchors(E) /\ DOMAIN << >> = {}
  BY NoAnchors
<1>2. NoNumbers \in Figures
  BY DEF NoNumbers, Figures
<1>3. NoStats \in StatsOf(E)
  BY <1>1, <1>2 DEF NoStats, StatsOf
<1>4. Den({}, q) = {} /\ Num({}, q) = {}
  BY DEF Den, Num
<1>5. IsFiniteSet({}) /\ Cardinality({}) = 0
  BY FS_EmptySet
<1> QED
  BY <1>1, <1>3, <1>4, <1>5 DEF NoStats, StatsRight

LEMMA TallyIs ==
  ASSUME NEW E, NEW q, Measures(E, q), NEW st \in StatsOf(E), NEW e \in E
  PROVE  LET t == Tally(st, e, q)
         IN  /\ t \in StatsOf(E) /\ t.events = st.events + 1
             /\ t.customers = st.customers \cup {e.customer} /\ t.anchors = Remember(st.anchors, e)
             /\ t.denominator = st.denominator + (IF Matches(e, q.denominator) THEN 1 ELSE 0)
             /\ t.numerator = st.numerator + (IF Matches(e, q.denominator) /\ Matches(e, q.numerator) THEN 1 ELSE 0)
             /\ t.among = IF Matches(e, q.denominator) THEN st.among \cup {e.customer} ELSE st.among
             /\ t.with = IF Matches(e, q.denominator) /\ Matches(e, q.numerator)
                         THEN st.with \cup {e.customer} ELSE st.with
<1> DEFINE C == {x.customer : x \in E}
           den == Matches(e, q.denominator)
           num == den /\ Matches(e, q.numerator)
           v == Value(e, q.measure)
           customers == st.customers \cup {e.customer}
           anchors == Remember(st.anchors, e)
           numbers == IF v = Null THEN st.numbers ELSE AddNumber(st.numbers, v)
           denominator == st.denominator + (IF den THEN 1 ELSE 0)
           numerator == st.numerator + (IF num THEN 1 ELSE 0)
           among == IF den THEN st.among \cup {e.customer} ELSE st.among
           with == IF num THEN st.with \cup {e.customer} ELSE st.with
           t == [events |-> st.events + 1, customers |-> customers, anchors |-> anchors, numbers |-> numbers,
                 denominator |-> denominator, numerator |-> numerator, among |-> among, with |-> with]
<1>1. /\ st = [events |-> st.events, customers |-> st.customers, anchors |-> st.anchors, numbers |-> st.numbers,
               denominator |-> st.denominator, numerator |-> st.numerator, among |-> st.among, with |-> st.with]
      /\ st.events \in Nat /\ st.customers \in SUBSET C /\ st.anchors \in Anchors(E) /\ st.numbers \in Figures
      /\ st.denominator \in Nat /\ st.numerator \in Nat /\ st.among \in SUBSET C /\ st.with \in SUBSET C
  BY DEF StatsOf
<1>2. e.customer \in C
  OBVIOUS
<1>3. anchors \in Anchors(E)
  BY <1>1, RememberIs
<1>4. numbers \in Figures
  <2>1. v \in Int \cup {Null}
    BY DEF Measures
  <2>2. ASSUME v \in Int PROVE AddNumber(st.numbers, v) \in Figures
    <3> HIDE DEF v
    <3> QED
      BY <1>1, <2>2 DEF AddNumber, Figures
  <2> HIDE DEF v
  <2> QED
    BY <1>1, <2>1, <2>2
<1>5. Tally(st, e, q) = t
  <2> DEFINE events == st.events + 1
             u == [st EXCEPT !.events = events, !.customers = customers, !.anchors = anchors, !.numbers = numbers,
                             !.denominator = denominator, !.numerator = numerator, !.among = among, !.with = with]
  <2>1. Tally(st, e, q) = u
    BY DEF Tally
  <2> HIDE DEF events, customers, anchors, numbers, denominator, numerator, among, with
  <2>2. u = t
    <3>1. DOMAIN u = DOMAIN st /\ DOMAIN st = DOMAIN t /\ st = [f \in DOMAIN st |-> st[f]]
      BY ZenonT(60), <1>1
    <3>2. DOMAIN t = {"events", "customers", "anchors", "numbers", "denominator", "numerator", "among", "with"}
      OBVIOUS
    <3>3. u.events = t.events /\ u.customers = t.customers /\ u.anchors = t.anchors /\ u.numbers = t.numbers
      BY <3>1, <3>2 DEF events
    <3>4. u.denominator = t.denominator /\ u.numerator = t.numerator /\ u.among = t.among /\ u.with = t.with
      BY <3>1, <3>2
    <3>5. u = [f \in DOMAIN st |-> u[f]] /\ t = [f \in DOMAIN st |-> t[f]]
      BY <3>1
    <3> HIDE DEF u, t
    <3>6. \A f \in DOMAIN st : u[f] = t[f]
      BY <3>1, <3>2, <3>3, <3>4
    <3> QED
      BY <3>5, <3>6
  <2> QED
    BY <2>1, <2>2
<1>6. customers \in SUBSET C /\ among \in SUBSET C /\ with \in SUBSET C
  BY <1>1, <1>2
<1>7. denominator \in Nat /\ numerator \in Nat /\ st.events + 1 \in Nat
  BY <1>1
<1> HIDE DEF customers, anchors, numbers, denominator, numerator, among, with, C, num, den
<1>8. t \in StatsOf(E)
  BY <1>3, <1>4, <1>6, <1>7 DEF StatsOf, C
<1>9. /\ t.events = st.events + 1 /\ t.customers = customers /\ t.anchors = anchors
      /\ t.denominator = denominator /\ t.numerator = numerator /\ t.among = among /\ t.with = with
  OBVIOUS
<1> HIDE DEF t
<1> QED
  BY <1>5, <1>8, <1>9 DEF customers, anchors, denominator, numerator, among, with, num, den

LEMMA OneMore ==
  ASSUME NEW G, NEW e, e \notin G, IsFiniteSet(G), NEW b \in BOOLEAN, NEW H, H = IF b THEN G \cup {e} ELSE G
  PROVE  Cardinality(H) = Cardinality(G) + (IF b THEN 1 ELSE 0) /\ IsFiniteSet(H) /\ Cardinality(G) \in Nat
<1>1. Cardinality(G \cup {e}) = Cardinality(G) + 1 /\ IsFiniteSet(G \cup {e}) /\ Cardinality(G) \in Nat
  BY FS_AddElement, FS_CardinalityType
<1> QED
  BY <1>1

LEMMA TallyRight ==
  ASSUME NEW E, NEW q, Measures(E, q), NEW st \in StatsOf(E), NEW e \in E, NEW G \in SUBSET E, e \notin G, StatsRight(st, G, q)
  PROVE  Tally(st, e, q) \in StatsOf(E) /\ StatsRight(Tally(st, e, q), G \cup {e}, q)
<1> DEFINE t == Tally(st, e, q)
           H == G \cup {e}
           den == Matches(e, q.denominator)
           num == den /\ Matches(e, q.numerator)
<1>1. /\ t \in StatsOf(E) /\ t.events = st.events + 1
      /\ t.customers = st.customers \cup {e.customer} /\ t.anchors = Remember(st.anchors, e)
      /\ t.denominator = st.denominator + (IF den THEN 1 ELSE 0)
      /\ t.numerator = st.numerator + (IF num THEN 1 ELSE 0)
      /\ t.among = (IF den THEN st.among \cup {e.customer} ELSE st.among)
      /\ t.with = (IF num THEN st.with \cup {e.customer} ELSE st.with)
  BY TallyIs
<1>2. den \in BOOLEAN /\ num \in BOOLEAN
  BY DEF Matches
<1>3. Den(H, q) = (IF den THEN Den(G, q) \cup {e} ELSE Den(G, q))
  BY DEF Den
<1>4. Num(H, q) = (IF num THEN Num(G, q) \cup {e} ELSE Num(G, q))
  BY DEF Num, Den
<1>5. /\ IsFiniteSet(G) /\ st.events = Cardinality(G)
      /\ st.denominator = Cardinality(Den(G, q)) /\ st.numerator = Cardinality(Num(G, q))
      /\ st.customers = {x.customer : x \in G} /\ DOMAIN st.anchors = st.customers
      /\ st.among = {x.customer : x \in Den(G, q)} /\ st.with = {x.customer : x \in Num(G, q)}
  BY DEF StatsRight
<1>6. Den(G, q) \in SUBSET G /\ Num(G, q) \in SUBSET G
  BY DEF Den, Num
<1>7. IsFiniteSet(Den(G, q)) /\ IsFiniteSet(Num(G, q)) /\ e \notin Den(G, q) /\ e \notin Num(G, q)
  BY <1>5, <1>6, FS_Subset
<1>8. DOMAIN Remember(st.anchors, e) = DOMAIN st.anchors \cup {e.customer}
  <2>1. st.anchors \in Anchors(E)
    BY DEF StatsOf
  <2> QED
    BY <2>1, RememberIs
<1> HIDE DEF t, den, num
<1>9. Cardinality(H) = Cardinality(G) + 1 /\ IsFiniteSet(H)
  BY <1>5, FS_AddElement
<1>10. Cardinality(Den(H, q)) = Cardinality(Den(G, q)) + (IF den THEN 1 ELSE 0)
  BY <1>2, <1>3, <1>7, OneMore
<1>11. Cardinality(Num(H, q)) = Cardinality(Num(G, q)) + (IF num THEN 1 ELSE 0)
  BY <1>2, <1>4, <1>7, OneMore
<1>12. t.customers = {x.customer : x \in H} /\ DOMAIN t.anchors = t.customers
  BY <1>1, <1>5, <1>8
<1>13. t.among = {x.customer : x \in Den(H, q)}
  BY <1>1, <1>3, <1>5
<1>14. t.with = {x.customer : x \in Num(H, q)}
  BY <1>1, <1>4, <1>5
<1> HIDE DEF H
<1>15. StatsRight(t, H, q)
  BY <1>1, <1>5, <1>9, <1>10, <1>11, <1>12, <1>13, <1>14 DEF StatsRight
<1> QED
  BY <1>1, <1>15 DEF t, H

-----------------------------------------------------------------------------
(* The groups of a summary.                                                *)

GroupKey(e, q) == <<Bucket(e.at, q.width, 0), Lookups(e, q.group_by)>>

GroupStep(g, e, q) == IF Counts(e, q) THEN Tallied(g, e, q) ELSE g

GroupsOf(E, q) == [key : {GroupKey(e, q) : e \in E}, stats : StatsOf(E)]

\* The groups of the counted events K: one for each key, with the metrics of its events.
Grouped(gs, K, q) ==
  /\ \A i, j \in 1..Len(gs) : gs[i].key = gs[j].key => i = j
  /\ \A e \in K : \E i \in 1..Len(gs) : gs[i].key = GroupKey(e, q)
  /\ \A i \in 1..Len(gs) : StatsRight(gs[i].stats, {e \in K : GroupKey(e, q) = gs[i].key}, q)

GroupsOver(E, V, r) == \A x \in V, d \in E : GroupStep(x, d, r) \in V
GroupsGoes(E, q, r) == Groups(<< >>, r) = << >> /\ \A e \in E : Groups(Append(q, e), r) = GroupStep(Groups(q, r), e, r)

LEMMA GroupsTrace ==
  ASSUME NEW r, NEW E, NEW V, << >> \in V, GroupsOver(E, V, r), NEW seq \in Seq(E)
  PROVE  GoesTo(V, [p \in V \X E |-> GroupStep(p[1], p[2], r)], << >>, seq, Groups(seq, r))
<1> DEFINE n == Len(seq)
           base == << >>
           G == [p \in V \X E |-> GroupStep(p[1], p[2], r)]
           op(x, i) == GroupStep(x, seq[i], r)
           Fix(f) == f = [s \in SUBSET (1..n) |-> IF s = {} THEN base ELSE op(f[s \ {Max(s)}], Max(s))]
           F == [p \in V \X (1..n) |-> op(p[1], p[2])]
           all == CHOOSE f : Fix(f)
<1>0. n \in Nat /\ DOMAIN seq = 1..n /\ base \in V /\ \A i \in 1..n : seq[i] \in E
  OBVIOUS
<1>1. Groups(seq, r) = all[1..n]
  BY <1>0 DEF Groups, GroupStep, FoldLeft, MapThenFoldSet
<1>2. F \in [V \X (1..n) -> V] /\ \A x \in V, i \in 1..n : F[<<x, i>>] = op(x, i) /\ op(x, i) = G[<<x, seq[i]>>]
  BY <1>0 DEF GroupsOver
<1> HIDE DEF op, F, G, base, n
<1>3. Fix(all)
  <2>1. PICK f \in [SUBSET (1..n) -> V] : FoldOf(F, base, n, f)
    BY <1>0, <1>2, FoldExists
  <2>2. ASSUME NEW s \in SUBSET (1..n) PROVE f[s] = IF s = {} THEN base ELSE op(f[s \ {Max(s)}], Max(s))
    <3>1. f[s] = IF s = {} THEN base ELSE F[<<f[s \ {Max(s)}], Max(s)>>]
      BY <2>1 DEF FoldOf
    <3>2. s # {} => Max(s) \in 1..n /\ f[s \ {Max(s)}] \in V
      BY <1>0, <2>1, MaxIn
    <3> QED
      BY <1>2, <3>1, <3>2
  <2>3. Fix(f)
    BY <2>1, <2>2
  <2> HIDE DEF Fix
  <2> QED
    BY <2>3
<1> HIDE DEF all
<1>4. Unfolds(V, F, base, n, all)
  <2>1. \A s \in SUBSET (1..n) : s # {} => Max(s) \in 1..n
    BY <1>0, MaxIn
  <2> QED
    BY <1>2, <1>3, <2>1 DEF Unfolds
<1>5. RunsTo(V, F, base, n, Groups(seq, r))
  <2>1. F \in [V \X (1..n) -> V]
    BY <1>2
  <2>2. RunsTo(V, F, base, n, all[1..n])
    BY <1>0, <1>4, <2>1, FoldTrace
  <2> QED
    BY <1>1, <2>2
<1>6. \A x \in V, i \in 1..n : F[<<x, i>>] = G[<<x, seq[i]>>]
  BY ZenonT(60), <1>2
<1>7. GoesTo(V, G, base, seq, Groups(seq, r))
  BY <1>0, <1>5, <1>6, RunsGo DEF n
<1> QED
  BY <1>7 DEF G, base

LEMMA GroupsLaw ==
  ASSUME NEW r, NEW E, NEW V, << >> \in V, GroupsOver(E, V, r), NEW q \in Seq(E)
  PROVE  GroupsGoes(E, q, r) /\ Groups(q, r) \in V
<1> DEFINE G == [p \in V \X E |-> GroupStep(p[1], p[2], r)]
           base == << >>
           none == << >>
           x == Groups(q, r)
<1>1. GoesTo(V, G, base, q, x)
  BY GroupsTrace
<1>2. GoesTo(V, G, base, none, Groups(none, r))
  <2>1. none \in Seq(E)
    OBVIOUS
  <2> QED
    BY <2>1, GroupsTrace
<1>3. \A y \in V, e \in E : G[<<y, e>>] = GroupStep(y, e, r)
  OBVIOUS
<1> HIDE DEF G, base, none, x
<1>4. x \in V /\ Groups(none, r) = base
  BY <1>1, <1>2, GoesIn, GoesNowhere DEF none
<1>5. ASSUME NEW e \in E PROVE Groups(Append(q, e), r) = GroupStep(x, e, r)
  <2> DEFINE longer == Append(q, e)
  <2>1. longer \in Seq(E)
    BY AppendIs
  <2>2. GoesTo(V, G, base, longer, Groups(longer, r))
    BY <2>1, GroupsTrace DEF G, base
  <2> HIDE DEF longer
  <2>3. Groups(longer, r) = G[<<x, e>>]
    BY <1>1, <2>2, GoesOn DEF longer
  <2> QED
    BY <1>3, <1>4, <2>3 DEF longer
<1> QED
  BY <1>4, <1>5 DEF base, none, x, GroupsGoes

\* Where the group of a key is.
Placing(gs, k, at) ==
  IF at = 0 THEN \A i \in 1..Len(gs) : gs[i].key # k ELSE at \in 1..Len(gs) /\ gs[at].key = k

\* The event joins the group at a place, or opens one.
TalliedAt(gs, e, q, at) ==
  /\ Placing(gs, GroupKey(e, q), at)
  /\ Tallied(gs, e, q) = IF at = 0 THEN Append(gs, [key |-> GroupKey(e, q), stats |-> Tally(NoStats, e, q)])
                         ELSE [gs EXCEPT ![at].stats = Tally(gs[at].stats, e, q)]

LEMMA TalliedIs ==
  ASSUME NEW gs, Len(gs) \in Nat, NEW e, NEW q
  PROVE  \E at \in 0..Len(gs) : TalliedAt(gs, e, q, at)
<1> DEFINE k == GroupKey(e, q)
           at == SelectInSeq(gs, LAMBDA g : g.key = k)
           I == {i \in 1..Len(gs) : gs[i].key = k}
<1>1. at = IF I # {} THEN Min(I) ELSE 0
  BY DEF SelectInSeq
<1>2. I # {} => Min(I) \in I
  <2>1. ASSUME I # {} PROVE \E x \in I : \A y \in I : x <= y
    <3>1. I \in SUBSET Nat
      OBVIOUS
    <3> HIDE DEF I
    <3> QED
      BY <2>1, <3>1, LeastNumber
  <2> HIDE DEF I
  <2> QED
    BY <2>1 DEF Min
<1>3. Tallied(gs, e, q) = IF at = 0 THEN Append(gs, [key |-> k, stats |-> Tally(NoStats, e, q)])
                          ELSE [gs EXCEPT ![at].stats = Tally(gs[at].stats, e, q)]
  BY DEF Tallied, GroupKey
<1> HIDE DEF at, k
<1>4. at \in 0..Len(gs) /\ Placing(gs, k, at)
  <2>1. CASE I = {}
    BY <1>1, <2>1 DEF Placing
  <2>2. CASE I # {}
    <3>1. at \in I
      BY <1>1, <1>2, <2>2
    <3> QED
      BY <3>1 DEF Placing
  <2> QED
    BY <2>1, <2>2
<1>5. TalliedAt(gs, e, q, at)
  BY <1>3, <1>4 DEF k, TalliedAt
<1> QED
  BY <1>4, <1>5

\* A group with its event added.
LEMMA TalliedTyped ==
  ASSUME NEW E, NEW q, Measures(E, q), NEW gs \in Seq(GroupsOf(E, q)), NEW e \in E
  PROVE  Tallied(gs, e, q) \in Seq(GroupsOf(E, q))
<1> DEFINE n == Len(gs)
           k == GroupKey(e, q)
           fresh == Tally(NoStats, e, q)
           g == [key |-> k, stats |-> fresh]
<1>1. n \in Nat /\ \A i \in 1..n : gs[i] \in GroupsOf(E, q)
  OBVIOUS
<1>2. \A st \in StatsOf(E) : Tally(st, e, q) \in StatsOf(E)
  BY TallyIs
<1>3. NoStats \in StatsOf(E)
  BY NoStatsRight
<1> HIDE DEF k, g
<1>0. PICK at \in 0..n : TalliedAt(gs, e, q, at)
  BY <1>1, TalliedIs
<1>4. /\ Placing(gs, k, at)
      /\ Tallied(gs, e, q) = IF at = 0 THEN Append(gs, g) ELSE [gs EXCEPT ![at].stats = Tally(gs[at].stats, e, q)]
  BY <1>0 DEF TalliedAt, g, k
<1> USE DEF k, g
<1>5. CASE at = 0
  <2>1. k \in {GroupKey(x, q) : x \in E} /\ fresh \in StatsOf(E)
    BY <1>2, <1>3
  <2> HIDE DEF k, fresh
  <2>2. g \in GroupsOf(E, q)
    BY <2>1 DEF GroupsOf
  <2> HIDE DEF g
  <2>3. Append(gs, g) \in Seq(GroupsOf(E, q))
    BY <2>2, AppendIs
  <2> QED
    BY <1>4, <1>5, <2>3
<1>6. CASE at # 0
  <2> DEFINE st == Tally(gs[at].stats, e, q)
             h == [gs[at] EXCEPT !.stats = st]
  <2>1. at \in 1..n
    BY <1>1, <1>6
  <2>2. gs[at].stats \in StatsOf(E)
    BY <1>1, <2>1 DEF GroupsOf
  <2>3. st \in StatsOf(E)
    BY <1>2, <2>2
  <2> HIDE DEF st
  <2>4. h \in GroupsOf(E, q)
    BY <1>1, <2>1, <2>3 DEF GroupsOf
  <2> HIDE DEF h
  <2>5. [gs EXCEPT ![at] = h] \in Seq(GroupsOf(E, q))
    BY <2>1, <2>4
  <2>6. Tallied(gs, e, q) = [gs EXCEPT ![at] = h]
    BY <1>4, <1>6 DEF st, h
  <2> QED
    BY <2>5, <2>6
<1> QED
  BY <1>5, <1>6

LEMMA GroupedOn ==
  ASSUME NEW E, NEW q, Measures(E, q), NEW gs \in Seq(GroupsOf(E, q)), NEW e \in E, NEW K \in SUBSET E, e \notin K,
         Grouped(gs, K, q)
  PROVE  Grouped(Tallied(gs, e, q), K \cup {e}, q)
<1> DEFINE n == Len(gs)
           k == GroupKey(e, q)
           g == [key |-> k, stats |-> Tally(NoStats, e, q)]
           of(i) == {x \in K : GroupKey(x, q) = gs[i].key}
           L == K \cup {e}
           gs2 == Tallied(gs, e, q)
<1>1. n \in Nat /\ \A i \in 1..n : gs[i] \in GroupsOf(E, q)
  OBVIOUS
<1>2. /\ \A i, j \in 1..n : gs[i].key = gs[j].key => i = j
      /\ \A x \in K : \E i \in 1..n : gs[i].key = GroupKey(x, q)
      /\ \A i \in 1..n : StatsRight(gs[i].stats, of(i), q)
  BY DEF Grouped
<1>0. PICK at \in 0..n : TalliedAt(gs, e, q, at)
  <2>1. \E at \in 0..n : TalliedAt(gs, e, q, at)
    BY <1>1, TalliedIs
  <2> HIDE DEF n
  <2> QED
    BY <2>1
<1>3. /\ Placing(gs, k, at)
      /\ gs2 = IF at = 0 THEN Append(gs, g) ELSE [gs EXCEPT ![at].stats = Tally(gs[at].stats, e, q)]
  BY <1>0 DEF TalliedAt
<1>4. \A i \in 1..n : gs[i].key # k => {x \in L : GroupKey(x, q) = gs[i].key} = of(i)
  OBVIOUS
<1> HIDE DEF gs2
<1>5. CASE at = 0
  <2>1. \A i \in 1..n : gs[i].key # k
    BY <1>3, <1>5 DEF Placing
  <2>2. \A x \in K : GroupKey(x, q) # k
    BY <1>2, <2>1
  <2>3. {x \in L : GroupKey(x, q) = k} = {} \cup {e}
    BY <2>2
  <2>4. StatsRight(Tally(NoStats, e, q), {} \cup {e}, q)
    <3>1. NoStats \in StatsOf(E) /\ StatsRight(NoStats, {}, q)
      BY NoStatsRight
    <3>2. {} \in SUBSET E /\ e \notin {}
      OBVIOUS
    <3> QED
      BY <3>1, <3>2, TallyRight
  <2>5. g.key = k /\ g.stats = Tally(NoStats, e, q)
    OBVIOUS
  <2>6. gs \in Seq(GroupsOf(E, q) \cup {g}) /\ g \in GroupsOf(E, q) \cup {g}
    BY <1>1
  <2> HIDE DEF n, g, k, L
  <2>7. Len(gs2) = n + 1 /\ gs2[n + 1] = g /\ \A i \in 1..n : gs2[i] = gs[i]
    BY <1>3, <1>5, <2>6, AppendIs DEF n
  <2>8. ASSUME NEW i \in 1..(n + 1) PROVE i \in 1..n \/ i = n + 1
    BY <1>1
  <2>9. \A i \in 1..n : i \in 1..(n + 1)
    BY <1>1
  <2>10. n + 1 \in 1..(n + 1)
    BY <1>1
  <2>11. ASSUME NEW i \in 1..(n + 1), NEW j \in 1..(n + 1), gs2[i].key = gs2[j].key PROVE i = j
    BY <1>2, <2>1, <2>5, <2>7, <2>8, <2>11
  <2>12. ASSUME NEW x \in L PROVE \E i \in 1..(n + 1) : gs2[i].key = GroupKey(x, q)
    <3>1. CASE x = e
      BY <2>5, <2>7, <2>10, <3>1 DEF k
    <3>2. CASE x \in K
      <4>1. PICK i \in 1..n : gs[i].key = GroupKey(x, q)
        BY <1>2, <3>2
      <4> QED
        BY <2>7, <2>9, <4>1
    <3> QED
      BY <3>1, <3>2 DEF L
  <2>13. ASSUME NEW i \in 1..(n + 1) PROVE StatsRight(gs2[i].stats, {x \in L : GroupKey(x, q) = gs2[i].key}, q)
    <3>1. CASE i = n + 1
      BY <2>3, <2>4, <2>5, <2>7, <3>1
    <3>2. CASE i \in 1..n
      <4>1. gs2[i] = gs[i] /\ gs[i].key # k
        BY <2>1, <2>7, <3>2
      <4>2. {x \in L : GroupKey(x, q) = gs[i].key} = of(i) /\ StatsRight(gs[i].stats, of(i), q)
        BY <1>2, <1>4, <3>2, <4>1
      <4> HIDE DEF of
      <4> QED
        BY <4>1, <4>2
    <3> QED
      BY <2>8, <3>1, <3>2
  <2> QED
    BY <2>7, <2>11, <2>12, <2>13 DEF Grouped, gs2, L
<1>6. CASE at # 0
  <2> DEFINE st == Tally(gs[at].stats, e, q)
             h == [gs[at] EXCEPT !.stats = st]
  <2>1. at \in 1..n /\ gs[at].key = k
    BY <1>3, <1>6 DEF Placing
  <2>2. gs[at] = [key |-> gs[at].key, stats |-> gs[at].stats] /\ gs[at].stats \in StatsOf(E)
    BY <1>1, <2>1 DEF GroupsOf
  <2>3. h.key = k /\ h.stats = st
    <3> HIDE DEF st, k
    <3> QED
      BY <2>1, <2>2
  <2>4. gs2 = [gs EXCEPT ![at] = h]
    BY <1>3, <1>6
  <2> HIDE DEF h, st, n
  <2>5. Len(gs2) = n /\ gs2[at] = h /\ \A i \in 1..n : i # at => gs2[i] = gs[i]
    BY <2>1, <2>4 DEF n
  <2>6. {x \in L : GroupKey(x, q) = k} = of(at) \cup {e} /\ e \notin of(at) /\ of(at) \in SUBSET E
    BY <2>1
  <2>7. StatsRight(st, of(at) \cup {e}, q)
    <3>1. StatsRight(gs[at].stats, of(at), q)
      BY <1>2, <2>1
    <3> HIDE DEF of
    <3> QED
      BY <2>2, <2>6, <3>1, TallyRight DEF st
  <2>8. \A i \in 1..n : gs2[i].key = gs[i].key
    BY <2>1, <2>3, <2>5
  <2> HIDE DEF k, L, of
  <2>9. ASSUME NEW i \in 1..n, NEW j \in 1..n, gs2[i].key = gs2[j].key PROVE i = j
    BY <1>2, <2>8, <2>9
  <2>10. ASSUME NEW x \in L PROVE \E i \in 1..n : gs2[i].key = GroupKey(x, q)
    <3>1. CASE x = e
      BY <2>1, <2>8, <3>1 DEF k
    <3>2. CASE x \in K
      BY <1>2, <2>8, <3>2
    <3> QED
      BY <3>1, <3>2 DEF L
  <2>11. ASSUME NEW i \in 1..n PROVE StatsRight(gs2[i].stats, {x \in L : GroupKey(x, q) = gs2[i].key}, q)
    <3>1. CASE i = at
      BY <2>3, <2>5, <2>6, <2>7, <3>1
    <3>2. CASE i # at
      <4>1. gs2[i] = gs[i] /\ gs[i].key # k
        BY <1>2, <2>1, <2>5, <3>2
      <4>2. {x \in L : GroupKey(x, q) = gs[i].key} = of(i) /\ StatsRight(gs[i].stats, of(i), q)
        BY <1>2, <1>4, <4>1
      <4> QED
        BY <4>1, <4>2
    <3> QED
      BY <3>1, <3>2
  <2> QED
    BY <2>5, <2>9, <2>10, <2>11 DEF Grouped, gs2, L
<1> QED
  BY <1>5, <1>6

\* The groups of a query are those of the events that count.
ThatCount(events, q) == {e \in ToSet(events) : Counts(e, q)}

LEMMA GroupsAre ==
  ASSUME NEW E, Numbered(E), NEW q, Measures(E, q), NEW events \in Seq(E), Ordered(events)
  PROVE  Groups(events, q) \in Seq(GroupsOf(E, q)) /\ Grouped(Groups(events, q), ThatCount(events, q), q)
<1> DEFINE V == Seq(GroupsOf(E, q))
           Z == {p \in Seq(E) : Ordered(p) => Grouped(Groups(p, q), ThatCount(p, q), q)}
           base == << >>
<1>1. base \in V
  OBVIOUS
<1>2. GroupsOver(E, V, q)
  <2>1. ASSUME NEW x \in V, NEW d \in E PROVE GroupStep(x, d, q) \in V
    <3>1. Tallied(x, d, q) \in V
      BY TalliedTyped
    <3> HIDE DEF V
    <3> QED
      BY <3>1 DEF GroupStep
  <2> QED
    BY <2>1 DEF GroupsOver
<1> HIDE DEF V
<1>3. ASSUME NEW p \in Seq(E)
      PROVE  Groups(base, q) = base /\ Groups(p, q) \in V
             /\ \A e \in E : Groups(Append(p, e), q) = GroupStep(Groups(p, q), e, q)
  <2>1. GroupsGoes(E, p, q) /\ Groups(p, q) \in V
    BY <1>1, <1>2, GroupsLaw
  <2> QED
    BY <2>1 DEF GroupsGoes
<1>4. << >> \in Z
  <2>1. << >> \in Seq(E)
    OBVIOUS
  <2>2. Groups(<< >>, q) = << >>
    BY <1>3, <2>1
  <2>3. ThatCount(<< >>, q) = {}
    BY DEF ThatCount, ToSet
  <2>4. Grouped(<< >>, {}, q)
    BY DEF Grouped
  <2> QED
    BY <2>1, <2>2, <2>3, <2>4
<1>5. ASSUME NEW p \in Seq(E), NEW e \in E, p \in Z PROVE Append(p, e) \in Z
  <2> DEFINE a == Append(p, e)
             g == Groups(p, q)
             K == ThatCount(p, q)
  <2>1. a \in Seq(E) /\ ToSet(a) = ToSet(p) \cup {e}
    BY AppendIs, AppendSet
  <2>2. g \in Seq(GroupsOf(E, q)) /\ Groups(a, q) = GroupStep(g, e, q)
    BY <1>3 DEF V
  <2>3. K \in SUBSET E
    <3>1. ToSet(p) \subseteq E
      BY ElementsAreFinite
    <3> QED
      BY <3>1 DEF ThatCount
  <2>4. ThatCount(a, q) = IF Counts(e, q) THEN K \cup {e} ELSE K
    BY <2>1 DEF ThatCount
  <2>5. ASSUME Ordered(a) PROVE Grouped(Groups(a, q), ThatCount(a, q), q)
    <3>1. Ordered(p) /\ e \notin ToSet(p)
      <4> DEFINE n == Len(p)
      <4>1. n \in Nat /\ DOMAIN p = 1..n /\ Len(a) = n + 1 /\ a[n + 1] = e /\ \A i \in 1..n : i \in 1..(n + 1) /\ a[i] = p[i]
        BY AppendIs
      <4>2. n + 1 \in 1..(n + 1) /\ \A i \in 1..n : i < n + 1
        BY <4>1
      <4> HIDE DEF a, n
      <4>3. Ordered(p)
        BY <2>5, <4>1 DEF Ordered, n
      <4>4. \A i \in 1..n : Precedes(p[i], e)
        BY <2>5, <4>1, <4>2 DEF Ordered
      <4>5. ~Precedes(e, e)
        BY OrderIs
      <4>6. \A i \in 1..n : p[i] # e
        BY <4>4, <4>5
      <4> QED
        BY <4>1, <4>3, <4>6 DEF ToSet
    <3>2. Grouped(g, K, q)
      BY <1>5, <3>1
    <3>3. e \notin K
      BY <3>1 DEF ThatCount
    <3> HIDE DEF a, g, K
    <3>4. Grouped(Tallied(g, e, q), K \cup {e}, q)
      BY <2>2, <2>3, <3>2, <3>3, GroupedOn
    <3> QED
      BY <2>2, <2>4, <3>2, <3>4 DEF GroupStep
  <2> QED
    BY <2>1, <2>5
<1> HIDE DEF Z
<1>6. events \in Z
  BY <1>4, <1>5, SeqInduction
<1>7. Groups(events, q) \in V
  BY <1>3
<1> QED
  BY <1>6, <1>7 DEF Z, V

-----------------------------------------------------------------------------
(* The anchors of a summary.                                               *)

AllAnchors(groups) == FoldLeft(LAMBDA a, g : Updated(a, g.stats.anchors), << >>, groups)

AnchoredOver(E, V) == \A x \in V, d \in E : Updated(x, d.stats.anchors) \in V
AnchoredGoes(E, q) == AllAnchors(<< >>) = << >> /\ \A e \in E : AllAnchors(Append(q, e)) = Updated(AllAnchors(q), e.stats.anchors)

LEMMA AnchoredTrace ==
  ASSUME NEW E, NEW V, << >> \in V, AnchoredOver(E, V), NEW seq \in Seq(E)
  PROVE  GoesTo(V, [p \in V \X E |-> Updated(p[1], p[2].stats.anchors)], << >>, seq, AllAnchors(seq))
<1> DEFINE n == Len(seq)
           base == << >>
           G == [p \in V \X E |-> Updated(p[1], p[2].stats.anchors)]
           op(x, i) == Updated(x, seq[i].stats.anchors)
           Fix(f) == f = [s \in SUBSET (1..n) |-> IF s = {} THEN base ELSE op(f[s \ {Max(s)}], Max(s))]
           F == [p \in V \X (1..n) |-> op(p[1], p[2])]
           all == CHOOSE f : Fix(f)
<1>0. n \in Nat /\ DOMAIN seq = 1..n /\ base \in V /\ \A i \in 1..n : seq[i] \in E
  OBVIOUS
<1>1. AllAnchors(seq) = all[1..n]
  BY <1>0 DEF AllAnchors, FoldLeft, MapThenFoldSet
<1>2. F \in [V \X (1..n) -> V] /\ \A x \in V, i \in 1..n : F[<<x, i>>] = op(x, i) /\ op(x, i) = G[<<x, seq[i]>>]
  BY <1>0 DEF AnchoredOver
<1> HIDE DEF op, F, G, base, n
<1>3. Fix(all)
  <2>1. PICK f \in [SUBSET (1..n) -> V] : FoldOf(F, base, n, f)
    BY <1>0, <1>2, FoldExists
  <2>2. ASSUME NEW s \in SUBSET (1..n) PROVE f[s] = IF s = {} THEN base ELSE op(f[s \ {Max(s)}], Max(s))
    <3>1. f[s] = IF s = {} THEN base ELSE F[<<f[s \ {Max(s)}], Max(s)>>]
      BY <2>1 DEF FoldOf
    <3>2. s # {} => Max(s) \in 1..n /\ f[s \ {Max(s)}] \in V
      BY <1>0, <2>1, MaxIn
    <3> QED
      BY <1>2, <3>1, <3>2
  <2>3. Fix(f)
    BY <2>1, <2>2
  <2> HIDE DEF Fix
  <2> QED
    BY <2>3
<1> HIDE DEF all
<1>4. Unfolds(V, F, base, n, all)
  <2>1. \A s \in SUBSET (1..n) : s # {} => Max(s) \in 1..n
    BY <1>0, MaxIn
  <2> QED
    BY <1>2, <1>3, <2>1 DEF Unfolds
<1>5. RunsTo(V, F, base, n, AllAnchors(seq))
  <2>1. F \in [V \X (1..n) -> V]
    BY <1>2
  <2>2. RunsTo(V, F, base, n, all[1..n])
    BY <1>0, <1>4, <2>1, FoldTrace
  <2> QED
    BY <1>1, <2>2
<1>6. \A x \in V, i \in 1..n : F[<<x, i>>] = G[<<x, seq[i]>>]
  BY ZenonT(60), <1>2
<1>7. GoesTo(V, G, base, seq, AllAnchors(seq))
  BY <1>0, <1>5, <1>6, RunsGo DEF n
<1> QED
  BY <1>7 DEF G, base

LEMMA AnchoredLaw ==
  ASSUME NEW E, NEW V, << >> \in V, AnchoredOver(E, V), NEW q \in Seq(E)
  PROVE  AnchoredGoes(E, q) /\ AllAnchors(q) \in V
<1> DEFINE G == [p \in V \X E |-> Updated(p[1], p[2].stats.anchors)]
           base == << >>
           none == << >>
           x == AllAnchors(q)
<1>1. GoesTo(V, G, base, q, x)
  BY AnchoredTrace
<1>2. GoesTo(V, G, base, none, AllAnchors(none))
  <2>1. none \in Seq(E)
    OBVIOUS
  <2> QED
    BY <2>1, AnchoredTrace
<1>3. \A y \in V, e \in E : G[<<y, e>>] = Updated(y, e.stats.anchors)
  OBVIOUS
<1> HIDE DEF G, base, none, x
<1>4. x \in V /\ AllAnchors(none) = base
  BY <1>1, <1>2, GoesIn, GoesNowhere DEF none
<1>5. ASSUME NEW e \in E PROVE AllAnchors(Append(q, e)) = Updated(x, e.stats.anchors)
  <2> DEFINE longer == Append(q, e)
  <2>1. longer \in Seq(E)
    BY AppendIs
  <2>2. GoesTo(V, G, base, longer, AllAnchors(longer))
    BY <2>1, AnchoredTrace DEF G, base
  <2> HIDE DEF longer
  <2>3. AllAnchors(longer) = G[<<x, e>>]
    BY <1>1, <2>2, GoesOn DEF longer
  <2> QED
    BY <1>3, <1>4, <2>3 DEF longer
<1> QED
  BY <1>4, <1>5 DEF base, none, x, AnchoredGoes

LEMMA AnchoredAre ==
  ASSUME NEW E, NEW q, NEW gs \in Seq(GroupsOf(E, q))
  PROVE  DOMAIN AllAnchors(gs) = UNION {DOMAIN gs[i].stats.anchors : i \in 1..Len(gs)}
<1> DEFINE T == GroupsOf(E, q)
           V == Anchors(E)
           covered(p) == UNION {DOMAIN g.stats.anchors : g \in ToSet(p)}
           Z == {p \in Seq(T) : DOMAIN AllAnchors(p) = covered(p)}
           base == << >>
<1>1. base \in V /\ DOMAIN base = {}
  BY NoAnchors
<1>2. ASSUME NEW x \in V, NEW d \in T PROVE Updated(x, d.stats.anchors) \in V /\ DOMAIN Updated(x, d.stats.anchors) = DOMAIN x \cup DOMAIN d.stats.anchors
  <2> DEFINE y == d.stats.anchors
             all == {e.customer : e \in E}
  <2>1. y \in V
    BY DEF GroupsOf, StatsOf
  <2>2. PICK C \in SUBSET all : x \in [C -> E]
    BY DEF Anchors
  <2>3. PICK D \in SUBSET all : y \in [D -> E]
    BY <2>1 DEF Anchors
  <2> HIDE DEF y, all
  <2>4. Updated(x, y) \in [C \cup D -> E] /\ DOMAIN x = C /\ DOMAIN y = D
    BY <2>2, <2>3 DEF Updated
  <2>5. C \cup D \in SUBSET all
    OBVIOUS
  <2> QED
    BY <2>4, <2>5 DEF Anchors, y, all
<1>3. AnchoredOver(T, V)
  BY <1>2 DEF AnchoredOver
<1> HIDE DEF T, V
<1>4. ASSUME NEW p \in Seq(T)
      PROVE  AllAnchors(base) = base /\ AllAnchors(p) \in V
             /\ \A g \in T : AllAnchors(Append(p, g)) = Updated(AllAnchors(p), g.stats.anchors)
  <2>1. AnchoredGoes(T, p) /\ AllAnchors(p) \in V
    BY <1>1, <1>3, AnchoredLaw
  <2> QED
    BY <2>1 DEF AnchoredGoes
<1>5. << >> \in Z
  <2>1. << >> \in Seq(T)
    OBVIOUS
  <2>2. AllAnchors(base) = base
    BY <1>4, <2>1
  <2>3. ToSet(<< >>) = {}
    BY DEF ToSet
  <2> QED
    BY <1>1, <2>1, <2>2, <2>3
<1>6. ASSUME NEW p \in Seq(T), NEW g \in T, p \in Z PROVE Append(p, g) \in Z
  <2> DEFINE a == Append(p, g)
  <2>1. a \in Seq(T) /\ ToSet(a) = ToSet(p) \cup {g}
    BY AppendIs, AppendSet
  <2>2. AllAnchors(p) \in V /\ AllAnchors(a) = Updated(AllAnchors(p), g.stats.anchors) /\ DOMAIN AllAnchors(p) = covered(p)
    BY <1>4, <1>6
  <2>3. DOMAIN AllAnchors(a) = covered(p) \cup DOMAIN g.stats.anchors
    BY <1>2, <2>2
  <2> HIDE DEF a
  <2>4. covered(a) = covered(p) \cup DOMAIN g.stats.anchors
    BY <2>1
  <2> QED
    BY <2>1, <2>3, <2>4 DEF a
<1> HIDE DEF Z
<1>7. gs \in Seq(T)
  BY DEF T
<1>8. gs \in Z
  BY <1>5, <1>6, <1>7, SeqInduction
<1>9. ToSet(gs) = {gs[i] : i \in 1..Len(gs)}
  BY DEF ToSet
<1>10. DOMAIN AllAnchors(gs) = covered(gs)
  BY <1>8 DEF Z
<1> QED
  BY <1>9, <1>10

\* The groups of a summary partition the events that count, its metrics are those of their
\* events, and every customer of a cohort can be looked up.
LEMMA SummaryHolds ==
  ASSUME NEW events \in Timelines, NEW q \in Queries, q.mode = "summary"
  PROVE  SummarySound(events, q)
<1> DEFINE E == ToSet(events)
           gs == Groups(events, q)
           K == ThatCount(events, q)
           n == Len(gs)
           in(g) == {e \in K : GroupKey(e, q) = g.key}
           out == Summarized(events, q, FALSE)
<1>1. events \in Seq(E) /\ Numbered(E)
  BY TimelinesAssumption DEF Numbered
<1>2. Ordered(events)
  <2> DEFINE m == Len(events)
  <2>1. DOMAIN events = 1..m
    BY <1>1
  <2>2. \A i, j \in DOMAIN events : i < j => Precedes(events[i], events[j])
    BY TimelinesAssumption
  <2> HIDE DEF m
  <2>3. \A i, j \in 1..m : i < j => Precedes(events[i], events[j])
    BY <2>1, <2>2
  <2> QED
    BY <2>3 DEF Ordered, m
<1>3. Measures(E, q)
  BY MeasuresAssumption DEF Measures
<1>4. ToSet(Those(events, LAMBDA e : Counts(e, q))) = K
  <2> DEFINE S == {e \in ToSet(events) : Counts(e, q)}
  <2>1. Those(events, LAMBDA e : Counts(e, q)) = Only(events, S)
    BY DEF Those
  <2>2. ToSet(Only(events, S)) = ToSet(events) \cap S
    BY <1>1, OnlyHas
  <2> QED
    BY <2>1, <2>2 DEF ThatCount
<1> HIDE DEF E
<1>5. gs \in Seq(GroupsOf(E, q)) /\ Grouped(gs, K, q)
  BY <1>1, <1>2, <1>3, GroupsAre
<1>6. DOMAIN gs = 1..n
  BY <1>5
<1>7. /\ \A i, j \in 1..n : gs[i].key = gs[j].key => i = j
      /\ \A e \in K : \E i \in 1..n : gs[i].key = GroupKey(e, q)
      /\ \A i \in 1..n : StatsRight(gs[i].stats, in(gs[i]), q)
  BY <1>5 DEF Grouped
<1>8. \A i \in 1..n : DOMAIN gs[i].stats.anchors = gs[i].stats.customers
  BY <1>7 DEF StatsRight
<1>9. ASSUME NEW i \in 1..n
      PROVE  LET st == gs[i].stats
                 den == {e \in in(gs[i]) : Matches(e, q.denominator)}
             IN  /\ st.events = Cardinality(in(gs[i]))
                 /\ st.customers = {e.customer : e \in in(gs[i])}
                 /\ st.denominator = Cardinality(den)
                 /\ st.numerator = Cardinality({e \in den : Matches(e, q.numerator)})
                 /\ st.with \subseteq st.among /\ st.among \subseteq st.customers
  <2> DEFINE st == gs[i].stats
             G == in(gs[i])
  <2>1. StatsRight(st, G, q)
    BY <1>7
  <2> HIDE DEF st, G
  <2>2. /\ st.events = Cardinality(G) /\ st.customers = {e.customer : e \in G}
        /\ st.denominator = Cardinality(Den(G, q)) /\ st.numerator = Cardinality(Num(G, q))
        /\ st.among = {e.customer : e \in Den(G, q)} /\ st.with = {e.customer : e \in Num(G, q)}
    BY <2>1 DEF StatsRight
  <2>3. Den(G, q) = {e \in G : Matches(e, q.denominator)}
    BY DEF Den
  <2>4. Num(G, q) = {e \in Den(G, q) : Matches(e, q.numerator)}
    BY DEF Num
  <2>5. st.with \subseteq st.among /\ st.among \subseteq st.customers
    BY <2>2, <2>3, <2>4
  <2> QED
    BY <2>2, <2>3, <2>4, <2>5 DEF st, G
<1>10. out.rows = {SummaryRow(gs[i], FALSE) : i \in 1..n} /\ out.anchors = AllAnchors(gs)
  BY DEF Summarized, AllAnchors
<1>11. \A r \in Summarized(events, q, TRUE).rows : r.by_event = Null /\ r.by_customer = Null
  BY DEF Summarized, SummaryRow, Ratio
<1>12. \A i \in 1..n : SummaryRow(gs[i], FALSE).cohort = gs[i].stats.customers
  BY DEF SummaryRow
<1> HIDE DEF gs, K, n, out, in
<1>13. DOMAIN out.anchors = UNION {r.cohort : r \in out.rows}
  <2>1. DOMAIN AllAnchors(gs) = UNION {DOMAIN gs[i].stats.anchors : i \in 1..Len(gs)}
    BY <1>5, AnchoredAre
  <2>2. UNION {DOMAIN gs[i].stats.anchors : i \in 1..n} = UNION {gs[i].stats.customers : i \in 1..n}
    BY <1>8
  <2>3. {r.cohort : r \in out.rows} = {gs[i].stats.customers : i \in 1..n}
    <3> DEFINE row(i) == SummaryRow(gs[i], FALSE)
    <3>1. out.rows = {row(i) : i \in 1..n}
      BY <1>10
    <3>2. \A i \in 1..n : row(i).cohort = gs[i].stats.customers
      BY <1>12
    <3> HIDE DEF row
    <3>3. {r.cohort : r \in {row(i) : i \in 1..n}} = {row(i).cohort : i \in 1..n}
      OBVIOUS
    <3>4. {row(i).cohort : i \in 1..n} = {gs[i].stats.customers : i \in 1..n}
      BY <3>2
    <3> QED
      BY <3>1, <3>3, <3>4
  <2> QED
    BY <1>10, <2>1, <2>2, <2>3 DEF n
<1> DEFINE counted == Those(events, LAMBDA e : Counts(e, q))
           inGroup(g) == {e \in ToSet(counted) : <<Bucket(e.at, q.width, 0), Lookups(e, q.group_by)>> = g.key}
<1>14. \A g : inGroup(g) = in(g)
  BY <1>4 DEF in, GroupKey
<1>15. SummarySound(events, q)
        <=> /\ \A i, j \in DOMAIN gs : gs[i].key = gs[j].key => i = j
            /\ \A e \in ToSet(counted) : \E i \in DOMAIN gs : e \in inGroup(gs[i])
            /\ \A i \in DOMAIN gs :
                 LET st == gs[i].stats
                     den == {e \in inGroup(gs[i]) : Matches(e, q.denominator)}
                 IN  /\ st.events = Cardinality(inGroup(gs[i]))
                     /\ st.customers = {e.customer : e \in inGroup(gs[i])}
                     /\ st.denominator = Cardinality(den)
                     /\ st.numerator = Cardinality({e \in den : Matches(e, q.numerator)})
                     /\ st.with \subseteq st.among /\ st.among \subseteq st.customers
            /\ DOMAIN out.anchors = UNION {r.cohort : r \in out.rows}
            /\ \A r \in Summarized(events, q, TRUE).rows : r.by_event = Null /\ r.by_customer = Null
  BY Zenon DEF SummarySound, gs, out
<1> HIDE DEF inGroup, counted
<1>16. \A e \in ToSet(counted) : \E i \in DOMAIN gs : e \in inGroup(gs[i])
  <2>1. ASSUME NEW e \in K PROVE \E i \in DOMAIN gs : e \in in(gs[i])
    BY <1>6, <1>7 DEF in
  <2> QED
    BY <1>4, <1>14, <2>1 DEF counted
<1>17. ASSUME NEW i \in DOMAIN gs
       PROVE  LET st == gs[i].stats
                  den == {e \in inGroup(gs[i]) : Matches(e, q.denominator)}
              IN  /\ st.events = Cardinality(inGroup(gs[i]))
                  /\ st.customers = {e.customer : e \in inGroup(gs[i])}
                  /\ st.denominator = Cardinality(den)
                  /\ st.numerator = Cardinality({e \in den : Matches(e, q.numerator)})
                  /\ st.with \subseteq st.among /\ st.among \subseteq st.customers
  <2>1. inGroup(gs[i]) = in(gs[i]) /\ i \in 1..n
    BY <1>6, <1>14
  <2> QED
    BY <1>9, <2>1
<1>18. \A i, j \in DOMAIN gs : gs[i].key = gs[j].key => i = j
  BY <1>6, <1>7
<1> QED
  BY <1>11, <1>13, <1>15, <1>16, <1>17, <1>18

\* What a query reports is what it promises of any timeline: of every mode, the rows are
\* those of the events that count, whatever was stored of them.
LEMMA QueriesHold ==
  ASSUME NEW events \in Timelines, NEW q \in Queries
  PROVE  QuerySound(<<events, q>>)
<1>1. CASE q.mode = "repetition"
  <2>1. RepetitionSound(events, q)
    BY <1>1, RepetitionHolds
  <2> QED
    BY <1>1, <2>1 DEF QuerySound
<1>2. CASE q.mode \in {"sequence", "funnel"}
  <2>1. SequenceSound(events, q)
    BY <1>2, SequenceHolds
  <2> QED
    BY <1>2, <2>1 DEF QuerySound
<1>3. CASE q.mode = "summary"
  <2>1. /\ SummarySound(events, q) /\ VocabularySound(events) /\ CatalogSound(events)
        /\ PredicatesSound(events) /\ WindowSound(events)
    BY <1>3, SummaryHolds, VocabularyHolds, CatalogHolds, PredicatesHold, WindowHolds
  <2> QED
    BY <1>3, <2>1 DEF QuerySound
<1> QED
  BY <1>1, <1>2, <1>3, QueriesAssumption
=============================================================================
