------------------------- MODULE RunLifecycleProofs -------------------------
(***************************************************************************)
(* Proofs about RunLifecycle and RunStream, for any number of Runs,        *)
(* events, answers, faults and stops, and whatever a Pack emits: what the  *)
(* journal of a Run is; that status, snapshot and stream of a Run follow   *)
(* it, and its status moves as RunPhases says, if the disk does not fail;  *)
(* and that what the clients of its stream have is what the journal has,   *)
(* whether snapshots can be saved or not.                                  *)
(***************************************************************************)
EXTENDS RunStream, FiniteSetTheorems, WellFoundedInduction, TLAPS

-----------------------------------------------------------------------------
(* The projection, event by event.                                         *)

NatOrder == {ss \in Nat \X Nat : ss[1] < ss[2]}

\* What holds of 0 and passes from n to n + 1 holds of every number.
LEMMA SetInduction ==
  ASSUME NEW S \in SUBSET Nat, 0 \in S, \A n \in S : n + 1 \in S
  PROVE  S = Nat
<1> SUFFICES ASSUME Nat \ S # {} PROVE FALSE
  OBVIOUS
<1>1. IsWellFoundedOn(NatOrder, Nat)
  BY NatLessThanWellFounded DEF OpToRel, NatOrder
<1>2. PICK x \in Nat \ S : \A y \in Nat \ S : ~ (<<y, x>> \in NatOrder)
  <2> HIDE DEF NatOrder
  <2> QED
    BY <1>1, WFMin
<1>3. x # 0 /\ x - 1 \in Nat /\ x - 1 < x
  OBVIOUS
<1>4. x - 1 \in S
  BY <1>2, <1>3 DEF NatOrder
<1> QED
  BY <1>3, <1>4

\* f[i] is the concatenation of the first i sequences, up to n.
Flattening(seqs, n, f) == f = [i \in 1..n |-> IF i = 1 THEN seqs[i] ELSE f[i - 1] \o seqs[i]]

LEMMA FlatteningAt ==
  ASSUME NEW seqs, NEW n \in Nat, NEW f, Flattening(seqs, n, f), NEW i \in 1..n
  PROVE  f[i] = IF i = 1 THEN seqs[i] ELSE f[i - 1] \o seqs[i]
<1> DEFINE b(j) == IF j = 1 THEN seqs[j] ELSE f[j - 1] \o seqs[j]
<1>1. f = [j \in 1..n |-> b(j)]
  BY DEF Flattening
<1> HIDE DEF b
<1>2. f[i] = b(i)
  BY <1>1
<1> QED
  BY <1>2 DEF b

LEMMA FlatteningIsUnique ==
  ASSUME NEW seqs, NEW n \in Nat, NEW f, NEW g, Flattening(seqs, n, f), Flattening(seqs, n, g)
  PROVE  f = g
<1> DEFINE S == {i \in Nat : i \in 1..n => f[i] = g[i]}
<1>1. 0 \in S
  OBVIOUS
<1>2. ASSUME NEW i \in S PROVE i + 1 \in S
  <2>1. i \in Nat
    OBVIOUS
  <2>2. CASE i + 1 \notin 1..n
    BY <2>1, <2>2
  <2>3. CASE i + 1 \in 1..n /\ i = 0
    <3>1. f[1] = seqs[1] /\ g[1] = seqs[1]
      BY <2>1, <2>3, FlatteningAt
    <3> QED
      BY <2>1, <2>3, <3>1
  <2>4. CASE i + 1 \in 1..n /\ i # 0
    <3>1. f[i] = g[i] /\ i + 1 # 1 /\ (i + 1) - 1 = i
      BY <2>1, <2>4
    <3>2. f[i + 1] = g[i + 1]
      <4>1. f[i + 1] = IF i + 1 = 1 THEN seqs[i + 1] ELSE f[(i + 1) - 1] \o seqs[i + 1]
        BY <2>4, FlatteningAt
      <4>2. g[i + 1] = IF i + 1 = 1 THEN seqs[i + 1] ELSE g[(i + 1) - 1] \o seqs[i + 1]
        BY <2>4, FlatteningAt
      <4> QED
        BY <3>1, <4>1, <4>2, Zenon
    <3> QED
      BY <2>1, <3>2
  <2> QED
    BY <2>2, <2>3, <2>4
<1>3. S = Nat
  <2> HIDE DEF S
  <2>1. S \in SUBSET Nat
    BY DEF S
  <2> QED
    BY <1>1, <1>2, <2>1, SetInduction
<1>4. \A i \in 1..n : f[i] = g[i]
  BY <1>3
<1>5. f = [i \in 1..n |-> f[i]] /\ g = [i \in 1..n |-> g[i]]
  BY DEF Flattening
<1> QED
  BY <1>4, <1>5

LEMMA FlatteningExtended ==
  ASSUME NEW seqs, NEW n \in Nat \ {0}, NEW f, Flattening(seqs, n, f)
  PROVE  Flattening(seqs, n + 1, [i \in 1..(n + 1) |-> IF i = n + 1 THEN f[n] \o seqs[n + 1] ELSE f[i]])
<1> DEFINE last == f[n] \o seqs[n + 1]
           g == [i \in 1..(n + 1) |-> IF i = n + 1 THEN last ELSE f[i]]
<1> HIDE DEF last
<1>1. ASSUME NEW i \in 1..(n + 1)
      PROVE  g[i] = IF i = 1 THEN seqs[i] ELSE g[i - 1] \o seqs[i]
  <2>1. CASE i = 1
    <3>1. 1 \in 1..n /\ 1 # n + 1
      OBVIOUS
    <3>2. f[1] = seqs[1]
      BY <3>1, FlatteningAt
    <3> QED
      BY <2>1, <3>1, <3>2
  <2>2. CASE i = n + 1
    <3>1. g[n + 1] = last /\ g[n] = f[n] /\ n + 1 # 1 /\ (n + 1) - 1 = n
      OBVIOUS
    <3> HIDE DEF g
    <3>2. g[n + 1] = g[(n + 1) - 1] \o seqs[n + 1]
      BY <3>1, Zenon DEF last
    <3> QED
      BY <2>2, <3>1, <3>2, Zenon
  <2>3. CASE i # 1 /\ i # n + 1
    <3>1. i \in 1..n /\ i - 1 \in 1..n /\ i - 1 # n + 1
      BY <2>3
    <3>2. g[i] = f[i] /\ g[i - 1] = f[i - 1]
      BY <2>3, <3>1
    <3>3. f[i] = IF i = 1 THEN seqs[i] ELSE f[i - 1] \o seqs[i]
      BY <3>1, FlatteningAt
    <3> HIDE DEF g
    <3> QED
      BY <3>2, <3>3, Zenon
  <2> QED
    BY <2>1, <2>2, <2>3
<1>2. g = [i \in 1..(n + 1) |-> g[i]]
  OBVIOUS
<1>3. g = [i \in 1..(n + 1) |-> IF i = 1 THEN seqs[i] ELSE g[i - 1] \o seqs[i]]
  <2> HIDE DEF g
  <2> QED
    BY <1>1, <1>2
<1> QED
  BY <1>3 DEF Flattening, last

LEMMA FlatteningExists ==
  ASSUME NEW seqs, NEW n \in Nat \ {0}
  PROVE  \E f : Flattening(seqs, n, f)
<1> DEFINE S == {m \in Nat : m = 0 \/ \E f : Flattening(seqs, m, f)}
<1>1. 0 \in S
  OBVIOUS
<1>2. ASSUME NEW m \in S PROVE m + 1 \in S
  <2>1. CASE m = 0
    <3>1. Flattening(seqs, 1, [i \in 1..1 |-> seqs[i]])
      <4>1. \A i \in 1..1 : i = 1
        OBVIOUS
      <4> QED
        BY <4>1 DEF Flattening
    <3> QED
      BY <2>1, <3>1
  <2>2. CASE m # 0
    <3>1. m \in Nat \ {0}
      BY <2>2
    <3>2. PICK f : Flattening(seqs, m, f)
      BY <3>1
    <3>3. \E g : Flattening(seqs, m + 1, g)
      BY <3>1, <3>2, FlatteningExtended
    <3> QED
      BY <3>1, <3>3
  <2> QED
    BY <2>1, <2>2
<1>3. S = Nat
  <2> HIDE DEF S
  <2>1. S \in SUBSET Nat
    BY DEF S
  <2> QED
    BY <1>1, <1>2, <2>1, SetInduction
<1> QED
  BY <1>3

LEMMA FlattenSeqIsFlattening ==
  ASSUME NEW seqs, Len(seqs) \in Nat \ {0}
  PROVE  \E f : Flattening(seqs, Len(seqs), f) /\ FlattenSeq(seqs) = f[Len(seqs)]
<1> DEFINE f == CHOOSE f : Flattening(seqs, Len(seqs), f)
<1>1. Flattening(seqs, Len(seqs), f)
  BY FlatteningExists
<1>2. FlattenSeq(seqs) = f[Len(seqs)]
  BY DEF FlattenSeq, Flattening
<1> QED
  BY <1>1, <1>2

\* One more sequence is appended to the concatenation.
LEMMA FlattenSeqAppend ==
  ASSUME NEW T, NEW seqs \in Seq(Seq(T)), NEW x \in Seq(T)
  PROVE  FlattenSeq(seqs) \in Seq(T) => FlattenSeq(Append(seqs, x)) = FlattenSeq(seqs) \o x
<1> DEFINE more == Append(seqs, x)
           n == Len(seqs)
<1>1. /\ Len(more) = n + 1 /\ n \in Nat /\ more[n + 1] = x /\ \A i \in 1..n : more[i] = seqs[i]
  OBVIOUS
<1> HIDE DEF more
<1>2. PICK g : Flattening(more, n + 1, g) /\ FlattenSeq(more) = g[n + 1]
  BY <1>1, FlattenSeqIsFlattening
<1>3. n + 1 \in 1..(n + 1) /\ n + 1 \in Nat
  BY <1>1
<1>4. g[n + 1] = IF n + 1 = 1 THEN more[n + 1] ELSE g[(n + 1) - 1] \o more[n + 1]
  BY <1>2, <1>3, FlatteningAt, ZenonT(60)
<1>5. CASE n = 0
  <2>1. seqs = << >>
    BY <1>5
  <2>2. FlattenSeq(seqs) = << >>
    BY <1>5, <2>1 DEF FlattenSeq
  <2>3. FlattenSeq(more) = x
    BY <1>1, <1>2, <1>4, <1>5
  <2> QED
    BY <2>2, <2>3 DEF more
<1>6. CASE n # 0
  <2>1. PICK f : Flattening(seqs, n, f) /\ FlattenSeq(seqs) = f[n]
    BY <1>1, <1>6, FlattenSeqIsFlattening
  <2> DEFINE h == [i \in 1..n |-> g[i]]
  <2>2. ASSUME NEW i \in 1..n PROVE h[i] = IF i = 1 THEN seqs[i] ELSE h[i - 1] \o seqs[i]
    <3>1. g[i] = IF i = 1 THEN more[i] ELSE g[i - 1] \o more[i]
      <4>1. i \in 1..(n + 1) /\ n + 1 \in Nat
        BY <1>1
      <4> QED
        BY <1>2, <4>1, FlatteningAt, ZenonT(60)
    <3>2. more[i] = seqs[i] /\ h[i] = g[i] /\ (i # 1 => h[i - 1] = g[i - 1])
      BY <1>1
    <3> HIDE DEF h
    <3> QED
      BY <3>1, <3>2, Zenon
  <2>3. h = [i \in 1..n |-> h[i]]
    OBVIOUS
  <2> HIDE DEF h
  <2>4. Flattening(seqs, n, h)
    BY <2>2, <2>3 DEF Flattening
  <2>5. h = f
    BY <1>1, <2>1, <2>4, FlatteningIsUnique
  <2>6. f[n] = g[n]
    BY <1>1, <1>6, <2>5 DEF h
  <2>7. g[n + 1] = g[n] \o x
    BY <1>1, <1>4, <1>6
  <2> QED
    BY <1>2, <2>1, <2>6, <2>7, Zenon DEF more
<1> QED
  BY <1>5, <1>6

Wires == Kinds \cup {"run_started", "clarification_required", "error"}

LEMMA WireEventsTyped ==
  ASSUME NEW kind \in Kinds
  PROVE  WireEvents(kind) \in Seq(Wires)
<1> DEFINE w == WireEvents(kind)
<1>1. w \in {<<"run_started">>, <<"clarification_required">>, <<"error", "failed">>, << >>, <<kind>>}
  BY DEF WireEvents
<1>2. "failed" \in Wires /\ "run_started" \in Wires /\ "clarification_required" \in Wires /\ "error" \in Wires
      /\ kind \in Wires
  BY DEF Wires, Kinds, Ends
<1> HIDE DEF w
<1>3. <<"run_started">> \in Seq(Wires) /\ <<"clarification_required">> \in Seq(Wires) /\ <<"error", "failed">> \in Seq(Wires)
      /\ << >> \in Seq(Wires) /\ <<kind>> \in Seq(Wires)
  BY <1>2
<1>4. w \in Seq(Wires)
  BY <1>1, <1>3
<1> QED
  BY <1>4 DEF w

LEMMA ProjectionOfNothing == Projection(<< >>) = << >>
  BY DEF Projection, FlattenSeq

LEMMA ProjectionExtended ==
  ASSUME NEW h \in Seq(Kinds), NEW kind \in Kinds, Projection(h) \in Seq(Wires)
  PROVE  /\ Projection(Append(h, kind)) = Projection(h) \o WireEvents(kind)
         /\ Projection(Append(h, kind)) \in Seq(Wires)
<1> DEFINE seqs == [i \in 1..Len(h) |-> WireEvents(h[i])]
           more == [i \in 1..Len(Append(h, kind)) |-> WireEvents(Append(h, kind)[i])]
<1>1. \A i \in 1..Len(h) : h[i] \in Kinds
  OBVIOUS
<1>2. seqs \in Seq(Seq(Wires))
  BY <1>1, WireEventsTyped
<1>3. WireEvents(kind) \in Seq(Wires)
  BY WireEventsTyped
<1>4. more = Append(seqs, WireEvents(kind))
  <2>1. Len(Append(h, kind)) = Len(h) + 1 /\ Len(seqs) = Len(h) /\ Len(h) \in Nat
    BY <1>2
  <2>2. \A i \in 1..Len(h) : Append(h, kind)[i] = h[i]
    OBVIOUS
  <2>3. Append(h, kind)[Len(h) + 1] = kind
    OBVIOUS
  <2>4. Append(seqs, WireEvents(kind)) = [i \in 1..(Len(h) + 1) |-> IF i = Len(h) + 1 THEN WireEvents(kind) ELSE seqs[i]]
    <3> DEFINE w == WireEvents(kind)
               ap == Append(seqs, w)
    <3>1. w \in Seq(Wires)
      BY <1>3
    <3> HIDE DEF seqs, w
    <3>2. ap = [i \in 1..Len(ap) |-> ap[i]] /\ Len(ap) = Len(h) + 1
      <4>1. ap \in Seq(Seq(Wires)) /\ Len(ap) = Len(seqs) + 1
        BY <1>2, <3>1
      <4> HIDE DEF ap
      <4> QED
        BY <2>1, <4>1
    <3>3. \A i \in 1..Len(ap) : ap[i] = IF i = Len(h) + 1 THEN w ELSE seqs[i]
      BY <1>2, <2>1, <3>1
    <3> QED
      BY <3>2, <3>3 DEF w
  <2> QED
    BY <2>1, <2>2, <2>3, <2>4
<1> HIDE DEF more, seqs
<1>5. Projection(h) = FlattenSeq(seqs) /\ Projection(Append(h, kind)) = FlattenSeq(more)
  BY DEF Projection, seqs, more
<1>6. FlattenSeq(more) = FlattenSeq(seqs) \o WireEvents(kind)
  BY <1>2, <1>3, <1>4, <1>5, FlattenSeqAppend
<1> QED
  BY <1>3, <1>5, <1>6

\* The projection of n + 1 events is that of n and the wire events of the next.
LEMMA ProjectionOfPrefix ==
  ASSUME NEW h \in Seq(Kinds), NEW n \in 0..Len(h)
  PROVE  Projection(SubSeq(h, 1, n)) \in Seq(Wires)
<1> DEFINE S == {m \in Nat : m \in 0..Len(h) => Projection(SubSeq(h, 1, m)) \in Seq(Wires)}
<1>1. 0 \in S
  <2>1. SubSeq(h, 1, 0) = << >>
    OBVIOUS
  <2>2. Projection(SubSeq(h, 1, 0)) \in Seq(Wires)
    <3>1. << >> \in Seq(Wires)
      OBVIOUS
    <3> QED
      BY <2>1, <3>1, ProjectionOfNothing, Zenon
  <2> QED
    BY <2>2
<1>2. ASSUME NEW m \in S PROVE m + 1 \in S
  <2>1. SUFFICES ASSUME m + 1 \in 0..Len(h) PROVE Projection(SubSeq(h, 1, m + 1)) \in Seq(Wires)
    OBVIOUS
  <2>2. SubSeq(h, 1, m + 1) = Append(SubSeq(h, 1, m), h[m + 1])
    BY <2>1
  <2>3. SubSeq(h, 1, m) \in Seq(Kinds) /\ h[m + 1] \in Kinds
    BY <2>1
  <2>4. Projection(SubSeq(h, 1, m)) \in Seq(Wires)
    BY <2>1
  <2>5. Projection(Append(SubSeq(h, 1, m), h[m + 1])) \in Seq(Wires)
    BY <2>3, <2>4, ProjectionExtended
  <2> QED
    BY <2>2, <2>5, Zenon
<1>3. S = Nat
  <2> HIDE DEF S
  <2>1. S \in SUBSET Nat
    BY DEF S
  <2> QED
    BY <1>1, <1>2, <2>1, SetInduction
<1> QED
  BY <1>3

LEMMA ProjectionIsSequence ==
  ASSUME NEW h \in Seq(Kinds)
  PROVE  Projection(h) \in Seq(Wires)
<1>1. SubSeq(h, 1, Len(h)) = h /\ Len(h) \in 0..Len(h)
  OBVIOUS
<1> QED
  BY <1>1, ProjectionOfPrefix

\* Committed events that are published make the projection longer by theirs.
LEMMA ProjectionAppend ==
  ASSUME NEW h \in Seq(Kinds), NEW kind \in Kinds
  PROVE  /\ Projection(Append(h, kind)) = Projection(h) \o WireEvents(kind)
         /\ Projection(<<kind>>) = WireEvents(kind)
<1>1. Projection(Append(h, kind)) = Projection(h) \o WireEvents(kind)
  BY ProjectionExtended, ProjectionIsSequence
<1>2. Append(<< >>, kind) = <<kind>> /\ << >> \in Seq(Kinds)
  OBVIOUS
<1>3. Projection(<<kind>>) = << >> \o WireEvents(kind)
  BY <1>2, ProjectionExtended, ProjectionIsSequence, ProjectionOfNothing
<1>4. WireEvents(kind) \in Seq(Wires)
  BY WireEventsTyped
<1> QED
  BY <1>1, <1>3, <1>4

\* Every wire event comes from an event of the history.
LEMMA ProjectedFrom ==
  ASSUME NEW h \in Seq(Kinds), NEW e \in ToSet(Projection(h))
  PROVE  \E i \in 1..Len(h) : e \in ToSet(WireEvents(h[i]))
<1> DEFINE S == {m \in Nat : m \in 0..Len(h) =>
                   (e \in ToSet(Projection(SubSeq(h, 1, m))) => \E i \in 1..m : e \in ToSet(WireEvents(h[i])))}
<1>1. 0 \in S
  <2>1. SubSeq(h, 1, 0) = << >>
    OBVIOUS
  <2>2. Projection(SubSeq(h, 1, 0)) = << >>
    BY <2>1, ProjectionOfNothing, Zenon
  <2>3. ToSet(<< >>) = {}
    BY DEF ToSet
  <2>4. e \notin ToSet(Projection(SubSeq(h, 1, 0)))
    BY <2>2, <2>3
  <2> QED
    BY <2>4
<1>2. ASSUME NEW m \in S PROVE m + 1 \in S
  <2>1. SUFFICES ASSUME m + 1 \in 0..Len(h), e \in ToSet(Projection(SubSeq(h, 1, m + 1)))
                 PROVE  \E i \in 1..(m + 1) : e \in ToSet(WireEvents(h[i]))
    OBVIOUS
  <2>2. SubSeq(h, 1, m + 1) = Append(SubSeq(h, 1, m), h[m + 1])
    BY <2>1
  <2>3. SubSeq(h, 1, m) \in Seq(Kinds) /\ h[m + 1] \in Kinds
    BY <2>1
  <2> DEFINE p == Projection(SubSeq(h, 1, m))
             w == WireEvents(h[m + 1])
  <2>4. p \in Seq(Wires) /\ w \in Seq(Wires)
    BY <2>3, ProjectionIsSequence, WireEventsTyped
  <2>5. Projection(SubSeq(h, 1, m + 1)) = p \o w
    BY <2>2, <2>3, ProjectionAppend
  <2> HIDE DEF p, w
  <2>6. e \in ToSet(p) \/ e \in ToSet(w)
    <3>1. e \in ToSet(p \o w)
      BY <2>1, <2>5
    <3> QED
      BY <2>4, <3>1 DEF ToSet
  <2>7. CASE e \in ToSet(p)
    BY <2>1, <2>7 DEF p
  <2>8. CASE e \in ToSet(w)
    BY <2>1, <2>8 DEF w
  <2> QED
    BY <2>6, <2>7, <2>8
<1>3. S = Nat
  <2> HIDE DEF S
  <2>1. S \in SUBSET Nat
    BY DEF S
  <2> QED
    BY <1>1, <1>2, <2>1, SetInduction
<1>4. SubSeq(h, 1, Len(h)) = h /\ Len(h) \in Nat
  OBVIOUS
<1>5. e \in ToSet(Projection(SubSeq(h, 1, Len(h)))) => \E i \in 1..Len(h) : e \in ToSet(WireEvents(h[i]))
  BY <1>3, <1>4
<1>6. e \in ToSet(Projection(SubSeq(h, 1, Len(h))))
  BY <1>4, Zenon
<1> QED
  BY <1>5, <1>6

-----------------------------------------------------------------------------
(* Legal histories.                                                        *)

Before(h, i) == {h[j] : j \in 1..(i - 1)}

\* What an event of this kind needs before it in a history that has begun.
Allowed(seen, kind) ==
  /\ kind \in Kinds \ {"opened"}
  /\ kind = "plan" => "goal" \in seen
  /\ kind \in {"fact", "revised"} => {"goal", "plan"} \subseteq seen
  /\ kind \in {"note", "report"} => "fact" \in seen
  /\ kind = "completed" => "report" \in seen
  /\ kind \in {"awaiting", "answered"} => "asked" \in seen

Legal(h) ==
  \A i \in 1..Len(h) :
    /\ h[i] = "opened" <=> i = 1
    /\ i # 1 => Allowed(Before(h, i), h[i])
    /\ h[i] \in Ends => i = Len(h)

Over(h) == h # << >> /\ Last(h) \in Ends

\* One more event of an allowed kind keeps a history that is not over legal.
LEMMA AppendKeepsLegal ==
  ASSUME NEW h \in Seq(Kinds), h # << >>, Legal(h), ~Over(h), NEW kind, Allowed(ToSet(h), kind)
  PROVE  Legal(h \o <<kind>>) /\ ToSet(h) \subseteq ToSet(h \o <<kind>>) /\ kind \in ToSet(h \o <<kind>>)
<1> DEFINE g == h \o <<kind>>
<1>1. Len(g) = Len(h) + 1 /\ (\A i \in 1..Len(h) : g[i] = h[i]) /\ g[Len(h) + 1] = kind /\ Len(h) \in Nat \ {0}
      /\ DOMAIN h = 1..Len(h) /\ DOMAIN g = 1..(Len(h) + 1) 
  <2>1. kind \in Kinds
    BY DEF Allowed
  <2> QED
    BY <2>1
<1>2. \A i \in 1..Len(h) : Before(g, i) = Before(h, i)
  BY <1>1 DEF Before
<1>3. Before(g, Len(h) + 1) = ToSet(h)
  BY <1>1 DEF Before, ToSet
<1>4. \A i \in 1..Len(h) : h[i] \notin Ends
  BY <1>1 DEF Legal, Over, Last
<1> HIDE DEF g
<1>5. Legal(g)
  <2> SUFFICES ASSUME NEW i \in 1..Len(g)
               PROVE  /\ g[i] = "opened" <=> i = 1
                      /\ i # 1 => Allowed(Before(g, i), g[i])
                      /\ g[i] \in Ends => i = Len(g)
    BY DEF Legal
  <2>1. CASE i \in 1..Len(h)
    BY <1>1, <1>2, <1>4, <2>1 DEF Legal
  <2>2. CASE i = Len(h) + 1
    BY <1>1, <1>3, <2>2 DEF Allowed
  <2> QED
    BY <1>1, <2>1, <2>2
<1>6. ToSet(h) \subseteq ToSet(g) /\ kind \in ToSet(g)
  BY <1>1 DEF ToSet
<1> QED
  BY <1>5, <1>6 DEF g

LEMMA OpeningIsLegal == Legal(<<"opened">>)
  BY DEF Legal, Ends

\* A resumption continues a history with a question.
LEMMA ResumptionIsLegal ==
  ASSUME NEW h \in Seq(Kinds), Legal(h), ~Over(h), "asked" \in ToSet(h)
  PROVE  /\ Legal(h \o <<"answered", "resumed">>)
         /\ ToSet(h) \subseteq ToSet(h \o <<"answered", "resumed">>)
         /\ ~Over(h \o <<"answered", "resumed">>)
<1> DEFINE g == h \o <<"answered">>
<1>1. h # << >>
  BY DEF ToSet
<1>2. Allowed(ToSet(h), "answered") /\ \A seen : Allowed(seen, "resumed")
  BY DEF Allowed, Kinds, Work, Ends
<1>3. g \in Seq(Kinds) /\ g # << >> /\ g[Len(g)] = "answered"
  BY <1>2 DEF Allowed
<1>4. Legal(g) /\ ToSet(h) \subseteq ToSet(g)
  BY <1>1, <1>2, AppendKeepsLegal
<1>5. ~Over(g)
  BY <1>3 DEF Over, Last, Ends
<1> HIDE DEF g
<1>6. Legal(g \o <<"resumed">>) /\ ToSet(g) \subseteq ToSet(g \o <<"resumed">>)
  BY <1>2, <1>3, <1>4, <1>5, AppendKeepsLegal
<1>7. g \o <<"resumed">> = h \o <<"answered", "resumed">>
  BY DEF g
<1>8. ~Over(g \o <<"resumed">>)
  BY <1>3 DEF Over, Last, Ends
<1> QED
  BY <1>4, <1>6, <1>7, <1>8

-----------------------------------------------------------------------------
(* The invariant: where a Run's task stands against its journal.           *)

Replied(r, replies) == reply[r] \in replies

\* The events the task asked for are still to come, or are the last of the journal.
InTurn(r) ==
  \/ Replied(r, {"none", "error", "terminal"}) /\ Len(journal[r]) = expected[r]
  \/ Replied(r, {"ok"}) /\ Len(journal[r]) = expected[r] + Len(batch[r])

\* The task was cancelled while its batch may have been committed behind it.
Overtaken(r) == process = "closing" /\ ~cancelled[r] /\ ~reloaded[r]

Refused(r) == Replied(r, {"conflict"}) => task[r] = "failing" /\ Overtaken(r)

OneMore(r, kinds) ==
  \E kind \in kinds :
    /\ batch[r] = <<kind>>
    /\ Replied(r, {"none", "error"}) => ~Over(journal[r]) /\ Allowed(ToSet(journal[r]), kind)
    /\ Replied(r, {"ok"}) => Last(journal[r]) = kind

Standing(r) ==
  /\ task[r] = "spawned" => journal[r] = << >>
  /\ task[r] = "creating" =>
       batch[r] = <<"opened">> /\ expected[r] = 0 /\ InTurn(r) /\ (Replied(r, {"ok"}) => journal[r] = <<"opened">>)
  /\ task[r] = "resuming" =>
       /\ batch[r] = <<"answered", "resumed">> /\ expected[r] > 0
       /\ InTurn(r)
       /\ Replied(r, {"ok"}) => ~Over(journal[r])
  /\ task[r] = "appending" => expected[r] > 0 /\ InTurn(r) /\ OneMore(r, Work)
  /\ task[r] = "executing" => expected[r] > 0 /\ Len(journal[r]) = expected[r] /\ ~Over(journal[r])
  /\ task[r] = "failing" =>
       /\ expected[r] \in 1..Len(journal[r]) /\ batch[r] = <<"failed">>
       /\ InTurn(r) \/ Overtaken(r)
  /\ task[r] = "committing" => expected[r] > 0 /\ InTurn(r) /\ OneMore(r, Ends \cup {"awaiting"})
  /\ task[r] = "finishing" =>
       /\ journal[r] # << >> /\ batch[r] = <<Last(journal[r])>>
       /\ Last(journal[r]) \in Ends \cup {"awaiting"}

\* Who waits for an answer, or has one, was asked.
Asked(r) ==
  \/ "awaiting_clarification" \in {status[r], artifact[r]}
  \/ task[r] \in {"respawned", "reading", "resuming"}
  => "asked" \in ToSet(journal[r])

Unborn(r) == status[r] = "none" => journal[r] = << >> /\ task[r] = "none"

Sound(r) == Legal(journal[r]) /\ Standing(r) /\ Refused(r) /\ Asked(r) /\ Unborn(r)

KernelInv ==
  /\ TypeOK /\ \A r \in Runs : Sound(r) /\ (cancelled[r] => process = "closing")
  /\ process = "down" => \A r \in Runs : task[r] = "none"

-----------------------------------------------------------------------------
(* What the parts of the actions do.                                       *)

OthersStay(r) ==
  \A s \in Runs \ {r} :
    /\ journal'[s] = journal[s] /\ artifact'[s] = artifact[s] /\ status'[s] = status[s] /\ task'[s] = task[s]
    /\ expected'[s] = expected[s] /\ batch'[s] = batch[s] /\ reply'[s] = reply[s]
    /\ cancelled'[s] = cancelled[s] /\ reloaded'[s] = reloaded[s]

\* A step of one Run has to be looked at for this Run only.
LEMMA OneRun ==
  ASSUME KernelInv, NEW r \in Runs, OthersStay(r), TypeOK', Sound(r)', process' = process, process # "down",
         cancelled'[r] \in {cancelled[r], FALSE}
  PROVE  KernelInv'
<1>1. \A s \in Runs \ {r} : Sound(s)'
  BY DEF KernelInv, OthersStay, Sound, Standing, InTurn, OneMore, Replied, Overtaken, Refused, Asked, Unborn
<1>2. \A s \in Runs \ {r} : cancelled'[s] => process' = "closing"
  BY DEF KernelInv, OthersStay
<1> QED
  BY <1>1, <1>2 DEF KernelInv

\* A Run with a task has a process.
LEMMA TaskHasProcess ==
  ASSUME KernelInv, NEW r \in Runs, task[r] # "none"
  PROVE  process # "down"
  BY DEF KernelInv

LEMMA SavesOne ==
  ASSUME TypeOK, NEW r \in Runs, NEW s \in Statuses, artifact' \in Saved([artifact EXCEPT ![r] = s])
  PROVE  /\ artifact' \in [Runs -> Statuses] /\ artifact'[r] \in {s, artifact[r]}
         /\ \A t \in Runs \ {r} : artifact'[t] = artifact[t]
  BY DEF TypeOK, Saved

Replies == {"none", "ok", "conflict", "terminal", "error"}

\* The task of r stands in the journal call it has submitted.
Submitted(r, where, kinds, at) ==
  /\ task' \in [Runs -> Tasks] /\ batch' \in [Runs -> Seq(Kinds)] /\ expected' \in [Runs -> Nat]
  /\ reply' \in [Runs -> Replies] /\ reloaded' \in [Runs -> BOOLEAN]
  /\ task'[r] = where /\ batch'[r] = kinds /\ expected'[r] = at /\ reply'[r] = "none"
  /\ \A t \in Runs \ {r} : /\ task'[t] = task[t] /\ batch'[t] = batch[t] /\ expected'[t] = expected[t]
                           /\ reply'[t] = reply[t] /\ reloaded'[t] = reloaded[t]

LEMMA SubmitsOne ==
  ASSUME TypeOK, NEW r \in Runs, NEW where \in Tasks, NEW kinds \in Seq(Kinds), NEW at \in Nat,
         Submit(r, where, kinds, at)
  PROVE  Submitted(r, where, kinds, at)
  BY DEF TypeOK, Submit, Submitted, Replies

LEMMA EndsOne ==
  ASSUME TypeOK, NEW r \in Runs, Ended(r)
  PROVE  /\ task' \in [Runs -> Tasks] /\ cancelled' \in [Runs -> BOOLEAN]
         /\ task'[r] = "done" /\ \A t \in Runs \ {r} : task'[t] = task[t]
  BY DEF TypeOK, Ended, Tasks, Idle

-----------------------------------------------------------------------------
(* Requests and the worker of the journal.                                 *)

LEMMA CreateRunStep ==
  ASSUME KernelInv, NEW r \in Runs, CreateRun(r)
  PROVE  KernelInv'
<1> USE DEF KernelInv
<1>1. artifact' \in Saved([artifact EXCEPT ![r] = "queued"]) /\ "queued" \in Statuses
  BY DEF CreateRun, Statuses
<1>2. TypeOK'
  BY <1>1, SavesOne DEF CreateRun, TypeOK, kernel, counters, Statuses, Tasks
<1>3. OthersStay(r)
  BY <1>1, SavesOne DEF CreateRun, TypeOK, OthersStay, kernel
<1>4. /\ journal'[r] = << >> /\ status'[r] = "queued" /\ task'[r] = "spawned"
      /\ artifact'[r] \in {"queued", artifact[r]} /\ reply'[r] = reply[r] /\ task[r] = "none"
      /\ process' = process /\ process # "down" /\ cancelled'[r] = cancelled[r]
  BY <1>1, SavesOne DEF CreateRun, TypeOK, Sound, Unborn, kernel
<1>5. Sound(r)'
  BY <1>4 DEF Sound, Legal, Standing, Refused, Replied, Asked, Unborn, CreateRun
<1> QED
  BY <1>2, <1>3, <1>4, <1>5, OneRun

LEMMA AnswerStep ==
  ASSUME KernelInv, NEW r \in Runs, AnswerClarification(r)
  PROVE  KernelInv'
<1> USE DEF KernelInv
<1>1. artifact' \in Saved([artifact EXCEPT ![r] = "running"]) /\ "running" \in Statuses
  BY DEF AnswerClarification, Statuses
<1>2. TypeOK'
  <2>1. artifact' \in [Runs -> Statuses] /\ TypeOK
    BY <1>1, SavesOne
  <2>2. answers' \in [Runs -> 0..MaxAnswers]
    BY LifecycleAssumption DEF AnswerClarification, TypeOK
  <2>3. status' \in [Runs -> Statuses] /\ task' \in [Runs -> Tasks]
    BY <1>1 DEF AnswerClarification, TypeOK, Tasks
  <2> QED
    BY <2>1, <2>2, <2>3 DEF AnswerClarification, TypeOK, kernel
<1>3. OthersStay(r)
  BY <1>1, SavesOne DEF AnswerClarification, TypeOK, OthersStay, kernel
<1>4. /\ journal'[r] = journal[r] /\ status'[r] = "running" /\ task'[r] = "respawned"
      /\ artifact'[r] \in {"running", artifact[r]} /\ reply'[r] = reply[r]
      /\ process' = process /\ process # "down" /\ cancelled'[r] = cancelled[r]
  BY <1>1, SavesOne DEF AnswerClarification, TypeOK, kernel
<1>5. "asked" \in ToSet(journal[r])
  BY DEF AnswerClarification, Sound, Asked
<1>6. Sound(r)'
  BY <1>4, <1>5 DEF Sound, Standing, Refused, Replied, Overtaken, Asked, Unborn, AnswerClarification
<1> QED
  BY <1>2, <1>3, <1>4, <1>6, OneRun

\* The worker refuses the batch, or fails: the journal stays.
LEMMA RefusalStep ==
  ASSUME KernelInv, NEW r \in Runs, task[r] \in Writing, reply[r] = "none", journal' = journal,
         NEW verdict \in {"conflict", "terminal", "error"}, reply' = [reply EXCEPT ![r] = verdict],
         verdict = "conflict" => Len(journal[r]) # expected[r],
         UNCHANGED <<artifact, process, store, task, cancelled, expected, batch, reloaded, answers, stops>>,
         faults' \in 0..MaxFaults
  PROVE  KernelInv'
<1> USE DEF KernelInv
<1>1. TypeOK'
  BY DEF TypeOK, store
<1>2. OthersStay(r)
  BY DEF TypeOK, OthersStay, store
<1>3. reply'[r] = verdict /\ process' # "down" /\ UNCHANGED <<status, wire>>
  BY TaskHasProcess DEF TypeOK, Writing, store
<1>4. \/ task[r] # "failing" /\ Len(journal[r]) = expected[r]
      \/ task[r] = "failing" /\ (Len(journal[r]) = expected[r] \/ Overtaken(r))
  BY DEF Sound, Standing, InTurn, Replied, Writing
<1>5. Overtaken(r)' = Overtaken(r)
  BY DEF Overtaken
<1>6. Standing(r)'
  BY <1>3, <1>4, <1>5 DEF Sound, Standing, InTurn, OneMore, Replied, Writing
<1>7. Refused(r)'
  BY <1>3, <1>4, <1>5 DEF Refused, Replied
<1>8. Sound(r)'
  BY <1>3, <1>6, <1>7 DEF Sound, Asked, Unborn
<1> QED
  BY <1>1, <1>2, <1>3, <1>8, OneRun

LEMMA WriteFailsStep ==
  ASSUME KernelInv, NEW r \in Runs, WriteFails(r)
  PROVE  KernelInv'
<1>1. faults' \in 0..MaxFaults
  BY LifecycleAssumption DEF WriteFails, KernelInv, TypeOK
<1> QED
  BY <1>1, RefusalStep DEF WriteFails, durable

\* What is committed is legal after what was there.
LEMMA CommitStep ==
  ASSUME KernelInv, NEW r \in Runs, Commit(r)
  PROVE  KernelInv'
<1> USE DEF KernelInv
<1> DEFINE h == journal[r]
           g == h \o batch[r]
<1>1. h \in Seq(Kinds) /\ batch[r] \in Seq(Kinds) /\ expected[r] \in Nat
  BY DEF TypeOK
<1>2. Closed(r) = Over(h) /\ AtExpected(r) = (Len(h) = expected[r])
  BY DEF Closed, Over, AtExpected
<1>3. /\ task[r] \in Writing /\ reply[r] = "none" /\ process # "down"
      /\ UNCHANGED <<artifact, process, status, task, cancelled, expected, batch, reloaded>>
      /\ UNCHANGED <<wire, answers, faults, stops>>
  BY TaskHasProcess DEF Commit, Writing, store, counters
<1>4. CASE Over(h)
  <2>1. reply' = [reply EXCEPT ![r] = "terminal"] /\ journal' = journal
    BY <1>2, <1>4 DEF Commit
  <2> QED
    BY <1>3, <2>1, RefusalStep DEF store, TypeOK
<1>5. CASE ~Over(h) /\ Len(h) # expected[r]
  <2>1. reply' = [reply EXCEPT ![r] = "conflict"] /\ journal' = journal
    BY <1>2, <1>5 DEF Commit
  <2> QED
    BY <1>3, <1>5, <2>1, RefusalStep DEF store, TypeOK
<1>6. CASE ~Over(h) /\ Len(h) = expected[r]
  <2>1. reply' = [reply EXCEPT ![r] = "ok"] /\ journal' = [journal EXCEPT ![r] = g]
    BY <1>2, <1>6 DEF Commit
  <2>2. g \in Seq(Kinds) /\ Len(g) = Len(h) + Len(batch[r])
    BY <1>1
  <2> HIDE DEF g
  <2>3. TypeOK'
    BY <1>3, <2>1, <2>2 DEF TypeOK
  <2>4. OthersStay(r)
    BY <1>3, <2>1 DEF TypeOK, OthersStay
  <2>5. journal'[r] = g /\ reply'[r] = "ok"
    BY <2>1 DEF TypeOK
  <2>6. Legal(h) /\ (Asked(r) /\ Unborn(r))
    BY DEF Sound
  <2>7. CASE task[r] = "creating"
    <3>1. batch[r] = <<"opened">> /\ expected[r] = 0
      BY <2>7 DEF Sound, Standing
    <3>2. g = <<"opened">>
      <4>1. h = << >>
        BY <1>1, <1>6, <3>1
      <4> QED
        BY <3>1, <4>1 DEF g
    <3>3. Sound(r)'
      BY <1>3, <2>5, <2>6, <2>7, <3>1, <3>2, OpeningIsLegal DEF Sound, Standing, InTurn, Replied, Refused, Asked, Unborn, ToSet
    <3> QED
      BY <1>3, <2>3, <2>4, <3>3, OneRun
  <2>8. CASE task[r] = "resuming"
    <3>1. batch[r] = <<"answered", "resumed">> /\ expected[r] > 0 /\ "asked" \in ToSet(h)
      BY <2>6, <2>8 DEF Sound, Standing, Asked
    <3>2. Legal(g) /\ ToSet(h) \subseteq ToSet(g) /\ ~Over(g)
      BY <1>1, <1>6, <2>6, <3>1, ResumptionIsLegal DEF g
    <3>3. Sound(r)'
      BY <1>1, <1>3, <1>6, <2>2, <2>5, <2>6, <2>8, <3>1, <3>2 DEF Sound, Standing, InTurn, Replied, Refused, Asked, Unborn
    <3> QED
      BY <1>3, <2>3, <2>4, <3>3, OneRun
  <2>9. CASE task[r] \in {"appending", "failing", "committing"}
    <3>1. PICK kind : /\ batch[r] = <<kind>> /\ Allowed(ToSet(h), kind)
                      /\ task[r] = "appending" => kind \in Work
                      /\ task[r] = "failing" => kind = "failed"
                      /\ task[r] = "committing" => kind \in Ends \cup {"awaiting"}
      <4>1. CASE task[r] = "failing"
        BY <4>1 DEF Sound, Standing, Allowed, Kinds, Ends
      <4>2. CASE task[r] \in {"appending", "committing"}
        BY <1>3, <4>2 DEF Sound, Standing, OneMore, Replied
      <4> QED
        BY <2>9, <4>1, <4>2
    <3>2. h # << >> /\ expected[r] > 0
      BY <1>6, <2>9 DEF Sound, Standing
    <3>3. Legal(g) /\ ToSet(h) \subseteq ToSet(g)
      BY <1>1, <1>6, <2>6, <3>1, <3>2, AppendKeepsLegal DEF g
    <3>4. Last(g) = kind /\ g # << >> /\ Len(g) = expected[r] + 1 /\ Len(batch[r]) = 1
      BY <1>1, <1>6, <2>2, <3>1 DEF g, Last
    <3>5. Sound(r)'
      <4>1. Standing(r)'
        BY <1>1, <1>3, <2>5, <2>9, <3>1, <3>2, <3>4 DEF Standing, InTurn, OneMore, Replied
      <4> QED
        BY <1>3, <2>5, <2>6, <3>3, <3>4, <4>1, <2>9 DEF Sound, Replied, Refused, Asked, Unborn
    <3> QED
      BY <1>3, <2>3, <2>4, <3>5, OneRun
  <2> QED
    BY <1>3, <2>7, <2>8, <2>9 DEF Writing
<1> QED
  BY <1>4, <1>5, <1>6

-----------------------------------------------------------------------------
(* The steps of the task.                                                  *)

\* A step of a task that leaves the journal.
LEMMA TaskStepOf ==
  ASSUME KernelInv, NEW r \in Runs, task[r] # "none", OthersStay(r), TypeOK', UNCHANGED <<journal, process>>,
         status'[r] # "none", cancelled'[r] \in {cancelled[r], FALSE}, Standing(r)', Refused(r)', Asked(r)'
  PROVE  KernelInv'
<1>1. Sound(r)'
  BY DEF KernelInv, Sound, Unborn
<1> QED
  BY <1>1, OneRun, TaskHasProcess

\* A step into a journal call.
LEMMA SubmitStep ==
  ASSUME KernelInv, NEW r \in Runs, task[r] # "none", NEW where \in Writing, NEW kinds \in Seq(Kinds),
         NEW at \in Nat, Submit(r, where, kinds, at),
         UNCHANGED <<journal, artifact, process, wire, answers, faults, stops>>,
         status' \in {status, [status EXCEPT ![r] = "running"]},
         cancelled' \in {cancelled, [cancelled EXCEPT ![r] = FALSE]},
         where = "resuming" => "asked" \in ToSet(journal[r]),
         Standing(r)'
  PROVE  KernelInv'
<1> USE DEF KernelInv
<1>1. Submitted(r, where, kinds, at)
  <2>1. where \in Tasks
    BY DEF Tasks
  <2> QED
    BY <2>1, SubmitsOne
<1>2. TypeOK'
  <2>1. status' \in [Runs -> Statuses] /\ cancelled' \in [Runs -> BOOLEAN]
    BY DEF TypeOK, Statuses
  <2> QED
    BY <1>1, <2>1 DEF TypeOK, Submitted, Replies
<1>3. OthersStay(r)
  BY <1>1 DEF TypeOK, OthersStay, Submitted
<1>4. /\ status'[r] \in {status[r], "running"} /\ cancelled'[r] \in {cancelled[r], FALSE}
      /\ reply'[r] = "none" /\ task'[r] = where
  <2>1. status'[r] \in {status[r], "running"}
    BY DEF TypeOK
  <2>2. cancelled'[r] \in {cancelled[r], FALSE}
    BY DEF TypeOK
  <2> QED
    BY <1>1, <2>1, <2>2 DEF Submitted
<1>5. Refused(r)' /\ Asked(r)'
  BY <1>4 DEF Refused, Replied, Sound, Asked, Writing
<1>6. status'[r] # "none"
  BY <1>4 DEF Sound, Unborn
<1> QED
  BY <1>2, <1>3, <1>4, <1>5, <1>6, TaskStepOf

LEMMA StartStep ==
  ASSUME KernelInv, NEW r \in Runs, Start(r)
  PROVE  KernelInv'
<1>1. "creating" \in Writing /\ <<"opened">> \in Seq(Kinds) /\ "creating" \in Tasks
  BY DEF Writing, Kinds, Tasks
<1>2. Submitted(r, "creating", <<"opened">>, 0)
  BY <1>1, SubmitsOne DEF KernelInv, Start
<1>3. Standing(r)'
  BY <1>2 DEF KernelInv, Start, Proceeds, Sound, Standing, InTurn, Replied, durable, Submitted
<1> QED
  BY <1>1, <1>3, SubmitStep DEF Start, Proceeds, durable, counters

LEMMA StartResumeStep ==
  ASSUME KernelInv, NEW r \in Runs, StartResume(r)
  PROVE  KernelInv'
<1> USE DEF KernelInv
<1>1. TypeOK' /\ OthersStay(r)
  BY DEF StartResume, TypeOK, OthersStay, durable, store, kernel, counters, Tasks
<1>2. task'[r] = "reading" /\ task[r] = "respawned" /\ UNCHANGED <<journal, process, artifact, status, cancelled, reply>>
  BY DEF StartResume, Proceeds, TypeOK, durable, store, kernel
<1>3. Standing(r)' /\ Refused(r)' /\ Asked(r)' /\ status'[r] # "none"
  BY <1>2 DEF Sound, Standing, Refused, Replied, Asked, Unborn
<1> QED
  BY <1>1, <1>2, <1>3, TaskStepOf

LEMMA ReadHistoryStep ==
  ASSUME KernelInv, NEW r \in Runs, ReadHistory(r)
  PROVE  KernelInv'
<1> USE DEF KernelInv
<1> DEFINE kinds == <<"answered", "resumed">>
<1>1. "resuming" \in Writing /\ kinds \in Seq(Kinds) /\ "resuming" \in Tasks
  BY DEF Writing, Kinds, Tasks
<1>2. /\ task[r] = "reading" /\ Submit(r, "resuming", kinds, Len(journal[r]))
      /\ UNCHANGED <<journal, artifact, process, status, wire, answers, faults, stops, cancelled>>
  BY DEF ReadHistory, Proceeds, ResumeAt, durable, store, counters
<1>3. Len(journal[r]) \in Nat /\ "asked" \in ToSet(journal[r]) /\ Len(journal[r]) > 0
  BY <1>2 DEF TypeOK, Sound, Asked, ToSet
<1>4. Submitted(r, "resuming", kinds, Len(journal[r]))
  BY <1>1, <1>2, <1>3, SubmitsOne
<1>5. Standing(r)'
  BY <1>2, <1>3, <1>4 DEF Standing, InTurn, Replied, Submitted
<1> QED
  BY <1>1, <1>2, <1>3, <1>5, SubmitStep

\* The coordinator ends a Run without the journal.
LEMMA FinalizeStep ==
  ASSUME KernelInv, NEW r \in Runs, task[r] # "none", Finalize(r), reply[r] # "conflict",
         UNCHANGED <<journal, process, kernel, answers, stops>>, faults' \in 0..MaxFaults
  PROVE  KernelInv'
<1> USE DEF KernelInv
<1>1. artifact' \in Saved([artifact EXCEPT ![r] = "failed"]) /\ "failed" \in Statuses
  BY DEF Finalize, Statuses, Ends
<1>2. status' = [status EXCEPT ![r] = "failed"] /\ cancelled' = [cancelled EXCEPT ![r] = FALSE]
      /\ wire' = [wire EXCEPT ![r] = @ \o <<"error", "failed">>] /\ Ended(r)
  BY DEF Finalize, Ended
<1>3. TypeOK' /\ OthersStay(r)
  <2>1. artifact' \in [Runs -> Statuses] /\ \A t \in Runs \ {r} : artifact'[t] = artifact[t]
    BY <1>1, SavesOne
  <2>2. task' \in [Runs -> Tasks] /\ \A t \in Runs \ {r} : task'[t] = task[t]
    BY <1>2, EndsOne
  <2>3. status' \in [Runs -> Statuses] /\ cancelled' \in [Runs -> BOOLEAN] /\ DOMAIN wire' = Runs
    BY <1>1, <1>2 DEF TypeOK
  <2>4. \A t \in Runs \ {r} : status'[t] = status[t] /\ cancelled'[t] = cancelled[t]
    BY <1>2 DEF TypeOK
  <2> QED
    BY <2>1, <2>2, <2>3, <2>4 DEF TypeOK, OthersStay, kernel
<1>4. /\ status'[r] = "failed" /\ task'[r] = "done" /\ artifact'[r] \in {"failed", artifact[r]}
      /\ cancelled'[r] = FALSE /\ reply'[r] = reply[r]
  BY <1>1, <1>2, SavesOne, EndsOne DEF TypeOK, kernel
<1>5. Standing(r)' /\ Refused(r)' /\ Asked(r)'
  BY <1>4 DEF Sound, Standing, Refused, Replied, Asked
<1> QED
  BY <1>3, <1>4, <1>5, TaskStepOf

LEMMA ReadFailsStep ==
  ASSUME KernelInv, NEW r \in Runs, ReadFails(r)
  PROVE  KernelInv'
<1>1. faults' \in 0..MaxFaults
  BY LifecycleAssumption DEF ReadFails, KernelInv, TypeOK
<1>2. task[r] = "reading" /\ reply[r] # "conflict"
  BY DEF ReadFails, Proceeds, KernelInv, Sound, Refused, Replied
<1> QED
  BY <1>1, <1>2, FinalizeStep DEF ReadFails

LEMMA EscapeStep ==
  ASSUME KernelInv, NEW r \in Runs, Escape(r)
  PROVE  KernelInv'
<1>1. faults' \in 0..MaxFaults
  BY DEF Escape, KernelInv, TypeOK, counters
<1>2. task[r] # "none" /\ reply[r] # "conflict"
  BY DEF Escape, Proceeds, KernelInv, Sound, Refused, Replied, Overtaken
<1> QED
  BY <1>1, <1>2, FinalizeStep DEF Escape, counters

\* What has been published is a step on the way to the journal's end.
LEMMA ProceedStep ==
  ASSUME KernelInv, NEW r \in Runs, Proceed(r)
  PROVE  KernelInv'
<1> USE DEF KernelInv
<1>1. artifact' \in Saved([artifact EXCEPT ![r] = status[r]]) /\ status[r] \in Statuses
  BY DEF Proceed, Publish, TypeOK
<1>2. /\ task[r] \in {"creating", "resuming", "appending"} /\ reply[r] = "ok"
      /\ task' = [task EXCEPT ![r] = "executing"] /\ DOMAIN wire' = Runs
      /\ expected' = [expected EXCEPT ![r] = expected[r] + Len(batch[r])]
      /\ UNCHANGED <<journal, process, status, cancelled, batch, reply, reloaded, counters>>
  BY DEF Proceed, Proceeds, Publish, TypeOK
<1>3. Len(batch[r]) \in Nat /\ expected[r] \in Nat
  BY DEF TypeOK
<1>4. TypeOK' /\ OthersStay(r)
  <2>1. expected' \in [Runs -> Nat] /\ task' \in [Runs -> Tasks]
    BY <1>2, <1>3 DEF TypeOK, Tasks
  <2> QED
    BY <1>1, <1>2, <2>1, SavesOne DEF TypeOK, OthersStay, counters
<1>5. artifact'[r] \in {status[r], artifact[r]} /\ task'[r] = "executing" /\ expected'[r] = expected[r] + Len(batch[r])
  BY <1>1, <1>2, <1>3, SavesOne DEF TypeOK
<1>6. expected'[r] = Len(journal[r]) /\ ~Over(journal[r]) /\ expected'[r] > 0
  <2>1. Len(journal[r]) = expected[r] + Len(batch[r])
    BY <1>2 DEF Sound, Standing, InTurn, Replied
  <2>2. ~Over(journal[r]) /\ Len(journal[r]) > 0
    <3>1. CASE task[r] = "creating"
      <4>1. journal[r] = <<"opened">>
        BY <1>2, <3>1 DEF Sound, Standing, Replied
      <4>2. Len(<<"opened">>) = 1 /\ <<"opened">>[1] = "opened"
        OBVIOUS
      <4> QED
        BY <4>1, <4>2 DEF Over, Last, Ends
    <3>2. CASE task[r] = "resuming"
      <4>1. ~Over(journal[r]) /\ expected[r] > 0
        BY <1>2, <3>2 DEF Sound, Standing, Replied
      <4> QED
        BY <1>3, <2>1, <4>1
    <3>3. CASE task[r] = "appending"
      BY <1>2, <1>3, <2>1, <3>3 DEF Sound, Standing, OneMore, Replied, Over, Work, Ends
    <3> QED
      BY <1>2, <3>1, <3>2, <3>3
  <2> QED
    BY <1>5, <2>1, <2>2
<1>7. Standing(r)' /\ Refused(r)' /\ Asked(r)' /\ status'[r] # "none"
  BY <1>2, <1>5, <1>6 DEF Sound, Standing, Refused, Replied, Asked, Unborn
<1> QED
  BY <1>2, <1>4, <1>7, TaskStepOf

LEMMA PlanHasGoal ==
  ASSUME NEW h \in Seq(Kinds), Legal(h), "plan" \in ToSet(h)
  PROVE  "goal" \in ToSet(h)
<1>1. DOMAIN h = 1..Len(h) /\ Len(h) \in Nat
  OBVIOUS
<1>2. PICK i \in 1..Len(h) : h[i] = "plan"
  BY <1>1 DEF ToSet
<1>3. i # 1 /\ Allowed(Before(h, i), "plan")
  BY <1>2 DEF Legal
<1>4. PICK j \in 1..(i - 1) : h[j] = "goal"
  BY <1>3 DEF Allowed, Before
<1> QED
  BY <1>1, <1>4 DEF ToSet

LEMMA ExecutingObservesAll ==
  ASSUME KernelInv, NEW r \in Runs, task[r] = "executing"
  PROVE  /\ Observed(r) = ToSet(journal[r]) /\ expected[r] = Len(journal[r]) /\ expected[r] \in Nat \ {0}
         /\ ~Over(journal[r]) /\ Legal(journal[r]) /\ journal[r] \in Seq(Kinds)
<1>1. /\ expected[r] = Len(journal[r]) /\ expected[r] > 0 /\ ~Over(journal[r]) /\ Legal(journal[r])
      /\ journal[r] \in Seq(Kinds)
  BY DEF KernelInv, TypeOK, Sound, Standing
<1>2. SubSeq(journal[r], 1, Len(journal[r])) = journal[r] /\ Len(journal[r]) \in Nat
  BY <1>1
<1>3. Observed(r) = ToSet(journal[r])
  BY <1>1, <1>2, Zenon DEF Observed
<1> QED
  BY <1>1, <1>2, <1>3

\* An event the kernel lets through is allowed after the events observed.
LEMMA RequiredIsAllowed ==
  ASSUME NEW h \in Seq(Kinds), Legal(h), NEW kind \in Work, Requires(kind) \subseteq ToSet(h),
         kind # "opened"
  PROVE  Allowed(ToSet(h), kind)
<1>1. kind \in Kinds \ {"opened"} /\ kind \notin {"completed", "awaiting", "answered"}
  BY DEF Kinds, Work
<1>2. kind \in {"fact", "revised"} => {"goal", "plan"} \subseteq ToSet(h)
  <2>1. kind \in {"fact", "revised"} => "plan" \in ToSet(h)
    BY DEF Requires
  <2> QED
    BY <2>1, PlanHasGoal
<1>3. (kind = "plan" => "goal" \in ToSet(h)) /\ (kind \in {"note", "report"} => "fact" \in ToSet(h))
  BY DEF Requires
<1> QED
  BY <1>1, <1>2, <1>3 DEF Allowed

\* A step into the append of run.failed.
LEMMA FailingStep ==
  ASSUME KernelInv, NEW r \in Runs, Submit(r, "failing", <<"failed">>, expected[r]),
         task[r] \in {"executing", "resuming", "appending"},
         Len(journal[r]) = expected[r] \/ (process = "closing" /\ ~cancelled'[r]),
         UNCHANGED <<journal, artifact, process, wire, status, answers, faults, stops>>,
         cancelled' \in {cancelled, [cancelled EXCEPT ![r] = FALSE]}
  PROVE  KernelInv'
<1>1. "failing" \in Writing /\ "failing" \in Tasks /\ <<"failed">> \in Seq(Kinds) /\ expected[r] \in Nat
  BY DEF Writing, Tasks, Kinds, Ends, KernelInv, TypeOK
<1>2. Submitted(r, "failing", <<"failed">>, expected[r]) /\ reloaded'[r] = FALSE
  BY <1>1, SubmitsOne DEF KernelInv, Submit, TypeOK
<1>3. expected[r] \in 1..Len(journal[r])
  <2>1. Len(journal[r]) \in Nat /\ Len(batch[r]) \in Nat
    BY DEF KernelInv, TypeOK
  <2> QED
    BY <1>1, <2>1 DEF KernelInv, Sound, Standing, InTurn
<1>4. Standing(r)'
  BY <1>2, <1>3 DEF Standing, InTurn, Replied, Overtaken, Submitted
<1> QED
  BY <1>1, <1>4, SubmitStep

LEMMA PackEmitsStep ==
  ASSUME KernelInv, NEW r \in Runs, PackEmits(r)
  PROVE  KernelInv'
<1>1. task[r] = "executing" /\ UNCHANGED <<journal, artifact, process, status, wire, cancelled, answers, faults, stops>>
  BY DEF PackEmits, Proceeds, durable, store, counters
<1>2. PICK kind \in Emissions :
        IF Requires(kind) \subseteq Observed(r)
          THEN Submit(r, "appending", <<kind>>, expected[r])
          ELSE Submit(r, "failing", <<"failed">>, expected[r])
  BY DEF PackEmits
<1>3. kind \in Work /\ kind \in Kinds /\ kind # "opened"
  BY LifecycleAssumption DEF Work, Kinds
<1>4. CASE Requires(kind) \subseteq Observed(r)
  <2>1. Submit(r, "appending", <<kind>>, expected[r])
    BY <1>2, <1>4
  <2>2. "appending" \in Writing /\ "appending" \in Tasks /\ <<kind>> \in Seq(Kinds) /\ expected[r] \in Nat
    BY <1>3 DEF Writing, Tasks, KernelInv, TypeOK
  <2>3. Submitted(r, "appending", <<kind>>, expected[r])
    BY <2>1, <2>2, SubmitsOne DEF KernelInv
  <2>4. Allowed(ToSet(journal[r]), kind)
    BY <1>1, <1>3, <1>4, ExecutingObservesAll, RequiredIsAllowed
  <2>5. Standing(r)'
    BY <1>1, <1>3, <2>3, <2>4, ExecutingObservesAll DEF Standing, InTurn, OneMore, Replied, Submitted
  <2> QED
    BY <1>1, <2>1, <2>2, <2>5, SubmitStep
<1>5. CASE ~(Requires(kind) \subseteq Observed(r))
  BY <1>1, <1>2, <1>5, ExecutingObservesAll, FailingStep
<1> QED
  BY <1>4, <1>5

LEMMA PackBreaksStep ==
  ASSUME KernelInv, NEW r \in Runs, PackBreaks(r)
  PROVE  KernelInv'
<1>1. /\ task[r] = "executing" /\ Submit(r, "failing", <<"failed">>, expected[r])
      /\ UNCHANGED <<journal, artifact, process, status, wire, cancelled, answers, faults, stops>>
  BY DEF PackBreaks, Proceeds, durable, store, counters
<1> QED
  BY <1>1, ExecutingObservesAll, FailingStep

LEMMA FailStep ==
  ASSUME KernelInv, NEW r \in Runs, Fail(r)
  PROVE  KernelInv'
<1>1. /\ task[r] \in {"resuming", "appending"} /\ Submit(r, "failing", <<"failed">>, expected[r])
      /\ UNCHANGED <<journal, artifact, process, status, wire, cancelled, answers, faults, stops>>
      /\ reply[r] \notin {"none", "ok"}
  BY DEF Fail, Proceeds, durable, store, counters
<1>2. Len(journal[r]) = expected[r]
  BY <1>1 DEF KernelInv, Sound, Standing, InTurn, Replied
<1> QED
  BY <1>1, <1>2, FailingStep

LEMMA PackEndsStep ==
  ASSUME KernelInv, NEW r \in Runs, PackEnds(r)
  PROVE  KernelInv'
<1>1. task[r] = "executing" /\ UNCHANGED <<journal, artifact, process, status, wire, cancelled, answers, faults, stops>>
  BY DEF PackEnds, Proceeds, durable, store, counters
<1>2. PICK end \in Ends \cup {"awaiting"} :
        Submit(r, "committing", IF Keeps(r, end) THEN <<end>> ELSE <<"failed">>, expected[r])
  BY DEF PackEnds
<1> DEFINE kind == IF Keeps(r, end) THEN end ELSE "failed"
<1>3. kind \in Ends \cup {"awaiting"} /\ Submit(r, "committing", <<kind>>, expected[r])
  BY <1>2 DEF Ends
<1>4. "committing" \in Writing /\ "committing" \in Tasks /\ <<kind>> \in Seq(Kinds) /\ expected[r] \in Nat
  <2>1. kind \in Kinds
    BY <1>3 DEF Kinds
  <2> QED
    BY <2>1 DEF Writing, Tasks, KernelInv, TypeOK
<1>5. Submitted(r, "committing", <<kind>>, expected[r])
  BY <1>3, <1>4, SubmitsOne DEF KernelInv
<1>6. Allowed(ToSet(journal[r]), kind)
  <2>1. kind = "completed" => "report" \in ToSet(journal[r])
    BY <1>1, ExecutingObservesAll DEF Keeps
  <2>2. kind = "awaiting" => "asked" \in ToSet(journal[r])
    BY <1>1, ExecutingObservesAll DEF Keeps, InteractionRequested, ToSet
  <2>3. kind \in {"completed", "degraded", "failed", "awaiting"}
    BY <1>3 DEF Ends
  <2> HIDE DEF kind
  <2> QED
    BY <2>1, <2>2, <2>3 DEF Allowed, Kinds, Ends
<1> HIDE DEF kind
<1>7. Standing(r)'
  BY <1>1, <1>3, <1>5, <1>6, ExecutingObservesAll DEF Standing, InTurn, OneMore, Replied, Submitted
<1> QED
  BY <1>1, <1>3, <1>4, <1>7, SubmitStep

LEMMA ReloadStep ==
  ASSUME KernelInv, NEW r \in Runs, Reload(r)
  PROVE  KernelInv'
<1> USE DEF KernelInv
<1>1. /\ reply[r] = "conflict" /\ task[r] = "failing" /\ Len(journal[r]) \in Nat
      /\ expected' = [expected EXCEPT ![r] = Len(journal[r])] /\ reply' = [reply EXCEPT ![r] = "none"]
      /\ reloaded' = [reloaded EXCEPT ![r] = TRUE]
      /\ UNCHANGED <<journal, artifact, process, status, wire, task, cancelled, batch, answers, faults, stops>>
  BY DEF Reload, Sound, Refused, Replied, durable, store, counters, TypeOK
<1>2. TypeOK' /\ OthersStay(r) /\ expected'[r] = Len(journal[r]) /\ reply'[r] = "none"
  BY <1>1 DEF TypeOK, OthersStay
<1>3. Standing(r)' /\ Refused(r)' /\ Asked(r)' /\ status'[r] # "none"
  BY <1>1, <1>2 DEF Sound, Standing, InTurn, Refused, Replied, Asked, Unborn
<1> QED
  BY <1>1, <1>2, <1>3, TaskStepOf

\* The status and the Artifact of a Run whose task ends.
LEMMA EndStep ==
  ASSUME KernelInv, NEW r \in Runs, task[r] # "none", reply[r] # "conflict", Ended(r), DOMAIN wire' = Runs,
         NEW s \in Statuses \ {"none"}, status' = [status EXCEPT ![r] = s],
         artifact' \in Saved([artifact EXCEPT ![r] = s]),
         s = "awaiting_clarification" => "asked" \in ToSet(journal[r]),
         UNCHANGED <<journal, process, kernel, counters>>
  PROVE  KernelInv'
<1> USE DEF KernelInv
<1>1. artifact' \in [Runs -> Statuses] /\ artifact'[r] \in {s, artifact[r]} /\ \A t \in Runs \ {r} : artifact'[t] = artifact[t]
  BY SavesOne
<1>2. task' \in [Runs -> Tasks] /\ task'[r] = "done" /\ \A t \in Runs \ {r} : task'[t] = task[t]
  BY EndsOne
<1>3. /\ status' \in [Runs -> Statuses] /\ cancelled' \in [Runs -> BOOLEAN]
      /\ status'[r] = s /\ cancelled'[r] = FALSE /\ reply'[r] = reply[r]
      /\ \A t \in Runs \ {r} : status'[t] = status[t] /\ cancelled'[t] = cancelled[t]
  BY DEF Ended, TypeOK, kernel
<1>4. TypeOK' /\ OthersStay(r)
  BY <1>1, <1>2, <1>3 DEF TypeOK, OthersStay, kernel, counters
<1>5. Standing(r)' /\ Refused(r)' /\ Asked(r)'
  BY <1>1, <1>2, <1>3 DEF Sound, Standing, Refused, Replied, Asked
<1> QED
  BY <1>3, <1>4, <1>5, TaskStepOf

LEMMA FailedStep ==
  ASSUME KernelInv, NEW r \in Runs, Failed(r)
  PROVE  KernelInv'
<1>1. "failed" \in Statuses \ {"none"} /\ task[r] # "none" /\ reply[r] # "conflict" /\ DOMAIN wire' = Runs
  BY DEF Failed, Proceeds, Statuses, Ends, KernelInv, TypeOK
<1> QED
  BY <1>1, EndStep DEF Failed

LEMMA FinishStep ==
  ASSUME KernelInv, NEW r \in Runs, Finish(r)
  PROVE  KernelInv'
<1> DEFINE kind == batch[r][1]
<1>1. task[r] = "finishing" /\ reply[r] # "conflict" /\ DOMAIN wire' = Runs
  BY DEF Finish, KernelInv, Sound, Refused, Replied, TypeOK
<1>2. kind = Last(journal[r]) /\ kind \in Ends \cup {"awaiting"} /\ journal[r] # << >>
  BY <1>1 DEF KernelInv, Sound, Standing
<1> HIDE DEF kind
<1>3. StatusAfter(kind) \in Statuses \ {"none"} /\ (StatusAfter(kind) = "awaiting_clarification" => kind = "awaiting")
  BY <1>2 DEF StatusAfter, Statuses, Ends
<1>4. kind = "awaiting" => "asked" \in ToSet(journal[r])
  <2> DEFINE h == journal[r]
  <2>1. h \in Seq(Kinds) /\ Legal(h) /\ h # << >> /\ DOMAIN h = 1..Len(h) /\ Len(h) \in 1..Len(h)
    BY <1>2 DEF KernelInv, Sound, TypeOK
  <2> SUFFICES ASSUME kind = "awaiting" PROVE "asked" \in ToSet(h)
    OBVIOUS
  <2>2. h[Len(h)] = "awaiting"
    BY <1>2 DEF Last
  <2> HIDE DEF h
  <2>3. "asked" \in Before(h, Len(h))
    BY <2>1, <2>2 DEF Legal, Allowed
  <2> QED
    BY <2>1, <2>3 DEF Before, ToSet
<1> QED
  BY <1>1, <1>3, <1>4, EndStep DEF Finish, kind

LEMMA OutcomeStep ==
  ASSUME KernelInv, NEW r \in Runs, Outcome(r)
  PROVE  KernelInv'
<1> USE DEF KernelInv
<1>1. artifact' \in Saved([artifact EXCEPT ![r] = status[r]]) /\ status[r] \in Statuses
  BY DEF Outcome, Publish, TypeOK
<1>2. /\ task[r] = "committing" /\ reply[r] = "ok" /\ DOMAIN wire' = Runs
      /\ task' = [task EXCEPT ![r] = "finishing"]
      /\ UNCHANGED <<journal, process, status, cancelled, expected, batch, reply, reloaded, answers, faults, stops>>
  BY DEF Outcome, Publish, TypeOK, kernel, counters
<1>3. artifact' \in [Runs -> Statuses] /\ artifact'[r] \in {status[r], artifact[r]} /\ \A t \in Runs \ {r} : artifact'[t] = artifact[t]
  BY <1>1, SavesOne
<1>4. TypeOK' /\ OthersStay(r) /\ task'[r] = "finishing"
  BY <1>2, <1>3 DEF TypeOK, OthersStay, Tasks
<1>5. journal[r] # << >> /\ batch[r] = <<Last(journal[r])>> /\ Last(journal[r]) \in Ends \cup {"awaiting"}
  <2>1. expected[r] \in Nat /\ expected[r] > 0 /\ Len(journal[r]) = expected[r] + Len(batch[r]) /\ Len(batch[r]) \in Nat
    <3>1. expected[r] \in Nat /\ Len(batch[r]) \in Nat
      BY DEF TypeOK
    <3>2. expected[r] > 0 /\ InTurn(r)
      BY <1>2 DEF Sound, Standing
    <3> QED
      BY <1>2, <3>1, <3>2 DEF InTurn, Replied
  <2>2. \E kind \in Ends \cup {"awaiting"} : batch[r] = <<kind>> /\ Last(journal[r]) = kind
    BY <1>2 DEF Sound, Standing, OneMore, Replied
  <2> QED
    BY <2>1, <2>2
<1>6. Standing(r)' /\ Refused(r)' /\ Asked(r)' /\ status'[r] # "none"
  BY <1>2, <1>3, <1>4, <1>5 DEF Sound, Standing, Refused, Replied, Asked, Unborn
<1> QED
  BY <1>2, <1>4, <1>6, TaskStepOf

LEMMA CancelArrivesStep ==
  ASSUME KernelInv, NEW r \in Runs, CancelArrives(r)
  PROVE  KernelInv'
<1>1. cancelled[r] = TRUE /\ process = "closing" /\ reply[r] # "conflict" /\ UNCHANGED <<journal, process, counters>>
  BY DEF CancelArrives, KernelInv, Sound, Refused, Replied, Overtaken, TypeOK
<1>2. CASE task[r] \in {"spawned", "respawned"} /\ Ended(r) /\ UNCHANGED <<artifact, store, kernel>>
  <2> USE DEF KernelInv
  <2>1. task' \in [Runs -> Tasks] /\ task'[r] = "done" /\ \A t \in Runs \ {r} : task'[t] = task[t]
    BY <1>2, EndsOne
  <2>2. cancelled' = [cancelled EXCEPT ![r] = FALSE]
    BY <1>2 DEF Ended
  <2>3. TypeOK' /\ OthersStay(r) /\ cancelled'[r] = FALSE
    BY <1>1, <1>2, <2>1, <2>2 DEF TypeOK, OthersStay, store, kernel, counters
  <2>4. Standing(r)' /\ Refused(r)' /\ Asked(r)' /\ status'[r] # "none"
    BY <1>1, <1>2, <2>1, <2>3 DEF Sound, Standing, Refused, Replied, Asked, Unborn, store, kernel
  <2> QED
    BY <1>1, <1>2, <2>3, <2>4, TaskStepOf
<1>3. CASE task[r] \in {"creating", "reading", "failing"} /\ Finalize(r) /\ UNCHANGED kernel
  <2>1. faults' \in 0..MaxFaults
    BY <1>1 DEF KernelInv, TypeOK, counters
  <2> QED
    BY <1>1, <1>3, <2>1, FinalizeStep DEF counters
<1>4. CASE /\ task[r] \in {"resuming", "appending", "executing"}
           /\ Submit(r, "failing", <<"failed">>, expected[r])
           /\ cancelled' = [cancelled EXCEPT ![r] = FALSE]
           /\ UNCHANGED <<artifact, store>>
  <2>1. ~cancelled'[r]
    BY <1>4 DEF KernelInv, TypeOK
  <2> QED
    BY <1>1, <1>4, <2>1, FailingStep DEF store, counters
<1> QED
  BY <1>2, <1>3, <1>4 DEF CancelArrives

-----------------------------------------------------------------------------
(* Shutdown, crash, restart.                                               *)

LEMMA CloseStep ==
  ASSUME KernelInv, Close
  PROVE  KernelInv'
<1> USE DEF KernelInv
<1>1. TypeOK'
  BY LifecycleAssumption DEF Close, TypeOK, durable, store, kernel
<1>2. process = "up" /\ process' = "closing" /\ UNCHANGED <<journal, artifact, status, task, expected, batch, reply, reloaded>>
  BY DEF Close, durable, store, kernel
<1>3. \A r \in Runs : Sound(r)'
  BY <1>2 DEF Sound, Standing, InTurn, OneMore, Replied, Overtaken, Refused, Asked, Unborn
<1> QED
  BY <1>1, <1>2, <1>3

\* What remains true without the memory of the process.
LEMMA MemoryLostStep ==
  ASSUME KernelInv, MemoryLost, UNCHANGED <<journal, answers, faults>>, stops' \in 0..MaxStops,
         artifact' \in [Runs -> Statuses], status' \in [Runs -> Statuses], DOMAIN wire' = Runs,
         \A r \in Runs : status'[r] = "none" => status[r] = "none",
         \A r \in Runs : "awaiting_clarification" \in {status'[r], artifact'[r]} =>
                          "awaiting_clarification" \in {status[r], artifact[r]}
  PROVE  KernelInv'
<1> USE DEF KernelInv
<1>1. TypeOK'
  <2>1. << >> \in Seq(Kinds)
    OBVIOUS
  <2> QED
    BY <2>1 DEF MemoryLost, TypeOK, Tasks, Idle
<1>2. \A r \in Runs : task'[r] = "none" /\ reply'[r] = "none" /\ journal'[r] = journal[r] /\ ~cancelled'[r]
  BY DEF MemoryLost
<1>3. ASSUME NEW r \in Runs PROVE Sound(r)'
  <2>1. Standing(r)' /\ Refused(r)'
    BY <1>2 DEF Standing, Refused, Replied
  <2>2. Asked(r)'
    <3>1. "awaiting_clarification" \in {status'[r], artifact'[r]} =>
            "awaiting_clarification" \in {status[r], artifact[r]}
      OBVIOUS
    <3>2. Asked(r) /\ task'[r] = "none" /\ journal'[r] = journal[r]
      BY <1>2 DEF Sound
    <3> QED
      BY <3>1, <3>2 DEF Asked
  <2>3. Unborn(r)'
    BY <1>2 DEF Sound, Unborn
  <2> QED
    BY <1>2, <2>1, <2>2, <2>3 DEF Sound
<1> QED
  BY <1>1, <1>2, <1>3

LEMMA CrashStep ==
  ASSUME KernelInv, Crash
  PROVE  KernelInv'
<1>1. stops' \in 0..MaxStops
  BY LifecycleAssumption DEF Crash, KernelInv, TypeOK
<1> QED
  BY <1>1, MemoryLostStep DEF Crash, durable, store, KernelInv, TypeOK

LEMMA ExitStep ==
  ASSUME KernelInv, Exit
  PROVE  KernelInv'
<1>1. stops' \in 0..MaxStops /\ UNCHANGED <<journal, answers, faults>> /\ MemoryLost
  BY DEF Exit, counters, KernelInv, TypeOK
<1>2. status' = [r \in Runs |-> IF Abandoned(r) THEN "failed" ELSE status[r]] /\ DOMAIN wire' = Runs
  BY DEF Exit
<1>3. artifact' \in {artifact, [r \in Runs |-> IF Abandoned(r) THEN "failed" ELSE artifact[r]]}
  BY DEF Exit, Saved
<1>4. "failed" \in Statuses /\ status \in [Runs -> Statuses] /\ artifact \in [Runs -> Statuses]
  BY DEF Statuses, Ends, KernelInv, TypeOK
<1>5. status' \in [Runs -> Statuses] /\ artifact' \in [Runs -> Statuses]
  BY <1>2, <1>3, <1>4
<1>6. \A r \in Runs : status'[r] \in {status[r], "failed"} /\ artifact'[r] \in {artifact[r], "failed"}
  BY <1>2, <1>3
<1> QED
  BY <1>1, <1>2, <1>5, <1>6, MemoryLostStep

\* A history that ends with a question on the wire has one in the journal.
LEMMA RefoldedWasAsked ==
  ASSUME NEW h \in Seq(Kinds)
  PROVE  /\ Refold(Projection(h)) \in Ends \cup {"awaiting_clarification"}
         /\ Refold(Projection(h)) = "awaiting_clarification" => "asked" \in ToSet(h)
<1> DEFINE p == Projection(h)
<1>1. p \in Seq(Wires)
  BY ProjectionIsSequence
<1>2. CASE ToSet(p) \cap Done # {}
  <2>1. Refold(p) \in ToSet(p) \cap Done
    BY <1>2 DEF Refold
  <2> QED
    BY <2>1 DEF Done, Ends
<1>3. CASE ToSet(p) \cap Done = {}
  <2>1. Refold(p) \in {"awaiting_clarification", "failed"}
    BY <1>3 DEF Refold
  <2>2. ASSUME Refold(p) = "awaiting_clarification" PROVE "asked" \in ToSet(h)
    <3>1. p # << >> /\ Last(p) = "clarification_required"
      BY <1>3, <2>2 DEF Refold
    <3>2. "clarification_required" \in ToSet(p)
      <4> HIDE DEF p
      <4> QED
        BY <1>1, <3>1 DEF Last, ToSet
    <3>3. PICK i \in 1..Len(h) : "clarification_required" \in ToSet(WireEvents(h[i]))
      BY <3>2, ProjectedFrom
    <3>4. h[i] = "asked"
      <4>1. h[i] \in Kinds /\ "clarification_required" \notin Kinds
        BY DEF Kinds, Work, Ends
      <4>2. WireEvents(h[i]) \in {<<"run_started">>, <<"error", "failed">>, << >>, <<h[i]>>} \/ h[i] = "asked"
        BY DEF WireEvents
      <4>3. ASSUME h[i] # "asked" PROVE FALSE
        <5> DEFINE w == WireEvents(h[i])
        <5>1. PICK j \in DOMAIN w : w[j] = "clarification_required"
          BY <3>3 DEF ToSet
        <5> HIDE DEF w
        <5>2. w \in {<<"run_started">>, <<"error", "failed">>, << >>, <<h[i]>>}
          BY <4>2, <4>3 DEF w
        <5> QED
          BY <4>1, <5>1, <5>2
      <4> QED
        BY <4>3
    <3> QED
      BY <3>4 DEF ToSet
  <2> QED
    BY <2>1, <2>2 DEF Ends
<1> QED
  BY <1>2, <1>3

LEMMA RestartStep ==
  ASSUME KernelInv, Restart
  PROVE  KernelInv'
<1> USE DEF KernelInv
<1>1. /\ process = "down" /\ process' = "up" /\ UNCHANGED <<journal, artifact, task, cancelled, expected, batch, reply, reloaded>>
      /\ UNCHANGED <<answers, faults, stops>>
      /\ status' = [r \in Runs |-> Restored(r)] /\ DOMAIN wire' = Runs
  BY DEF Restart, durable, kernel, counters
<1>2. ASSUME NEW r \in Runs
      PROVE  /\ Restored(r) \in Statuses /\ (Restored(r) = "none" => journal[r] = << >>)
             /\ Restored(r) = "awaiting_clarification" => "asked" \in ToSet(journal[r])
  <2>1. CASE journal[r] # << >> /\ artifact[r] \in {"none", "queued", "running"}
    <3>1. Restored(r) = Refold(Projection(journal[r])) /\ journal[r] \in Seq(Kinds)
      BY <2>1 DEF Restored, TypeOK
    <3> QED
      BY <3>1, RefoldedWasAsked DEF Statuses, Ends
  <2>2. CASE ~(journal[r] # << >> /\ artifact[r] \in {"none", "queued", "running"})
    <3>1. Restored(r) = artifact[r]
      BY <2>2 DEF Restored
    <3> QED
      BY <2>2, <3>1 DEF TypeOK, Sound, Asked
  <2> QED
    BY <2>1, <2>2
<1>3. TypeOK'
  <2>1. status' \in [Runs -> Statuses]
    BY <1>1, <1>2
  <2> QED
    BY <1>1, <2>1 DEF TypeOK
<1>4. ASSUME NEW r \in Runs PROVE Sound(r)' /\ ~cancelled'[r]
  <2>1. task[r] = "none" /\ status'[r] = Restored(r) /\ ~cancelled[r]
    BY <1>1
  <2>2. reply[r] # "conflict"
    BY <2>1 DEF Sound, Refused, Replied
  <2> QED
    BY <1>1, <1>2, <2>1, <2>2 DEF Sound, Standing, Refused, Replied, Asked, Unborn
<1> QED
  BY <1>1, <1>3, <1>4

-----------------------------------------------------------------------------
(* The theorem.                                                            *)

LEMMA KernelInvInit == Init => KernelInv
<1> SUFFICES ASSUME Init PROVE KernelInv
  OBVIOUS
<1>1. TypeOK
  <2>1. << >> \in Seq(Kinds)
    OBVIOUS
  <2> QED
    BY <2>1, LifecycleAssumption DEF Init, TypeOK, Statuses, Tasks, Idle
<1>2. \A r \in Runs : Sound(r) /\ ~cancelled[r]
  BY DEF Init, Sound, Legal, Standing, Refused, Replied, Asked, Unborn
<1> QED
  BY <1>1, <1>2 DEF KernelInv, Init

LEMMA KernelInvStays ==
  ASSUME KernelInv, UNCHANGED vars
  PROVE  KernelInv'
BY DEF KernelInv, TypeOK, Sound, Standing, InTurn, OneMore, Replied, Overtaken, Refused, Asked, Unborn,
       vars, durable, store, kernel, counters

LEMMA KernelInvNext ==
  ASSUME KernelInv, Next
  PROVE  KernelInv'
<1>1. ASSUME NEW r \in Runs, Request(r) \/ Pack(r) \/ Worker(r)
      PROVE  KernelInv'
  BY <1>1, CreateRunStep, AnswerStep, PackEmitsStep, PackEndsStep, PackBreaksStep, CommitStep, WriteFailsStep
     DEF Request, Pack, Worker
<1>2. ASSUME NEW r \in Runs, TaskStep(r)
      PROVE  KernelInv'
  BY <1>2, StartStep, StartResumeStep, ReadHistoryStep, ReadFailsStep, ProceedStep, FailStep, ReloadStep,
     FailedStep, OutcomeStep, FinishStep, EscapeStep, CancelArrivesStep DEF TaskStep
<1> QED
  BY <1>1, <1>2, CloseStep, ExitStep, CrashStep, RestartStep DEF Next

LEMMA KernelInvIsLegalHistory == KernelInv => LegalHistory
<1> SUFFICES ASSUME KernelInv PROVE LegalHistory
  OBVIOUS
<1>1. OwnTurn
  BY DEF KernelInv, Sound, Refused, Replied, OwnTurn
<1>2. HistoryLegal
  <2> SUFFICES ASSUME NEW r \in Runs, NEW i \in 1..Len(journal[r])
               PROVE  LET before == ToSet(SubSeq(journal[r], 1, i - 1))
                      IN  /\ journal[r][i] = "opened" <=> i = 1
                          /\ journal[r][i] \in {"fact", "revised"} => {"goal", "plan"} \subseteq before
                          /\ journal[r][i] \in {"note", "report"} => "fact" \in before
                          /\ journal[r][i] = "completed" => "report" \in before
                          /\ journal[r][i] \in {"awaiting", "answered"} => "asked" \in before
                          /\ journal[r][i] \in Ends => i = Len(journal[r])
    BY DEF HistoryLegal
  <2> DEFINE h == journal[r]
  <2>1. h \in Seq(Kinds) /\ Legal(h)
    BY DEF KernelInv, Sound, TypeOK
  <2>2. ToSet(SubSeq(h, 1, i - 1)) = Before(h, i)
    <3>1. Len(SubSeq(h, 1, i - 1)) = i - 1 /\ DOMAIN SubSeq(h, 1, i - 1) = 1..(i - 1)
      BY <2>1
    <3>2. \A j \in 1..(i - 1) : SubSeq(h, 1, i - 1)[j] = h[j]
      BY <2>1
    <3> QED
      BY <3>1, <3>2 DEF ToSet, Before
  <2>3. i = 1 => h[i] = "opened"
    BY <2>1 DEF Legal
  <2> HIDE DEF h
  <2>4. /\ h[i] = "opened" <=> i = 1
        /\ i # 1 => Allowed(Before(h, i), h[i])
        /\ h[i] \in Ends => i = Len(h)
    BY <2>1 DEF Legal, h
  <2> QED
    BY <2>2, <2>3, <2>4 DEF Allowed, Ends, h
<1> QED
  BY <1>1, <1>2 DEF LegalHistory, KernelInv

\* The history of every Run keeps the Pack contract and every append comes in
\* its turn (PackKernel._drafts_for, _append, _commit_outcome, _terminal_failure),
\* whatever the Pack emits and however journal, disk and process fail.
THEOREM HistoryIsLegal == Spec => []LegalHistory
<1>1. KernelInv /\ [Next]_vars => KernelInv'
  BY KernelInvStays, KernelInvNext
<1> QED
  BY <1>1, KernelInvInit, KernelInvIsLegalHistory, PTL DEF Spec

-----------------------------------------------------------------------------
(* More about the projection.                                              *)

LEMMA ProjectionConcat ==
  ASSUME NEW g \in Seq(Kinds), NEW b \in Seq(Kinds)
  PROVE  Projection(g \o b) = Projection(g) \o Projection(b)
<1> DEFINE P(m) == Projection(g \o SubSeq(b, 1, m)) = Projection(g) \o Projection(SubSeq(b, 1, m))
           S == {m \in Nat : m \in 0..Len(b) => P(m)}
<1>1. 0 \in S
  <2>1. SubSeq(b, 1, 0) = << >> /\ g \o << >> = g
    OBVIOUS
  <2>2. Projection(g) \o << >> = Projection(g)
    BY ProjectionIsSequence
  <2>3. P(0)
    BY <2>1, <2>2, ProjectionOfNothing, Zenon
  <2> HIDE DEF P
  <2> QED
    BY <2>3
<1>2. ASSUME NEW m \in S PROVE m + 1 \in S
  <2>1. CASE m + 1 \in 0..Len(b)
    <3>1. P(m) /\ m \in 0..Len(b)
      BY <2>1
    <3> DEFINE c == SubSeq(b, 1, m)
               k == b[m + 1]
    <3>2. c \in Seq(Kinds) /\ k \in Kinds /\ SubSeq(b, 1, m + 1) = Append(c, k)
      BY <2>1, <3>1
    <3> HIDE DEF c, k
    <3>3. g \o Append(c, k) = Append(g \o c, k) /\ g \o c \in Seq(Kinds)
      BY <3>2
    <3>4. Projection(Append(g \o c, k)) = Projection(g \o c) \o WireEvents(k)
      BY <3>2, <3>3, ProjectionAppend
    <3>5. Projection(Append(c, k)) = Projection(c) \o WireEvents(k)
      BY <3>2, ProjectionAppend
    <3>6. Projection(g) \in Seq(Wires) /\ Projection(c) \in Seq(Wires) /\ WireEvents(k) \in Seq(Wires)
      BY <3>2, ProjectionIsSequence, WireEventsTyped
    <3>7. (Projection(g) \o Projection(c)) \o WireEvents(k) = Projection(g) \o (Projection(c) \o WireEvents(k))
      BY <3>6, SMTT(30)
    <3>8. Projection(g \o c) = Projection(g) \o Projection(c)
      BY <3>1 DEF c
    <3>9. P(m + 1)
      BY <3>2, <3>3, <3>4, <3>5, <3>7, <3>8, Zenon
    <3> HIDE DEF P
    <3> QED
      BY <3>1, <3>9
  <2>2. CASE m + 1 \notin 0..Len(b)
    <3> HIDE DEF P
    <3> QED
      BY <2>2
  <2> QED
    BY <2>1, <2>2
<1>3. S = Nat
  <2> HIDE DEF S
  <2>1. S \in SUBSET Nat
    BY DEF S
  <2> QED
    BY <1>1, <1>2, <2>1, SetInduction
<1>4. P(Len(b))
  <2> HIDE DEF P
  <2> QED
    BY <1>3
<1>5. SubSeq(b, 1, Len(b)) = b
  OBVIOUS
<1> QED
  BY <1>4, <1>5, Zenon

LEMMA WholePrefix ==
  ASSUME NEW h \in Seq(Kinds)
  PROVE  SubSeq(h, 1, Len(h)) = h /\ Len(h) \in 0..Len(h)
  OBVIOUS

\* A batch that continues what was sent is sent with it.
LEMMA PrefixLonger ==
  ASSUME NEW h \in Seq(Kinds), NEW b \in Seq(Kinds), NEW n \in Nat, n + Len(b) <= Len(h),
         \A i \in 1..Len(b) : h[n + i] = b[i]
  PROVE  Projection(SubSeq(h, 1, n + Len(b))) = Projection(SubSeq(h, 1, n)) \o Projection(b)
<1> DEFINE g == SubSeq(h, 1, n)
           m == n + Len(b)
<1>1. /\ g \in Seq(Kinds) /\ Len(g) = n /\ m \in 0..Len(h) /\ Len(b) \in Nat
      /\ \A i \in 1..n : g[i] = h[i]
  OBVIOUS
<1>2. SubSeq(h, 1, m) = g \o b
  <2>1. SubSeq(h, 1, m) \in Seq(Kinds) /\ Len(SubSeq(h, 1, m)) = m /\ \A i \in 1..m : SubSeq(h, 1, m)[i] = h[i]
    BY <1>1
  <2> HIDE DEF g
  <2>2. g \o b \in Seq(Kinds) /\ Len(g \o b) = m /\ \A i \in 1..m : (g \o b)[i] = h[i]
    <3>1. g \o b \in Seq(Kinds) /\ Len(g \o b) = m
      <4>1. g \in Seq(Kinds) /\ Len(g) = n
        BY <1>1
      <4>2. g \o b \in Seq(Kinds) /\ Len(g \o b) = Len(g) + Len(b)
        BY <4>1
      <4> QED
        BY <4>1, <4>2
    <3>2. ASSUME NEW i \in 1..m PROVE (g \o b)[i] = h[i]
      <4>1. CASE i \in 1..n
        BY <1>1, <4>1
      <4>2. CASE i \notin 1..n
        <5>1. i - n \in 1..Len(b) /\ n + (i - n) = i
          BY <1>1, <4>2
        <5>2. (g \o b)[i] = b[i - n]
          BY <1>1, <4>2, <5>1
        <5> QED
          BY <5>1, <5>2
      <4> QED
        BY <4>1, <4>2
    <3> QED
      BY <3>1, <3>2
  <2> DEFINE u == SubSeq(h, 1, m)
             v == g \o b
  <2>3. u \in Seq(Kinds) /\ v \in Seq(Kinds) /\ Len(u) = m /\ Len(v) = m
    BY <2>1, <2>2
  <2>4. \A i \in 1..m : u[i] = v[i]
    BY <2>1, <2>2
  <2> HIDE DEF u, v, m
  <2>5. u = v
    BY <2>3, <2>4
  <2> QED
    BY <2>5 DEF u, v
<1> HIDE DEF g, m
<1>3. Projection(SubSeq(h, 1, m)) = Projection(g) \o Projection(b)
  BY <1>1, <1>2, ProjectionConcat
<1> QED
  BY <1>3 DEF g, m

\* A done event on the wire is the end of the history it projects.
LEMMA DoneIsEnd ==
  ASSUME NEW h \in Seq(Kinds), NEW e \in ToSet(Projection(h)) \cap Ends
  PROVE  \E i \in 1..Len(h) : h[i] = e
<1>1. PICK i \in 1..Len(h) : e \in ToSet(WireEvents(h[i]))
  BY ProjectedFrom
<1> DEFINE w == WireEvents(h[i])
<1>2. \/ h[i] = "failed" /\ w = <<"error", "failed">>
      \/ w \in {<<"run_started">>, <<"clarification_required">>, << >>, <<h[i]>>}
  BY DEF WireEvents
<1>3. PICK j \in DOMAIN w : w[j] = e
  BY <1>1 DEF ToSet
<1> HIDE DEF w
<1>4. e # "error" /\ e # "run_started" /\ e # "clarification_required"
  BY DEF Ends
<1>5. h[i] = e
  BY <1>2, <1>3, <1>4
<1> QED
  BY <1>5

\* A done, alone or after an error, is the last one and the only one.
LEMMA LastDone ==
  ASSUME NEW p \in Seq(Wires), ToSet(p) \cap Ends = {}, NEW k \in Wires, NEW w \in {<<k>>, <<"error", k>>}
  PROVE  /\ k \in ToSet(p \o w)
         /\ \A i \in 1..Len(p \o w) : (p \o w)[i] \in Ends => i = Len(p \o w)
<1> DEFINE q == p \o w
<1>1. "error" \in Wires /\ "error" \notin Ends
  BY DEF Wires, Ends
<1>2. w \in Seq(Wires) /\ Len(w) \in {1, 2} /\ w[Len(w)] = k /\ (Len(w) = 2 => w[1] = "error")
  <2>1. CASE w = <<k>>
    BY <2>1
  <2>2. CASE w = <<"error", k>>
    BY <1>1, <2>2
  <2> QED
    BY <2>1, <2>2
<1>3. /\ Len(q) = Len(p) + Len(w) /\ DOMAIN q = 1..Len(q) /\ Len(p) \in Nat
      /\ (\A i \in 1..Len(p) : q[i] = p[i]) /\ \A i \in 1..Len(w) : q[Len(p) + i] = w[i]
  BY <1>2
<1>4. \A i \in 1..Len(p) : p[i] \notin Ends
  BY DEF ToSet
<1> HIDE DEF q
<1>5. q[Len(q)] = k /\ Len(q) \in DOMAIN q
  <2> DEFINE lp == Len(p)
             lw == Len(w)
  <2>1. Len(w) \in 1..Len(w) /\ Len(q) \in 1..Len(q)
    <3>1. lw \in {1, 2} /\ lp \in Nat /\ Len(q) = lp + lw
      BY <1>2, <1>3
    <3> HIDE DEF lp, lw
    <3>2. lw \in 1..lw /\ lp + lw \in 1..(lp + lw)
      BY <3>1
    <3> QED
      BY <3>1, <3>2 DEF lw
  <2>2. q[Len(p) + Len(w)] = w[Len(w)]
    BY <1>3, <2>1
  <2> QED
    BY <1>2, <1>3, <2>1, <2>2
<1>6. \A i \in 1..Len(q) : q[i] \in Ends => i = Len(q)
  <2> SUFFICES ASSUME NEW i \in 1..Len(q), i # Len(q) PROVE q[i] \notin Ends
    OBVIOUS
  <2>1. CASE i \in 1..Len(p)
    BY <1>3, <1>4, <2>1
  <2>2. CASE i \notin 1..Len(p)
    <3>1. Len(w) = 2 /\ i = Len(p) + 1
      BY <1>2, <1>3, <2>2
    <3> QED
      BY <1>1, <1>2, <1>3, <3>1
  <2> QED
    BY <2>1, <2>2
<1> QED
  BY <1>5, <1>6 DEF q, ToSet

LEMMA NoEndNoDone ==
  ASSUME NEW h \in Seq(Kinds), NEW n \in 0..Len(h), \A i \in 1..n : h[i] \notin Ends
  PROVE  /\ ToSet(Projection(SubSeq(h, 1, n))) \cap Ends = {}
         /\ Projection(SubSeq(h, 1, n)) \in Seq(Wires)
<1> DEFINE g == SubSeq(h, 1, n)
<1>1. g \in Seq(Kinds) /\ Len(g) = n /\ \A i \in 1..n : g[i] = h[i]
  OBVIOUS
<1> HIDE DEF g
<1>2. ToSet(Projection(g)) \cap Ends = {}
  BY <1>1, DoneIsEnd
<1> QED
  BY <1>1, <1>2, ProjectionIsSequence DEF g

LEMMA EndIsDone ==
  ASSUME NEW h \in Seq(Kinds), Over(h), \A i \in 1..Len(h) : h[i] \in Ends => i = Len(h)
  PROVE  /\ ToSet(Projection(h)) \cap Ends = {Last(h)}
         /\ \A i \in 1..Len(Projection(h)) : Projection(h)[i] \in Ends => i = Len(Projection(h))
<1> DEFINE n == Len(h)
           g == SubSeq(h, 1, n - 1)
           k == Last(h)
           p == Projection(g)
<1>1. n \in Nat \ {0} /\ k = h[n] /\ k \in Ends /\ k \in Kinds /\ g \in Seq(Kinds) /\ n - 1 \in 0..Len(h)
  BY DEF Over, Last
<1>2. h = Append(g, k) /\ \A i \in 1..(n - 1) : h[i] \notin Ends
  BY <1>1
<1>3. p \in Seq(Wires) /\ ToSet(p) \cap Ends = {}
  BY <1>1, <1>2, NoEndNoDone
<1> HIDE DEF n, g, k, p
<1>4. Projection(h) = p \o WireEvents(k)
  BY <1>1, <1>2, ProjectionAppend DEF p
<1>5. WireEvents(k) \in {<<k>>, <<"error", k>>} /\ k \in Wires
  BY <1>1 DEF WireEvents, Ends, Wires
<1>6. /\ k \in ToSet(Projection(h))
      /\ \A i \in 1..Len(Projection(h)) : Projection(h)[i] \in Ends => i = Len(Projection(h))
  BY <1>3, <1>4, <1>5, LastDone
<1>7. \A e \in ToSet(Projection(h)) \cap Ends : e = k
  <2> SUFFICES ASSUME NEW e \in ToSet(Projection(h)) \cap Ends PROVE e = k
    OBVIOUS
  <2>1. PICK i \in 1..Len(h) : h[i] = e
    BY DoneIsEnd
  <2> QED
    BY <1>1, <2>1 DEF n
<1> QED
  BY <1>1, <1>6, <1>7 DEF k

-----------------------------------------------------------------------------
(* The invariant: status, snapshot and stream against journal and task.    *)

InProgress == {"queued", "running"}
Unsettled == {"none"} \cup InProgress

GivenUp == <<"error", "failed">>

\* The first n events of the journal are all that was sent.
Streamed(r, n) == wire[r] = Projection(SubSeq(journal[r], 1, n))

NoEnd(r, n) == \A i \in 1..n : journal[r][i] \notin Ends

GaveUp(r, n) ==
  wire[r] = Projection(SubSeq(journal[r], 1, n)) \o GivenUp /\ NoEnd(r, n) /\ status[r] = "failed"

Part(r) ==
  \E n \in 0..Len(journal[r]) :
    \/ Streamed(r, n) /\ (NoEnd(r, n) \/ status[r] # "awaiting_clarification")
    \/ GaveUp(r, n)

AsJournal(r, s) ==
  journal[r] # << >> =>
    IF Over(journal[r]) THEN s = Last(journal[r])
    ELSE s = "failed" \/ (s = "awaiting_clarification" /\ "asked" \in ToSet(journal[r]))

\* A Run that is worked on shows it; what a settled one shows is its journal's.
Shown(r) ==
  /\ task[r] \notin Idle => status[r] \in InProgress /\ artifact[r] \in InProgress
  /\ task[r] \in {"spawned", "respawned", "done"} => artifact[r] = status[r]
  /\ task[r] = "done" /\ status[r] \in InProgress => process = "closing" /\ ~Over(journal[r])
  /\ artifact[r] \notin Unsettled => AsJournal(r, artifact[r])
  /\ task[r] = "none" /\ process # "down" => AsJournal(r, status[r])

\* No task works on a journal that is over, but to publish the end it wrote.
Open(r) ==
  /\ task[r] \in {"respawned", "reading", "resuming", "appending"} => ~Over(journal[r])
  /\ task[r] \in {"failing", "committing"} => reply[r] = "ok" \/ ~Over(journal[r])

\* An answer that was given means the batch is the end of the journal.
Committed(r) ==
  task[r] \in Writing /\ reply[r] = "ok" =>
    /\ Len(journal[r]) = expected[r] + Len(batch[r])
    /\ \A i \in 1..Len(batch[r]) : journal[r][expected[r] + i] = batch[r][i]

Published(r) ==
  /\ task[r] = "spawned" => Streamed(r, 0)
  /\ task[r] \in {"respawned", "reading", "finishing"} => Streamed(r, Len(journal[r]))
  /\ task[r] \in {"creating", "resuming", "appending", "executing", "committing"} => Streamed(r, expected[r])
  /\ task[r] = "failing" => \E n \in 0..Len(journal[r]) : Streamed(r, n) /\ NoEnd(r, n)
  /\ task[r] = "done" =>
       Streamed(r, Len(journal[r])) \/ \E n \in 0..Len(journal[r]) : GaveUp(r, n)
  /\ task[r] = "none" => IF process = "down" THEN Part(r) ELSE Streamed(r, Len(journal[r]))

\* A restart shows again what was shown, but of a Run that was in progress.
Kept(r) ==
  /\ status[r] = "none" <=> artifact[r] = "none"
  /\ status[r] \notin InProgress => Restored(r) = status[r]

Following(r) == Shown(r) /\ Open(r) /\ Committed(r) /\ Published(r) /\ Kept(r)

LifeInv == KernelInv /\ \A r \in Runs : Following(r)

-----------------------------------------------------------------------------
(* What the invariant says.                                                *)

LEMMA NotOverNoEnd ==
  ASSUME KernelInv, NEW r \in Runs, ~Over(journal[r]), NEW n \in 0..Len(journal[r])
  PROVE  NoEnd(r, n)
<1>1. journal[r] \in Seq(Kinds) /\ Legal(journal[r])
  BY DEF KernelInv, TypeOK, Sound
<1>2. \A i \in 1..Len(journal[r]) : journal[r][i] \in Ends => i = Len(journal[r])
  BY <1>1 DEF Legal
<1>3. Len(journal[r]) # 0 => journal[r][Len(journal[r])] \notin Ends
  BY <1>1 DEF Over, Last
<1> QED
  BY <1>1, <1>2, <1>3 DEF NoEnd

LEMMA AtMostLength ==
  ASSUME KernelInv, NEW r \in Runs
  PROVE  /\ Len(journal[r]) \in 0..Len(journal[r]) /\ 0 \in 0..Len(journal[r])
         /\ task[r] \in {"creating", "resuming", "appending", "executing", "committing"} =>
              expected[r] \in 0..Len(journal[r])
<1>1. journal[r] \in Seq(Kinds) /\ expected[r] \in Nat /\ batch[r] \in Seq(Kinds)
  BY DEF KernelInv, TypeOK
<1>2. Len(journal[r]) \in Nat /\ Len(batch[r]) \in Nat
  BY <1>1
<1>3. task[r] \in {"creating", "resuming", "appending", "executing", "committing"} =>
        InTurn(r) \/ Len(journal[r]) = expected[r]
  BY DEF KernelInv, Sound, Standing
<1> QED
  BY <1>1, <1>2, <1>3 DEF InTurn

\* Whoever is told something is told a part of the history, or that it broke off.
LEMMA PartAlways ==
  ASSUME LifeInv, NEW r \in Runs
  PROVE  Part(r)
<1> USE DEF LifeInv
<1>1. Following(r) /\ Len(journal[r]) \in 0..Len(journal[r]) /\ 0 \in 0..Len(journal[r])
  BY AtMostLength
<1>2. CASE task[r] \notin Idle
  <2>1. status[r] # "awaiting_clarification"
    BY <1>1, <1>2 DEF Following, Shown, InProgress
  <2>2. \E n \in 0..Len(journal[r]) : Streamed(r, n)
    <3>1. task[r] \in {"spawned", "respawned", "reading", "finishing", "creating", "resuming", "appending",
                      "executing", "committing", "failing"}
      BY <1>2 DEF KernelInv, TypeOK, Tasks, Writing
    <3> QED
      BY <1>1, <3>1, AtMostLength DEF Following, Published
  <2> QED
    BY <2>1, <2>2 DEF Part
<1>3. CASE task[r] = "done"
  <2>1. CASE Streamed(r, Len(journal[r]))
    <3>1. status[r] = "awaiting_clarification" => ~Over(journal[r])
      BY <1>1, <1>3 DEF Following, Shown, AsJournal, Unsettled, InProgress, Over, Ends
    <3> QED
      BY <1>1, <2>1, <3>1, NotOverNoEnd DEF Part
  <2>2. CASE \E n \in 0..Len(journal[r]) : GaveUp(r, n)
    BY <2>2 DEF Part
  <2> QED
    BY <1>1, <1>3, <2>1, <2>2 DEF Following, Published
<1>4. CASE task[r] = "none"
  <2>1. CASE process = "down"
    BY <1>1, <1>4, <2>1 DEF Following, Published
  <2>2. CASE process # "down"
    <3>1. Streamed(r, Len(journal[r]))
      BY <1>1, <1>4, <2>2 DEF Following, Published
    <3>2. status[r] = "awaiting_clarification" => ~Over(journal[r])
      BY <1>1, <1>4, <2>2 DEF Following, Shown, AsJournal, Over, Ends
    <3> QED
      BY <1>1, <3>1, <3>2, NotOverNoEnd DEF Part
  <2> QED
    BY <2>1, <2>2
<1> QED
  BY <1>2, <1>3, <1>4 DEF Idle

LEMMA LifeInvIsStatusFollowsJournal ==
  ASSUME LifeInv
  PROVE  StatusFollowsJournal
<1> USE DEF LifeInv
<1>1. ASSUME NEW r \in Runs, process = "up", task[r] \in Idle, journal[r] # << >>
      PROVE  AsJournal(r, status[r]) /\ status[r] \notin InProgress
  <2>1. CASE task[r] = "none"
    BY <1>1, <2>1 DEF Following, Shown, AsJournal, InProgress, Over, Ends
  <2>2. CASE task[r] = "done"
    <3>1. status[r] # "none"
      BY <2>2 DEF KernelInv, Sound, Unborn
    <3> QED
      BY <1>1, <2>2, <3>1 DEF Following, Shown, Unsettled
  <2> QED
    BY <1>1, <2>1, <2>2 DEF Idle
<1>2. StatusAsJournal
  BY <1>1 DEF StatusAsJournal, AsJournal, Over, Closed
<1>3. Attended
  BY <1>1 DEF Attended, InProgress
<1> QED
  BY <1>2, <1>3 DEF StatusFollowsJournal

LEMMA LifeInvIsStreamIsHistory ==
  ASSUME LifeInv
  PROVE  StreamIsHistory
<1> USE DEF LifeInv
<1>1. StreamProjected
  <2> SUFFICES ASSUME NEW r \in Runs
               PROVE  \E n \in 0..Len(journal[r]) :
                        LET sent == Projection(SubSeq(journal[r], 1, n))
                        IN  \/ wire[r] = sent /\ (task[r] \in Idle /\ process = "up" => n = Len(journal[r]))
                            \/ wire[r] = sent \o GivenUp
    BY DEF StreamProjected, GivenUp
  <2>1. CASE task[r] \in Idle /\ process = "up"
    <3>1. Streamed(r, Len(journal[r])) \/ \E n \in 0..Len(journal[r]) : GaveUp(r, n)
      BY <2>1 DEF Following, Published, Idle
    <3> QED
      BY <3>1, AtMostLength DEF Streamed, GaveUp
  <2>2. CASE ~(task[r] \in Idle /\ process = "up")
    BY <2>2, PartAlways DEF Part, Streamed, GaveUp
  <2> QED
    BY <2>1, <2>2
<1>2. DoneIsLast
  <2> SUFFICES ASSUME NEW r \in Runs, NEW i \in 1..Len(wire[r]), wire[r][i] \in Ends
               PROVE  i = Len(wire[r]) /\ status[r] # "awaiting_clarification"
    BY DEF DoneIsLast, Done
  <2> DEFINE h == journal[r]
  <2>1. h \in Seq(Kinds) /\ \A j \in 1..Len(h) : h[j] \in Ends => j = Len(h)
    BY DEF KernelInv, TypeOK, Sound, Legal
  <2>2. PICK n \in 0..Len(h) :
          \/ Streamed(r, n) /\ (NoEnd(r, n) \/ status[r] # "awaiting_clarification")
          \/ GaveUp(r, n)
    BY PartAlways DEF Part
  <2>3. CASE Streamed(r, n) /\ NoEnd(r, n)
    <3>1. ToSet(wire[r]) \cap Ends = {} /\ wire[r] \in Seq(Wires)
      BY <2>1, <2>3, NoEndNoDone DEF Streamed, NoEnd
    <3>2. wire[r][i] \in ToSet(wire[r])
      BY <3>1 DEF ToSet
    <3> QED
      BY <3>1, <3>2
  <2>4. CASE Streamed(r, n) /\ ~NoEnd(r, n) /\ status[r] # "awaiting_clarification"
    <3>1. n = Len(h) /\ Over(h)
      BY <2>1, <2>4 DEF NoEnd, Over, Last
    <3>2. wire[r] = Projection(h)
      BY <2>1, <2>4, <3>1, WholePrefix DEF Streamed
    <3> HIDE DEF h
    <3>3. \A j \in 1..Len(Projection(h)) : Projection(h)[j] \in Ends => j = Len(Projection(h))
      BY <2>1, <3>1, EndIsDone
    <3> QED
      BY <2>4, <3>2, <3>3
  <2>5. CASE GaveUp(r, n)
    <3> DEFINE p == Projection(SubSeq(h, 1, n))
    <3>1. ToSet(p) \cap Ends = {} /\ p \in Seq(Wires)
      BY <2>1, <2>5, NoEndNoDone DEF GaveUp, NoEnd
    <3>2. wire[r] = p \o GivenUp /\ status[r] = "failed"
      BY <2>5 DEF GaveUp
    <3> HIDE DEF p
    <3>3. GivenUp \in {<<"failed">>, <<"error", "failed">>} /\ "failed" \in Wires
      BY DEF GivenUp, Wires, Kinds, Ends
    <3>4. \A j \in 1..Len(p \o GivenUp) : (p \o GivenUp)[j] \in Ends => j = Len(p \o GivenUp)
      BY <3>1, <3>3, LastDone
    <3> QED
      BY <3>2, <3>4
  <2> QED
    BY <2>2, <2>3, <2>4, <2>5
<1> QED
  BY <1>1, <1>2 DEF StreamIsHistory

-----------------------------------------------------------------------------
(* The parts of a step.                                                    *)

AllStay(r) == OthersStay(r) /\ \A s \in Runs \ {r} : wire'[s] = wire[s]

LEMMA OneLife ==
  ASSUME LifeInv, KernelInv', NEW r \in Runs, AllStay(r), process' = process, Following(r)'
  PROVE  LifeInv'
<1>1. ASSUME NEW s \in Runs \ {r} PROVE Following(s)'
  <2>1. /\ journal'[s] = journal[s] /\ artifact'[s] = artifact[s] /\ status'[s] = status[s] /\ task'[s] = task[s]
        /\ expected'[s] = expected[s] /\ batch'[s] = batch[s] /\ reply'[s] = reply[s] /\ wire'[s] = wire[s]
    BY DEF AllStay, OthersStay
  <2>2. Following(s)
    BY DEF LifeInv
  <2>3. Shown(s)' /\ Open(s)' /\ Committed(s)'
    BY <2>1, <2>2 DEF Following, Shown, AsJournal, Open, Committed
  <2>4. Kept(s)'
    BY <2>1, <2>2 DEF Following, Kept, Restored
  <2>5. /\ \A n : Streamed(s, n)' <=> Streamed(s, n)
        /\ \A n : GaveUp(s, n)' <=> GaveUp(s, n)
        /\ \A n : NoEnd(s, n)' <=> NoEnd(s, n)
    BY <2>1 DEF Streamed, GaveUp, NoEnd
  <2>6. Part(s)' <=> Part(s)
    BY <2>1, <2>5 DEF Part
  <2>7. Published(s)'
    BY <2>1, <2>2, <2>5, <2>6 DEF Following, Published
  <2> QED
    BY <2>3, <2>4, <2>7 DEF Following
<1> QED
  BY <1>1 DEF LifeInv

\* A step after which the Run is still worked on.
LEMMA WorksOn ==
  ASSUME LifeInv, KernelInv', NEW r \in Runs, AllStay(r), process' = process,
         task'[r] \notin Idle, status'[r] \in InProgress, artifact'[r] \in InProgress,
         task'[r] \in {"spawned", "respawned"} => artifact'[r] = status'[r],
         Open(r)', Committed(r)', Published(r)'
  PROVE  LifeInv'
<1>1. Shown(r)' /\ Kept(r)'
  BY DEF Shown, Kept, Idle, InProgress, Unsettled
<1> QED
  BY <1>1, OneLife DEF Following

\* A step with which the work ends.
LEMMA Settles ==
  ASSUME LifeInv, KernelInv', NEW r \in Runs, AllStay(r), UNCHANGED <<journal, process>>,
         task'[r] = "done", status'[r] \notin Unsettled, artifact'[r] = status'[r], AsJournal(r, status'[r]),
         Streamed(r, Len(journal[r]))' \/ \E n \in 0..Len(journal[r]) : GaveUp(r, n)'
  PROVE  LifeInv'
<1>1. Shown(r)'
  BY DEF Shown, Idle, InProgress, Unsettled, AsJournal
<1>2. Open(r)' /\ Committed(r)' /\ Published(r)'
  BY DEF Open, Committed, Published, Writing
<1>3. Kept(r)'
  BY DEF Kept, Restored, InProgress, Unsettled
<1> QED
  BY <1>1, <1>2, <1>3, OneLife DEF Following

\* Another journal call, at the sequence all before which is published.
LEMMA SubmitLife ==
  ASSUME LifeInv, KernelInv', NEW r \in Runs, NEW where \in Writing, NEW kinds \in Seq(Kinds), NEW at \in Nat,
         Submit(r, where, kinds, at), UNCHANGED <<journal, artifact, process, wire>>,
         status' \in {status, [status EXCEPT ![r] = "running"]},
         cancelled' \in {cancelled, [cancelled EXCEPT ![r] = FALSE]},
         task[r] \notin Idle,
         where # "creating" => ~Over(journal[r]),
         IF where = "failing" THEN \E n \in 0..Len(journal[r]) : Streamed(r, n) /\ NoEnd(r, n) ELSE Streamed(r, at)
  PROVE  LifeInv'
<1> USE DEF LifeInv
<1>1. Submitted(r, where, kinds, at)
  <2>1. where \in Tasks
    BY DEF Tasks
  <2> QED
    BY <2>1, SubmitsOne DEF KernelInv
<1>2. AllStay(r)
  BY <1>1, SMTT(30) DEF KernelInv, TypeOK, AllStay, OthersStay, Submitted
<1>3. status[r] \in InProgress /\ artifact[r] \in InProgress
  BY DEF Following, Shown
<1>4. status'[r] \in InProgress /\ artifact'[r] \in InProgress
  BY <1>3 DEF KernelInv, TypeOK, InProgress
<1>5. task'[r] = where /\ expected'[r] = at /\ reply'[r] = "none" /\ where \notin Idle
  BY <1>1 DEF Submitted, Writing, Idle
<1>6. Open(r)' /\ Committed(r)'
  BY <1>5 DEF Open, Committed, Writing
<1>7. Published(r)'
  BY <1>5 DEF Published, Writing, Streamed, NoEnd
<1> QED
  BY <1>2, <1>4, <1>5, <1>6, <1>7, WorksOn DEF Writing

\* The coordinator gives up a Run whose journal is not over or ends with run.failed.
LEMMA FinalizeLife ==
  ASSUME ~DiskMayFail, LifeInv, KernelInv', NEW r \in Runs, Finalize(r), UNCHANGED <<journal, process, kernel>>,
         AsJournal(r, "failed"),
         \E n \in 0..Len(journal[r]) : Streamed(r, n) /\ NoEnd(r, n)
  PROVE  LifeInv'
<1> USE DEF LifeInv
<1>1. /\ artifact' = [artifact EXCEPT ![r] = "failed"] /\ status' = [status EXCEPT ![r] = "failed"]
      /\ wire' = [wire EXCEPT ![r] = wire[r] \o GivenUp]
      /\ task' = [task EXCEPT ![r] = "done"] /\ cancelled' = [cancelled EXCEPT ![r] = FALSE]
  BY DEF Finalize, Saved, Ended, GivenUp
<1>2. AllStay(r)
  BY <1>1 DEF KernelInv, TypeOK, AllStay, OthersStay, kernel
<1>3. task'[r] = "done" /\ status'[r] = "failed" /\ artifact'[r] = "failed" /\ wire'[r] = wire[r] \o GivenUp
  BY <1>1 DEF KernelInv, TypeOK
<1>4. \E n \in 0..Len(journal[r]) : GaveUp(r, n)'
  BY <1>3 DEF GaveUp, Streamed, NoEnd
<1> QED
  BY <1>2, <1>3, <1>4, Settles DEF Unsettled, InProgress

\* A batch that the journal took is published: all of it has been sent.
LEMMA PublishedAll ==
  ASSUME KernelInv, NEW r \in Runs, task[r] \in {"creating", "resuming", "appending", "committing"},
         reply[r] = "ok", Committed(r), Streamed(r, expected[r]), wire'[r] = wire[r] \o Projection(batch[r])
  PROVE  /\ Len(journal[r]) = expected[r] + Len(batch[r])
         /\ wire'[r] = Projection(SubSeq(journal[r], 1, Len(journal[r])))
<1> DEFINE h == journal[r]
           b == batch[r]
           n == expected[r]
<1>1. h \in Seq(Kinds) /\ b \in Seq(Kinds) /\ n \in Nat
  BY DEF KernelInv, TypeOK
<1>2. Len(h) = n + Len(b) /\ \A i \in 1..Len(b) : h[n + i] = b[i]
  BY DEF Committed, Writing
<1>3. wire[r] = Projection(SubSeq(h, 1, n))
  BY DEF Streamed
<1> HIDE DEF h, b, n
<1>4. n + Len(b) <= Len(h)
  BY <1>1, <1>2
<1>5. Projection(SubSeq(h, 1, n + Len(b))) = Projection(SubSeq(h, 1, n)) \o Projection(b)
  BY <1>1, <1>2, <1>4, PrefixLonger
<1> QED
  BY <1>2, <1>3, <1>5, Zenon DEF h, b, n

-----------------------------------------------------------------------------
(* Requests, and the worker of the journal.                                *)

LEMMA CreateRunLife ==
  ASSUME ~DiskMayFail, LifeInv, KernelInv', NEW r \in Runs, CreateRun(r)
  PROVE  LifeInv'
<1> USE DEF LifeInv
<1>1. /\ artifact' = [artifact EXCEPT ![r] = "queued"] /\ status' = [status EXCEPT ![r] = "queued"]
      /\ task' = [task EXCEPT ![r] = "spawned"] /\ process = "up" /\ status[r] = "none" /\ task[r] = "none"
      /\ UNCHANGED <<journal, process, wire, cancelled, expected, batch, reply, reloaded>>
  BY DEF CreateRun, Saved, kernel
<1>2. AllStay(r)
  BY <1>1 DEF KernelInv, TypeOK, AllStay, OthersStay
<1>3. task'[r] = "spawned" /\ status'[r] = "queued" /\ artifact'[r] = "queued"
  BY <1>1 DEF KernelInv, TypeOK
<1>4. journal[r] = << >> /\ Streamed(r, 0)
  BY <1>1 DEF KernelInv, Sound, Unborn, Following, Published
<1>5. Published(r)'
  BY <1>1, <1>3, <1>4 DEF Published, Streamed
<1>6. Open(r)' /\ Committed(r)'
  BY <1>3 DEF Open, Committed, Writing
<1> QED
  BY <1>1, <1>2, <1>3, <1>5, <1>6, WorksOn DEF Idle, InProgress

LEMMA AnswerLife ==
  ASSUME ~DiskMayFail, LifeInv, KernelInv', NEW r \in Runs, AnswerClarification(r)
  PROVE  LifeInv'
<1> USE DEF LifeInv
<1>1. /\ artifact' = [artifact EXCEPT ![r] = "running"] /\ status' = [status EXCEPT ![r] = "running"]
      /\ task' = [task EXCEPT ![r] = "respawned"] /\ process = "up" /\ status[r] = "awaiting_clarification"
      /\ UNCHANGED <<journal, process, wire, cancelled, expected, batch, reply, reloaded>>
  BY DEF AnswerClarification, Saved, kernel
<1>2. AllStay(r)
  BY <1>1 DEF KernelInv, TypeOK, AllStay, OthersStay
<1>3. task'[r] = "respawned" /\ status'[r] = "running" /\ artifact'[r] = "running"
  BY <1>1 DEF KernelInv, TypeOK
<1>4. task[r] \in Idle
  BY <1>1 DEF Following, Shown, InProgress
<1>5. AsJournal(r, "awaiting_clarification") /\ Streamed(r, Len(journal[r]))
  <2>1. CASE task[r] = "none"
    BY <1>1, <2>1 DEF Following, Shown, Published
  <2>2. CASE task[r] = "done"
    BY <1>1, <2>2 DEF Following, Shown, Published, GaveUp, Unsettled, InProgress
  <2> QED
    BY <1>4, <2>1, <2>2 DEF Idle
<1>6. ~Over(journal[r])
  BY <1>5 DEF AsJournal, Over, Ends
<1>7. Published(r)'
  BY <1>1, <1>3, <1>5 DEF Published, Streamed
<1>8. Open(r)' /\ Committed(r)'
  BY <1>1, <1>3, <1>6 DEF Open, Committed, Writing
<1> QED
  BY <1>1, <1>2, <1>3, <1>7, <1>8, WorksOn DEF Idle, InProgress

LEMMA RefusalLife ==
  ASSUME LifeInv, KernelInv', NEW r \in Runs, task[r] \in Writing, NEW verdict, verdict # "ok",
         reply' = [reply EXCEPT ![r] = verdict], reply[r] = "none",
         UNCHANGED <<durable, process, store, task, cancelled, expected, batch, reloaded>>
  PROVE  LifeInv'
<1> USE DEF LifeInv
<1>1. AllStay(r) /\ reply'[r] = verdict /\ UNCHANGED <<journal, artifact, status, wire, process, task, expected, batch>>
  BY DEF KernelInv, TypeOK, AllStay, OthersStay, durable, store
<1>2. status[r] \in InProgress /\ artifact[r] \in InProgress /\ task[r] \notin Idle
  BY DEF Following, Shown, Writing, Idle
<1>3. Open(r)' /\ Committed(r)'
  BY <1>1 DEF Following, Open, Committed
<1>4. Published(r)'
  <2>1. Published(r) /\ task[r] # "none" /\ task[r] # "done"
    BY <1>2 DEF Following, Idle
  <2> QED
    BY <1>1, <2>1 DEF Published, Streamed, NoEnd
<1> QED
  BY <1>1, <1>2, <1>3, <1>4, WorksOn DEF Writing

LEMMA ConcatHasPrefix ==
  ASSUME NEW h \in Seq(Kinds), NEW b \in Seq(Kinds)
  PROVE  /\ Len(h \o b) = Len(h) + Len(b) /\ Len(h) \in Nat /\ Len(b) \in Nat
         /\ 0..Len(h) \subseteq 0..Len(h \o b)
         /\ \A i \in 1..Len(b) : (h \o b)[Len(h) + i] = b[i]
         /\ \A i \in 1..Len(h) : (h \o b)[i] = h[i]
         /\ \A n \in 0..Len(h) : SubSeq(h \o b, 1, n) = SubSeq(h, 1, n)
<1> DEFINE g == h \o b
<1>1. g \in Seq(Kinds) /\ Len(g) = Len(h) + Len(b) /\ Len(h) \in Nat /\ Len(b) \in Nat
  OBVIOUS
<1>2. \A i \in 1..Len(h) : g[i] = h[i]
  OBVIOUS
<1>3. ASSUME NEW i \in 1..Len(b) PROVE g[Len(h) + i] = b[i]
  <2>1. Len(h) + i \in 1..Len(g) /\ Len(h) + i > Len(h) /\ (Len(h) + i) - Len(h) = i
    BY <1>1
  <2> QED
    BY <2>1
<1> HIDE DEF g
<1>4. ASSUME NEW n \in 0..Len(h) PROVE SubSeq(g, 1, n) = SubSeq(h, 1, n)
  <2> DEFINE u == SubSeq(g, 1, n)
             v == SubSeq(h, 1, n)
  <2>1. u \in Seq(Kinds) /\ v \in Seq(Kinds) /\ Len(u) = n /\ Len(v) = n
    BY <1>1
  <2>2. \A i \in 1..n : u[i] = g[i] /\ v[i] = h[i]
    BY <1>1
  <2> HIDE DEF u, v
  <2>3. u = v
    BY <1>2, <2>1, <2>2
  <2> QED
    BY <2>3 DEF u, v
<1>5. 0..Len(h) \subseteq 0..Len(g)
  BY <1>1
<1> QED
  BY <1>1, <1>2, <1>3, <1>4, <1>5 DEF g

LEMMA CommitLife ==
  ASSUME LifeInv, KernelInv', NEW r \in Runs, Commit(r)
  PROVE  LifeInv'
<1> USE DEF LifeInv
<1>1. task[r] \in Writing /\ reply[r] = "none"
      /\ UNCHANGED <<artifact, process, status, wire, task, cancelled, expected, batch, reloaded>>
  BY DEF Commit, store
<1>2. CASE Closed(r) \/ ~AtExpected(r)
  <2>1. \E verdict \in {"terminal", "conflict"} : reply' = [reply EXCEPT ![r] = verdict] /\ journal' = journal
    BY <1>2 DEF Commit
  <2> QED
    BY <1>1, <2>1, RefusalLife DEF durable, store
<1>3. CASE ~Closed(r) /\ AtExpected(r)
  <2> DEFINE h == journal[r]
             b == batch[r]
             g == h \o b
  <2>1. /\ reply' = [reply EXCEPT ![r] = "ok"] /\ journal' = [journal EXCEPT ![r] = g]
        /\ ~Over(h) /\ Len(h) = expected[r]
    BY <1>3 DEF Commit, Closed, AtExpected, Over
  <2>2. h \in Seq(Kinds) /\ b \in Seq(Kinds) /\ expected[r] \in Nat
    BY DEF KernelInv, TypeOK
  <2>3. AllStay(r) /\ reply'[r] = "ok" /\ journal'[r] = g
    BY <1>1, <2>1 DEF KernelInv, TypeOK, AllStay, OthersStay
  <2>4. status[r] \in InProgress /\ artifact[r] \in InProgress /\ task[r] \notin Idle
    BY <1>1 DEF Following, Shown, Writing, Idle
  <2>5. /\ Len(g) = Len(h) + Len(b) /\ Len(h) \in Nat /\ Len(b) \in Nat /\ 0..Len(h) \subseteq 0..Len(g)
        /\ \A i \in 1..Len(b) : g[Len(h) + i] = b[i]
        /\ \A i \in 1..Len(h) : g[i] = h[i]
    BY <2>2, ConcatHasPrefix
  <2>6. \A n \in 0..Len(h) : SubSeq(g, 1, n) = SubSeq(h, 1, n)
    BY <2>2, ConcatHasPrefix
  <2> HIDE DEF g
  <2>7. Committed(r)'
    BY <1>1, <2>1, <2>3, <2>5 DEF Committed
  <2>8. Open(r)'
    <3>1. task[r] = "resuming" => ~Over(g)
      <4>1. task'[r] = "resuming" /\ reply'[r] = "ok" => ~Over(journal'[r])
        BY DEF KernelInv, Sound, Standing, Replied
      <4> QED
        BY <1>1, <2>3, <4>1
    <3>2. task[r] = "appending" => ~Over(g)
      <4>1. ASSUME task[r] = "appending" PROVE \E kind \in Work : Last(g) = kind
        <5>1. OneMore(r, Work)' /\ reply'[r] = "ok"
          BY <1>1, <2>3, <4>1 DEF KernelInv, Sound, Standing
        <5> QED
          BY <2>3, <5>1 DEF OneMore, Replied
      <4> QED
        BY <4>1 DEF Over, Work, Ends
    <3> QED
      BY <1>1, <2>3, <3>1, <3>2 DEF Open, Writing
  <2>9. Published(r)'
    <3>1. ASSUME NEW n \in 0..Len(h) PROVE (Streamed(r, n) => Streamed(r, n)') /\ (NoEnd(r, n) => NoEnd(r, n)')
      <4>1. SubSeq(journal'[r], 1, n) = SubSeq(journal[r], 1, n) /\ wire'[r] = wire[r]
        BY <1>1, <2>3, <2>6
      <4>2. Streamed(r, n) => Streamed(r, n)'
        BY <4>1 DEF Streamed
      <4>3. \A i \in 1..n : i \in 1..Len(h)
        BY <2>5
      <4>4. NoEnd(r, n) => NoEnd(r, n)'
        BY <2>3, <2>5, <4>3 DEF NoEnd
      <4> QED
        BY <4>2, <4>4
    <3>2. task[r] \in {"creating", "resuming", "appending", "committing"} => Streamed(r, expected[r])'
      <4>1. expected[r] \in 0..Len(h) /\ expected'[r] = expected[r]
        BY <1>1, <2>1, <2>2
      <4>2. task[r] \in {"creating", "resuming", "appending", "committing"} => Streamed(r, expected[r])
        BY DEF Following, Published
      <4>3. ASSUME Streamed(r, expected[r]) PROVE Streamed(r, expected[r])'
        <5>1. SubSeq(journal'[r], 1, expected'[r]) = SubSeq(journal[r], 1, expected[r]) /\ wire'[r] = wire[r]
          BY <1>1, <2>3, <2>6, <4>1
        <5> QED
          BY <4>3, <5>1 DEF Streamed
      <4> QED
        BY <4>2, <4>3
    <3>3. task[r] = "failing" => \E n \in 0..Len(g) : Streamed(r, n)' /\ NoEnd(r, n)'
      <4>1. task[r] = "failing" => \E n \in 0..Len(h) : Streamed(r, n) /\ NoEnd(r, n)
        BY DEF Following, Published
      <4> QED
        BY <2>5, <3>1, <4>1
    <3> QED
      BY <1>1, <2>3, <3>2, <3>3 DEF Published, Writing, Streamed, NoEnd
  <2> QED
    BY <1>1, <2>3, <2>4, <2>7, <2>8, <2>9, WorksOn DEF Writing
<1> QED
  BY <1>2, <1>3

LEMMA WriteFailsLife ==
  ASSUME LifeInv, KernelInv', NEW r \in Runs, WriteFails(r)
  PROVE  LifeInv'
  BY RefusalLife DEF WriteFails

-----------------------------------------------------------------------------
(* The steps of the task.                                                  *)

LEMMA StartLife ==
  ASSUME LifeInv, KernelInv', NEW r \in Runs, Start(r)
  PROVE  LifeInv'
<1>1. "creating" \in Writing /\ <<"opened">> \in Seq(Kinds)
  BY DEF Writing, Kinds
<1>2. task[r] = "spawned" /\ task[r] \notin Idle /\ Streamed(r, 0)
  BY DEF Start, Proceeds, Idle, LifeInv, Following, Published
<1> QED
  BY <1>1, <1>2, SubmitLife DEF Start, durable

LEMMA StartResumeLife ==
  ASSUME LifeInv, KernelInv', NEW r \in Runs, StartResume(r)
  PROVE  LifeInv'
<1> USE DEF LifeInv
<1>1. /\ task[r] = "respawned" /\ task' = [task EXCEPT ![r] = "reading"]
      /\ UNCHANGED <<journal, artifact, process, status, wire, cancelled, expected, batch, reply, reloaded>>
  BY DEF StartResume, Proceeds, durable, store, kernel
<1>2. AllStay(r) /\ task'[r] = "reading"
  BY <1>1 DEF KernelInv, TypeOK, AllStay, OthersStay
<1>3. status[r] \in InProgress /\ artifact[r] \in InProgress
  BY <1>1 DEF Following, Shown, Idle
<1>4. Open(r)' /\ Committed(r)' /\ Published(r)'
  BY <1>1, <1>2 DEF Following, Open, Committed, Published, Writing, Streamed
<1> QED
  BY <1>1, <1>2, <1>3, <1>4, WorksOn DEF Idle, Writing

LEMMA ReadHistoryLife ==
  ASSUME LifeInv, KernelInv', NEW r \in Runs, ReadHistory(r)
  PROVE  LifeInv'
<1> DEFINE kinds == <<"answered", "resumed">>
<1>1. "resuming" \in Writing /\ kinds \in Seq(Kinds) /\ Len(journal[r]) \in Nat
  BY DEF Writing, Kinds, LifeInv, KernelInv, TypeOK
<1>2. task[r] = "reading" /\ task[r] \notin Idle /\ Streamed(r, Len(journal[r])) /\ ~Over(journal[r])
  BY DEF ReadHistory, Proceeds, Idle, LifeInv, Following, Published, Open
<1>3. /\ Submit(r, "resuming", kinds, Len(journal[r]))
      /\ UNCHANGED <<journal, artifact, process, status, wire, cancelled>>
  BY DEF ReadHistory, ResumeAt, durable, store
<1> QED
  BY <1>1, <1>2, <1>3, SubmitLife

\* Where the journal goes on, all of it before is without an end.
LEMMA OpenHasNoEnd ==
  ASSUME LifeInv, NEW r \in Runs, ~Over(journal[r]),
         task[r] \in {"reading", "creating", "resuming", "appending", "executing", "failing", "committing"}
  PROVE  \E n \in 0..Len(journal[r]) : Streamed(r, n) /\ NoEnd(r, n)
<1>1. CASE task[r] = "failing"
  BY <1>1 DEF LifeInv, Following, Published
<1>2. CASE task[r] = "reading"
  BY <1>2, AtMostLength, NotOverNoEnd DEF LifeInv, Following, Published
<1>3. CASE task[r] \in {"creating", "resuming", "appending", "executing", "committing"}
  BY <1>3, AtMostLength, NotOverNoEnd DEF LifeInv, Following, Published
<1> QED
  BY <1>1, <1>2, <1>3

LEMMA ReadFailsLife ==
  ASSUME ~DiskMayFail, LifeInv, KernelInv', NEW r \in Runs, ReadFails(r)
  PROVE  LifeInv'
<1>1. task[r] = "reading" /\ ~Over(journal[r])
  BY DEF ReadFails, Proceeds, LifeInv, Following, Open
<1>2. AsJournal(r, "failed")
  BY <1>1 DEF AsJournal
<1> QED
  BY <1>1, <1>2, OpenHasNoEnd, FinalizeLife DEF ReadFails

\* The first event does not end a Run.
LEMMA CreatingIsOpen ==
  ASSUME KernelInv, NEW r \in Runs, task[r] = "creating"
  PROVE  ~Over(journal[r])
<1>1. journal[r] \in Seq(Kinds) /\ batch[r] = <<"opened">> /\ expected[r] = 0 /\ InTurn(r)
  BY DEF KernelInv, TypeOK, Sound, Standing
<1>2. CASE Len(journal[r]) = 0
  BY <1>1, <1>2 DEF Over
<1>3. CASE Len(journal[r]) # 0
  <2>1. reply[r] = "ok"
    BY <1>1, <1>3 DEF InTurn, Replied
  <2>2. journal[r] = <<"opened">>
    BY <2>1 DEF KernelInv, Sound, Standing, Replied
  <2>3. Len(<<"opened">>) = 1 /\ <<"opened">>[1] = "opened"
    OBVIOUS
  <2> QED
    BY <2>2, <2>3 DEF Over, Last, Ends
<1> QED
  BY <1>2, <1>3

LEMMA EscapeLife ==
  ASSUME ~DiskMayFail, LifeInv, KernelInv', NEW r \in Runs, Escape(r)
  PROVE  LifeInv'
<1>1. task[r] \in {"creating", "failing", "committing"} /\ reply[r] \notin {"none", "ok"}
  BY DEF Escape, Proceeds
<1>2. ~Over(journal[r])
  BY <1>1, CreatingIsOpen DEF LifeInv, Following, Open
<1>3. AsJournal(r, "failed")
  BY <1>2 DEF AsJournal
<1> QED
  BY <1>1, <1>2, <1>3, OpenHasNoEnd, FinalizeLife DEF Escape

LEMMA ProceedLife ==
  ASSUME ~DiskMayFail, LifeInv, KernelInv', NEW r \in Runs, Proceed(r)
  PROVE  LifeInv'
<1> USE DEF LifeInv
<1>1. /\ task[r] \in {"creating", "resuming", "appending"} /\ reply[r] = "ok"
      /\ artifact' = [artifact EXCEPT ![r] = status[r]] /\ wire' = [wire EXCEPT ![r] = wire[r] \o Projection(batch[r])]
      /\ task' = [task EXCEPT ![r] = "executing"] /\ expected' = [expected EXCEPT ![r] = expected[r] + Len(batch[r])]
      /\ UNCHANGED <<journal, process, status, cancelled, batch, reply, reloaded>>
  BY DEF Proceed, Proceeds, Publish, Saved
<1>2. AllStay(r)
  BY <1>1 DEF KernelInv, TypeOK, AllStay, OthersStay
<1>3. /\ task'[r] = "executing" /\ wire'[r] = wire[r] \o Projection(batch[r]) /\ artifact'[r] = status[r]
      /\ expected'[r] = expected[r] + Len(batch[r]) /\ status'[r] = status[r]
  BY <1>1 DEF KernelInv, TypeOK
<1>4. status[r] \in InProgress
  BY <1>1 DEF Following, Shown, Idle
<1>5. expected'[r] = Len(journal[r]) /\ wire'[r] = Projection(SubSeq(journal[r], 1, Len(journal[r])))
  BY <1>1, <1>3, PublishedAll DEF Following, Published
<1>6. Streamed(r, expected[r])'
  BY <1>1, <1>5 DEF Streamed
<1>7. Open(r)' /\ Committed(r)' /\ Published(r)'
  BY <1>3, <1>6 DEF Open, Committed, Published, Writing
<1> QED
  BY <1>1, <1>2, <1>3, <1>4, <1>7, WorksOn DEF Idle, Writing

LEMMA OutcomeLife ==
  ASSUME ~DiskMayFail, LifeInv, KernelInv', NEW r \in Runs, Outcome(r)
  PROVE  LifeInv'
<1> USE DEF LifeInv
<1>1. /\ task[r] = "committing" /\ reply[r] = "ok"
      /\ artifact' = [artifact EXCEPT ![r] = status[r]] /\ wire' = [wire EXCEPT ![r] = wire[r] \o Projection(batch[r])]
      /\ task' = [task EXCEPT ![r] = "finishing"]
      /\ UNCHANGED <<journal, process, status, cancelled, expected, batch, reply, reloaded>>
  BY DEF Outcome, Publish, Saved, kernel
<1>2. AllStay(r)
  BY <1>1 DEF KernelInv, TypeOK, AllStay, OthersStay
<1>3. /\ task'[r] = "finishing" /\ wire'[r] = wire[r] \o Projection(batch[r]) /\ artifact'[r] = status[r]
      /\ status'[r] = status[r]
  BY <1>1 DEF KernelInv, TypeOK
<1>4. status[r] \in InProgress
  BY <1>1 DEF Following, Shown, Idle
<1>5. wire'[r] = Projection(SubSeq(journal[r], 1, Len(journal[r])))
  BY <1>1, <1>3, PublishedAll DEF Following, Published
<1>6. Streamed(r, Len(journal[r]))'
  BY <1>1, <1>5 DEF Streamed
<1>7. Open(r)' /\ Committed(r)' /\ Published(r)'
  BY <1>3, <1>6 DEF Open, Committed, Published, Writing
<1> QED
  BY <1>1, <1>2, <1>3, <1>4, <1>7, WorksOn DEF Idle, Writing

\* Emission, outcome or failure: the Pack goes on where all is published.
LEMMA PackLife ==
  ASSUME LifeInv, KernelInv', NEW r \in Runs, Pack(r)
  PROVE  LifeInv'
<1>1. PICK where \in {"appending", "committing", "failing"}, kind \in Emissions \cup Ends \cup {"awaiting"} :
        Submit(r, where, <<kind>>, expected[r])
  BY DEF Pack, PackEmits, PackEnds, PackBreaks, Ends
<1>2. /\ task[r] = "executing" /\ UNCHANGED <<journal, artifact, process, status, wire, cancelled>>
  BY DEF Pack, PackEmits, PackEnds, PackBreaks, Proceeds, durable, store
<1>3. where \in Writing /\ <<kind>> \in Seq(Kinds) /\ expected[r] \in Nat /\ where # "creating"
  <2>1. kind \in Kinds
    BY LifecycleAssumption DEF Kinds
  <2> QED
    BY <2>1 DEF Writing, LifeInv, KernelInv, TypeOK
<1>4. ~Over(journal[r]) /\ Streamed(r, expected[r])
  BY <1>2, ExecutingObservesAll DEF LifeInv, Following, Published
<1>5. \E n \in 0..Len(journal[r]) : Streamed(r, n) /\ NoEnd(r, n)
  BY <1>2, <1>4, OpenHasNoEnd
<1>6. task[r] \notin Idle
  BY <1>2 DEF Idle
<1> QED
  BY <1>1, <1>2, <1>3, <1>4, <1>5, <1>6, SubmitLife

LEMMA FailingLife ==
  ASSUME LifeInv, KernelInv', NEW r \in Runs, Submit(r, "failing", <<"failed">>, expected[r]),
         task[r] \in {"resuming", "appending", "executing"},
         UNCHANGED <<journal, artifact, process, wire, status>>,
         cancelled' \in {cancelled, [cancelled EXCEPT ![r] = FALSE]}
  PROVE  LifeInv'
<1>1. "failing" \in Writing /\ <<"failed">> \in Seq(Kinds) /\ expected[r] \in Nat /\ task[r] \notin Idle
  BY DEF Writing, Kinds, Ends, Idle, LifeInv, KernelInv, TypeOK
<1>2. ~Over(journal[r])
  BY ExecutingObservesAll DEF LifeInv, Following, Open
<1> QED
  BY <1>1, <1>2, OpenHasNoEnd, SubmitLife

LEMMA FailLife ==
  ASSUME LifeInv, KernelInv', NEW r \in Runs, Fail(r)
  PROVE  LifeInv'
  BY FailingLife DEF Fail, Proceeds, durable, store

LEMMA ReloadLife ==
  ASSUME LifeInv, KernelInv', NEW r \in Runs, Reload(r)
  PROVE  LifeInv'
<1> USE DEF LifeInv
<1>1. /\ task[r] = "failing" /\ reply[r] = "conflict" /\ expected' = [expected EXCEPT ![r] = Len(journal[r])]
      /\ reply' = [reply EXCEPT ![r] = "none"] /\ reloaded' = [reloaded EXCEPT ![r] = TRUE]
      /\ UNCHANGED <<journal, artifact, process, status, wire, task, cancelled, batch>>
  BY DEF Reload, durable, store, KernelInv, Sound, Refused, Replied
<1>2. AllStay(r) /\ reply'[r] = "none"
  BY <1>1 DEF KernelInv, TypeOK, AllStay, OthersStay
<1>3. status[r] \in InProgress /\ artifact[r] \in InProgress
  BY <1>1 DEF Following, Shown, Idle
<1>4. Open(r)' /\ Committed(r)'
  BY <1>1, <1>2 DEF Following, Open, Committed
<1>5. Published(r)'
  BY <1>1 DEF Following, Published, Streamed, NoEnd
<1> QED
  BY <1>1, <1>2, <1>3, <1>4, <1>5, WorksOn DEF Idle, Writing

LEMMA FailedIsLast ==
  ASSUME LifeInv, NEW r \in Runs, task[r] = "failing", reply[r] = "ok"
  PROVE  AsJournal(r, "failed")
<1> USE DEF LifeInv
<1>1. journal[r] \in Seq(Kinds) /\ expected[r] \in Nat /\ batch[r] = <<"failed">>
  BY DEF KernelInv, TypeOK, Sound, Standing
<1>2. Len(<<"failed">>) = 1 /\ <<"failed">>[1] = "failed"
  OBVIOUS
<1>3. Len(journal[r]) = expected[r] + 1 /\ journal[r][expected[r] + 1] = "failed"
  <2>1. /\ Len(journal[r]) = expected[r] + Len(batch[r])
        /\ \A i \in 1..Len(batch[r]) : journal[r][expected[r] + i] = batch[r][i]
    BY DEF Following, Committed, Writing
  <2>2. Len(batch[r]) = 1 /\ batch[r][1] = "failed" /\ 1 \in 1..1
    BY <1>1, <1>2
  <2> QED
    BY <2>1, <2>2
<1>4. Last(journal[r]) = "failed"
  BY <1>3 DEF Last
<1> QED
  BY <1>4 DEF AsJournal

\* run.failed ends a Run as the coordinator would without the journal.
LEMMA FailedLife ==
  ASSUME ~DiskMayFail, LifeInv, KernelInv', NEW r \in Runs, Failed(r)
  PROVE  LifeInv'
<1> USE DEF LifeInv
<1>1. task[r] = "failing" /\ reply[r] = "ok" /\ batch[r] = <<"failed">> /\ UNCHANGED <<journal, process, kernel>>
  BY DEF Failed, Proceeds, KernelInv, Sound, Standing
<1>2. Finalize(r)
  <2>1. Projection(<<"failed">>) = GivenUp
    <3>1. "failed" \in Kinds /\ << >> \in Seq(Kinds)
      BY DEF Kinds, Ends
    <3> QED
      BY <3>1, ProjectionAppend DEF WireEvents, GivenUp
  <2>2. wire' = [wire EXCEPT ![r] = wire[r] \o GivenUp]
    BY <1>1, <2>1 DEF Failed
  <2> QED
    BY <2>2 DEF Failed, Finalize, GivenUp
<1>3. AsJournal(r, "failed")
  BY <1>1, FailedIsLast
<1>4. \E n \in 0..Len(journal[r]) : Streamed(r, n) /\ NoEnd(r, n)
  BY <1>1 DEF Following, Published
<1> QED
  BY <1>1, <1>2, <1>3, <1>4, FinalizeLife

LEMMA FinishLife ==
  ASSUME ~DiskMayFail, LifeInv, KernelInv', NEW r \in Runs, Finish(r)
  PROVE  LifeInv'
<1> USE DEF LifeInv
<1> DEFINE s == StatusAfter(batch[r][1])
<1>1. /\ task[r] = "finishing" /\ artifact' = [artifact EXCEPT ![r] = s] /\ status' = [status EXCEPT ![r] = s]
      /\ task' = [task EXCEPT ![r] = "done"] /\ cancelled' = [cancelled EXCEPT ![r] = FALSE]
      /\ UNCHANGED <<journal, process, wire, expected, batch, reply, reloaded>>
  BY DEF Finish, Saved, Ended, kernel
<1>2. journal[r] # << >> /\ batch[r][1] = Last(journal[r]) /\ Last(journal[r]) \in Ends \cup {"awaiting"}
  BY <1>1 DEF KernelInv, Sound, Standing
<1> HIDE DEF s
<1>3. AllStay(r)
  BY <1>1 DEF KernelInv, TypeOK, AllStay, OthersStay
<1>4. task'[r] = "done" /\ status'[r] = s /\ artifact'[r] = s
  BY <1>1 DEF KernelInv, TypeOK
<1>5. s \in Ends \cup {"awaiting_clarification"} /\ AsJournal(r, s)
  <2>1. CASE Last(journal[r]) = "awaiting"
    <3>1. s = "awaiting_clarification" /\ ~Over(journal[r])
      BY <1>2, <2>1 DEF s, StatusAfter, Over, Ends
    <3>2. "asked" \in ToSet(journal[r])
      <4>1. Asked(r)' /\ status'[r] = "awaiting_clarification"
        BY <1>4, <3>1 DEF KernelInv, Sound
      <4> QED
        BY <1>1, <4>1 DEF Asked
    <3> QED
      BY <3>1, <3>2 DEF AsJournal
  <2>2. CASE Last(journal[r]) \in Ends
    <3>1. s = Last(journal[r]) /\ Over(journal[r])
      BY <1>2, <2>2 DEF s, StatusAfter, Over, Ends
    <3> QED
      BY <2>2, <3>1 DEF AsJournal
  <2> QED
    BY <1>2, <2>1, <2>2
<1>6. Streamed(r, Len(journal[r]))'
  BY <1>1 DEF Following, Published, Streamed
<1>7. s \notin Unsettled
  BY <1>5 DEF Unsettled, InProgress, Ends
<1> QED
  BY <1>1, <1>3, <1>4, <1>5, <1>6, <1>7, Settles

LEMMA CancelArrivesLife ==
  ASSUME ~DiskMayFail, LifeInv, KernelInv', NEW r \in Runs, CancelArrives(r)
  PROVE  LifeInv'
<1>1. process = "closing" /\ UNCHANGED <<journal, process>>
  BY DEF CancelArrives, LifeInv, KernelInv
<1>2. CASE task[r] \in {"spawned", "respawned"} /\ Ended(r) /\ UNCHANGED <<artifact, store, kernel>>
  <2> USE DEF LifeInv
  <2>1. /\ task' = [task EXCEPT ![r] = "done"] /\ cancelled' = [cancelled EXCEPT ![r] = FALSE]
        /\ UNCHANGED <<artifact, status, wire, expected, batch, reply, reloaded>>
    BY <1>2 DEF Ended, store, kernel
  <2>2. AllStay(r) /\ task'[r] = "done"
    BY <1>1, <2>1 DEF KernelInv, TypeOK, AllStay, OthersStay
  <2>3. ~Over(journal[r]) /\ Streamed(r, Len(journal[r]))
    <3>1. CASE task[r] = "spawned"
      <4>1. journal[r] = << >> /\ Len(<< >>) = 0
        BY <3>1 DEF KernelInv, Sound, Standing
      <4> QED
        BY <3>1, <4>1 DEF Following, Published, Over
    <3>2. CASE task[r] = "respawned"
      BY <3>2 DEF Following, Published, Open
    <3> QED
      BY <1>2, <3>1, <3>2
  <2>4. status[r] \in InProgress /\ artifact[r] \in InProgress
    BY <1>2 DEF Following, Shown, Idle
  <2>5. artifact[r] = status[r]
    BY <1>2 DEF Following, Shown
  <2>6. Shown(r)'
    BY <1>1, <2>1, <2>2, <2>3, <2>4, <2>5 DEF Shown, Idle, InProgress, Unsettled
  <2>7. Open(r)' /\ Committed(r)' /\ Published(r)'
    BY <1>1, <2>1, <2>2, <2>3 DEF Open, Committed, Published, Writing, Streamed
  <2>8. Kept(r)'
    BY <2>1, <2>4 DEF Kept, InProgress
  <2> QED
    BY <1>1, <2>2, <2>6, <2>7, <2>8, OneLife DEF Following
<1>3. CASE task[r] \in {"creating", "reading", "failing"} /\ Finalize(r) /\ UNCHANGED kernel
  <2>1. CASE ~Over(journal[r])
    <3>1. AsJournal(r, "failed")
      BY <2>1 DEF AsJournal
    <3> QED
      BY <1>1, <1>3, <2>1, <3>1, OpenHasNoEnd, FinalizeLife
  <2>2. CASE Over(journal[r])
    <3>1. task[r] = "failing" /\ reply[r] = "ok"
      BY <1>3, <2>2, CreatingIsOpen DEF LifeInv, Following, Open
    <3>2. AsJournal(r, "failed")
      BY <3>1, FailedIsLast
    <3>3. \E n \in 0..Len(journal[r]) : Streamed(r, n) /\ NoEnd(r, n)
      BY <3>1 DEF LifeInv, Following, Published
    <3> QED
      BY <1>1, <1>3, <3>2, <3>3, FinalizeLife
  <2> QED
    BY <2>1, <2>2
<1>4. CASE /\ task[r] \in {"resuming", "appending", "executing"}
           /\ Submit(r, "failing", <<"failed">>, expected[r])
           /\ cancelled' = [cancelled EXCEPT ![r] = FALSE]
           /\ UNCHANGED <<artifact, store>>
  BY <1>1, <1>4, FailingLife DEF store
<1> QED
  BY <1>2, <1>3, <1>4 DEF CancelArrives

-----------------------------------------------------------------------------
(* Shutdown, crash, restart.                                               *)

LEMMA CloseLife ==
  ASSUME LifeInv, KernelInv', Close
  PROVE  LifeInv'
<1> USE DEF LifeInv
<1>1. /\ process = "up" /\ process' = "closing"
      /\ UNCHANGED <<journal, artifact, status, wire, task, expected, batch, reply>>
  BY DEF Close, durable, store, kernel
<1>2. ASSUME NEW r \in Runs PROVE Following(r)'
  <2>1. Shown(r)' /\ Open(r)' /\ Committed(r)' /\ Kept(r)'
    BY <1>1 DEF Following, Shown, AsJournal, Open, Committed, Kept, Restored
  <2>2. Published(r)'
    BY <1>1 DEF Following, Published, Streamed, GaveUp, NoEnd
  <2> QED
    BY <2>1, <2>2 DEF Following
<1> QED
  BY <1>2

LEMMA CrashLife ==
  ASSUME LifeInv, KernelInv', Crash
  PROVE  LifeInv'
<1> USE DEF LifeInv
<1>1. process' = "down" /\ UNCHANGED <<journal, artifact, status, wire>> /\ \A r \in Runs : task'[r] = "none"
  BY DEF Crash, MemoryLost, durable, store
<1>2. ASSUME NEW r \in Runs PROVE Following(r)'
  <2>1. Shown(r)' /\ Open(r)' /\ Committed(r)' /\ Kept(r)'
    BY <1>1 DEF Following, Shown, AsJournal, Open, Committed, Kept, Restored, Idle, Writing
  <2>2. Part(r)'
    BY <1>1, PartAlways DEF Part, Streamed, GaveUp, NoEnd
  <2>3. Published(r)'
    BY <1>1, <2>2 DEF Published
  <2> QED
    BY <2>1, <2>3 DEF Following
<1> QED
  BY <1>2

\* What close() leaves behind when all tasks are done.
LEMMA ExitLife ==
  ASSUME ~DiskMayFail, LifeInv, KernelInv', Exit
  PROVE  LifeInv'
<1> USE DEF LifeInv
<1>1. /\ process = "closing" /\ process' = "down" /\ journal' = journal
      /\ \A r \in Runs : task[r] \in Idle /\ task'[r] = "none"
  BY DEF Exit, MemoryLost
<1>2. ASSUME NEW r \in Runs
      PROVE  IF Abandoned(r)
               THEN status'[r] = "failed" /\ artifact'[r] = "failed" /\ wire'[r] = wire[r] \o GivenUp
               ELSE status'[r] = status[r] /\ artifact'[r] = artifact[r] /\ wire'[r] = wire[r]
  BY DEF Exit, Saved, GivenUp
<1>3. ASSUME NEW r \in Runs PROVE Following(r)'
  <2>1. Open(r)' /\ Committed(r)'
    BY <1>1 DEF Open, Committed, Writing
  <2>2. CASE Abandoned(r)
    <3>1. ~Over(journal[r]) /\ Streamed(r, Len(journal[r])) /\ status'[r] = "failed" /\ artifact'[r] = "failed"
          /\ wire'[r] = wire[r] \o GivenUp
      BY <1>2, <2>2 DEF Abandoned, Following, Shown, Published, GaveUp, InProgress
    <3>2. GaveUp(r, Len(journal[r]))' /\ Len(journal[r]) \in 0..Len(journal[r])
      <4>1. NoEnd(r, Len(journal[r])) /\ Len(journal[r]) \in 0..Len(journal[r])
        BY <3>1, AtMostLength, NotOverNoEnd
      <4> QED
        BY <1>1, <3>1, <4>1 DEF GaveUp, Streamed, NoEnd
    <3>3. Published(r)'
      BY <1>1, <3>2 DEF Published, Part
    <3>4. Shown(r)'
      BY <1>1, <3>1 DEF Shown, AsJournal, Idle
    <3>5. Kept(r)'
      BY <3>1 DEF Kept, Restored
    <3> QED
      BY <2>1, <3>3, <3>4, <3>5 DEF Following
  <2>3. CASE ~Abandoned(r)
    <3>1. status'[r] = status[r] /\ artifact'[r] = artifact[r] /\ wire'[r] = wire[r]
      BY <1>2, <2>3
    <3>2. Part(r)'
      BY <1>1, <3>1, PartAlways DEF Part, Streamed, GaveUp, NoEnd
    <3>3. Shown(r)' /\ Published(r)' /\ Kept(r)'
      BY <1>1, <3>1, <3>2 DEF Following, Shown, Published, Kept, AsJournal, Restored, Idle
    <3> QED
      BY <2>1, <3>3 DEF Following
  <2> QED
    BY <2>2, <2>3
<1> QED
  BY <1>3

\* A status refolded from the wire history is the one the journal gives.
LEMMA RefoldAsJournal ==
  ASSUME KernelInv, NEW r \in Runs
  PROVE  AsJournal(r, Refold(Projection(journal[r])))
<1> DEFINE h == journal[r]
           p == Projection(h)
<1>1. h \in Seq(Kinds) /\ \A i \in 1..Len(h) : h[i] \in Ends => i = Len(h)
  BY DEF KernelInv, TypeOK, Sound, Legal
<1>2. CASE Over(h)
  <2>1. ToSet(p) \cap Ends = {Last(h)}
    BY <1>1, <1>2, EndIsDone
  <2>2. Refold(p) = Last(h)
    BY <2>1 DEF Refold, Done
  <2> QED
    BY <1>2, <2>2 DEF AsJournal
<1>3. CASE ~Over(h)
  <2>1. NoEnd(r, Len(h)) /\ Len(h) \in 0..Len(h) /\ SubSeq(h, 1, Len(h)) = h
    BY <1>1, <1>3, AtMostLength, NotOverNoEnd, WholePrefix
  <2>2. ToSet(p) \cap Ends = {}
    BY <1>1, <2>1, NoEndNoDone DEF NoEnd
  <2>3. Refold(p) \in {"awaiting_clarification", "failed"}
    BY <2>2 DEF Refold, Done
  <2>4. Refold(p) = "awaiting_clarification" => "asked" \in ToSet(h)
    BY <1>1, RefoldedWasAsked
  <2> HIDE DEF p
  <2> QED
    BY <1>3, <2>3, <2>4 DEF AsJournal, p
<1> QED
  BY <1>2, <1>3

LEMMA RestartLife ==
  ASSUME LifeInv, KernelInv', Restart
  PROVE  LifeInv'
<1> USE DEF LifeInv
<1>1. /\ process = "down" /\ process' = "up" /\ UNCHANGED <<journal, artifact, task>>
      /\ \A r \in Runs : status'[r] = Restored(r) /\ wire'[r] = Projection(journal[r])
  BY DEF Restart, Replayed, durable
<1>2. \A r \in Runs : task'[r] = "none"
  BY <1>1 DEF KernelInv
<1>3. ASSUME NEW r \in Runs PROVE Following(r)'
  <2>1. Open(r)' /\ Committed(r)'
    BY <1>2 DEF Open, Committed, Writing
  <2>2. Streamed(r, Len(journal[r]))'
    <3>1. SubSeq(journal[r], 1, Len(journal[r])) = journal[r]
      BY WholePrefix DEF KernelInv, TypeOK
    <3> QED
      BY <1>1, <3>1 DEF Streamed
  <2>3. Published(r)'
    BY <1>1, <1>2, <2>2 DEF Published
  <2>4. AsJournal(r, Restored(r))
    <3>1. CASE journal[r] # << >> /\ artifact[r] \in Unsettled
      BY <3>1, RefoldAsJournal DEF Restored, Unsettled, InProgress
    <3>2. CASE journal[r] # << >> /\ artifact[r] \notin Unsettled
      BY <3>2 DEF Restored, Unsettled, InProgress, Following, Shown
    <3>3. CASE journal[r] = << >>
      BY <3>3 DEF AsJournal
    <3> QED
      BY <3>1, <3>2, <3>3
  <2>5. Shown(r)'
    BY <1>1, <1>2, <2>4 DEF Following, Shown, AsJournal, Idle
  <2>6. Restored(r)' = Restored(r)
    BY <1>1 DEF Restored
  <2>7. Restored(r) = "none" <=> artifact[r] = "none"
    <3>1. artifact[r] = "none" => journal[r] = << >>
      BY DEF Following, Kept, KernelInv, Sound, Unborn
    <3>2. Refold(Projection(journal[r])) # "none"
      BY RefoldedWasAsked DEF KernelInv, TypeOK, Ends
    <3> QED
      BY <3>1, <3>2 DEF Restored
  <2>8. Kept(r)'
    BY <1>1, <2>6, <2>7 DEF Kept
  <2> QED
    BY <2>1, <2>3, <2>5, <2>8 DEF Following
<1> QED
  BY <1>3

-----------------------------------------------------------------------------
(* The theorems.                                                           *)

LEMMA LifeInvInit == Init => LifeInv
<1> SUFFICES ASSUME Init PROVE LifeInv
  OBVIOUS
<1>1. KernelInv
  BY KernelInvInit
<1>2. ASSUME NEW r \in Runs PROVE Following(r)
  <2>1. /\ journal[r] = << >> /\ artifact[r] = "none" /\ status[r] = "none" /\ wire[r] = << >> /\ task[r] = "none"
        /\ process = "up"
    BY DEF Init
  <2>2. SubSeq(<< >>, 1, Len(<< >>)) = << >>
    OBVIOUS
  <2>3. Streamed(r, Len(journal[r]))
    BY <2>1, <2>2, ProjectionOfNothing DEF Streamed
  <2>4. Published(r)
    BY <2>1, <2>3 DEF Published
  <2>5. Shown(r) /\ Open(r) /\ Committed(r) /\ Kept(r)
    BY <2>1 DEF Shown, Open, Committed, Kept, Restored, AsJournal, Idle, Writing, Unsettled
  <2> QED
    BY <2>4, <2>5 DEF Following
<1> QED
  BY <1>1, <1>2 DEF LifeInv

LEMMA LifeInvStays ==
  ASSUME LifeInv, UNCHANGED vars
  PROVE  LifeInv'
<1>1. KernelInv'
  BY KernelInvStays DEF LifeInv
<1>2. ASSUME NEW r \in Runs PROVE Following(r)'
  <2>1. UNCHANGED <<journal, artifact, process, status, wire, task, expected, batch, reply>>
    BY DEF vars, durable, store, kernel
  <2>2. Following(r)
    BY DEF LifeInv
  <2>3. Part(r)' <=> Part(r)
    BY <2>1 DEF Part, Streamed, GaveUp, NoEnd
  <2>4. Shown(r)' /\ Open(r)' /\ Committed(r)'
    BY <2>1, <2>2 DEF Following, Shown, AsJournal, Open, Committed
  <2>5. Published(r)'
    BY <2>1, <2>2, <2>3 DEF Following, Published, Streamed, GaveUp, NoEnd
  <2>6. Kept(r)'
    BY <2>1, <2>2 DEF Following, Kept, Restored
  <2> QED
    BY <2>4, <2>5, <2>6 DEF Following
<1> QED
  BY <1>1, <1>2 DEF LifeInv

LEMMA LifeInvNext ==
  ASSUME ~DiskMayFail, LifeInv, Next
  PROVE  LifeInv'
<1>1. KernelInv'
  BY KernelInvNext DEF LifeInv
<1>2. ASSUME NEW r \in Runs, Request(r) \/ Pack(r) \/ Worker(r)
      PROVE  LifeInv'
  BY <1>1, <1>2, CreateRunLife, AnswerLife, PackLife, CommitLife, WriteFailsLife DEF Request, Worker
<1>3. ASSUME NEW r \in Runs, TaskStep(r)
      PROVE  LifeInv'
  BY <1>1, <1>3, StartLife, StartResumeLife, ReadHistoryLife, ReadFailsLife, ProceedLife, FailLife, ReloadLife,
     FailedLife, OutcomeLife, FinishLife, EscapeLife, CancelArrivesLife DEF TaskStep
<1> QED
  BY <1>1, <1>2, <1>3, CloseLife, ExitLife, CrashLife, RestartLife DEF Next

\* A Run at rest has the status that its journal gives it, and one the journal
\* knows is worked on while it is queued or running (RunCoordinator and the
\* restoration of runtime/run_store.py), over every crash and shutdown, when
\* snapshots can be saved.
THEOREM StatusFollows ==
  ASSUME ~DiskMayFail
  PROVE  Spec => []StatusFollowsJournal
<1>1. LifeInv /\ [Next]_vars => LifeInv'
  BY LifeInvStays, LifeInvNext
<1>2. LifeInv => StatusFollowsJournal
  BY LifeInvIsStatusFollowsJournal
<1> QED
  BY <1>1, <1>2, LifeInvInit, PTL DEF Spec

\* Clients are sent the committed history and nothing after a done event
\* (publish, _finalize_generic_failure, restore_wire_events), likewise.
THEOREM StreamFollows ==
  ASSUME ~DiskMayFail
  PROVE  Spec => []StreamIsHistory
<1>1. LifeInv /\ [Next]_vars => LifeInv'
  BY LifeInvStays, LifeInvNext
<1>2. LifeInv => StreamIsHistory
  BY LifeInvIsStreamIsHistory
<1> QED
  BY <1>1, <1>2, LifeInvInit, PTL DEF Spec

-----------------------------------------------------------------------------
(* The phases of a Run.                                                    *)

\* What a step may make of the status s.
MayShow(s, t) ==
  \/ t = s
  \/ s = "none" /\ t = "queued"
  \/ s \in InProgress /\ t # "none"
  \/ s = "awaiting_clarification" /\ t = "running"

LEMMA OneStatusMoves ==
  ASSUME LifeInv, NEW r \in Runs, NEW t, status' = [status EXCEPT ![r] = t], MayShow(status[r], t)
  PROVE  \A x \in Runs : MayShow(status[x], status'[x])
BY DEF LifeInv, KernelInv, TypeOK, MayShow

LEMMA WorkIsInProgress ==
  ASSUME LifeInv, NEW r \in Runs, task[r] \notin Idle, NEW t, t # "none",
         status' = [status EXCEPT ![r] = t]
  PROVE  \A x \in Runs : MayShow(status[x], status'[x])
<1>1. status[r] \in InProgress
  BY DEF LifeInv, Following, Shown
<1> QED
  BY <1>1, OneStatusMoves DEF MayShow

LEMMA TaskStatusMoves ==
  ASSUME LifeInv, NEW r \in Runs, TaskStep(r)
  PROVE  \A x \in Runs : MayShow(status[x], status'[x])
<1>1. CASE status' = status
  BY <1>1 DEF MayShow
<1>2. CASE Start(r)
  BY <1>2, WorkIsInProgress DEF Start, Proceeds, Idle
<1>3. CASE Failed(r)
  BY <1>3, WorkIsInProgress DEF Failed, Proceeds, Idle
<1>4. CASE Finish(r)
  <2> DEFINE s == StatusAfter(batch[r][1])
  <2>1. task[r] = "finishing" /\ status' = [status EXCEPT ![r] = s]
    BY <1>4 DEF Finish
  <2>2. batch[r][1] \in Ends \cup {"awaiting"}
    BY <2>1 DEF LifeInv, KernelInv, Sound, Standing
  <2>3. s # "none"
    BY <2>2 DEF StatusAfter, Ends
  <2> HIDE DEF s
  <2> QED
    BY <2>1, <2>3, WorkIsInProgress DEF Idle
<1>5. CASE Finalize(r) /\ task[r] \notin Idle
  BY <1>5, WorkIsInProgress DEF Finalize
<1>6. CASE Escape(r)
  BY <1>5, <1>6 DEF Escape, Proceeds, Idle
<1>7. CASE ReadFails(r)
  BY <1>5, <1>7 DEF ReadFails, Proceeds, Idle
<1>8. CASE CancelArrives(r)
  <2>1. status' = status \/ (Finalize(r) /\ task[r] \in {"creating", "reading", "failing"})
    BY <1>8 DEF CancelArrives, store
  <2> QED
    BY <1>1, <1>5, <2>1 DEF Idle
<1>9. CASE StartResume(r) \/ ReadHistory(r) \/ Proceed(r) \/ Fail(r) \/ Reload(r) \/ Outcome(r)
  BY <1>1, <1>9 DEF StartResume, ReadHistory, Proceed, Fail, Reload, Outcome, store
<1> QED
  BY <1>2, <1>3, <1>4, <1>6, <1>7, <1>8, <1>9 DEF TaskStep

LEMMA StatusMoves ==
  ASSUME LifeInv, LifeInv', [Next]_vars
  PROVE  \A x \in Runs : MayShow(status[x], status'[x])
<1>1. CASE status' = status
  BY <1>1 DEF MayShow
<1>2. ASSUME NEW r \in Runs, CreateRun(r)
      PROVE  \A x \in Runs : MayShow(status[x], status'[x])
  BY <1>2, OneStatusMoves DEF CreateRun, MayShow
<1>3. ASSUME NEW r \in Runs, AnswerClarification(r)
      PROVE  \A x \in Runs : MayShow(status[x], status'[x])
  BY <1>3, OneStatusMoves DEF AnswerClarification, MayShow
<1>4. ASSUME NEW r \in Runs, Pack(r) \/ Worker(r)
      PROVE  status' = status
  BY <1>4 DEF Pack, Worker, PackEmits, PackEnds, PackBreaks, Commit, WriteFails, store
<1>5. CASE Exit
  <2>1. \A x \in Runs : status'[x] = IF Abandoned(x) THEN "failed" ELSE status[x]
    BY <1>5 DEF Exit
  <2> QED
    BY <2>1 DEF MayShow, Abandoned, InProgress
<1>6. CASE Restart
  <2>1. artifact' = artifact /\ \A x \in Runs : status'[x] = Restored(x)
    BY <1>6 DEF Restart, durable
  <2>2. \A x \in Runs : Kept(x) /\ Kept(x)'
    BY DEF LifeInv, Following
  <2>3. \A x \in Runs : status'[x] = "none" <=> status[x] = "none"
    BY <2>1, <2>2 DEF Kept
  <2>4. \A x \in Runs : status[x] \notin InProgress => status'[x] = status[x]
    BY <2>1, <2>2 DEF Kept
  <2> QED
    BY <2>3, <2>4 DEF MayShow, InProgress
<1>7. CASE Close \/ Crash \/ UNCHANGED vars
  BY <1>1, <1>7 DEF Close, Crash, vars, store
<1> QED
  BY <1>1, <1>2, <1>3, <1>4, <1>5, <1>6, <1>7, TaskStatusMoves DEF Next, Request

\* The phase that a status is.
PhaseOf(s) ==
  CASE s = "none" -> "absent"
    [] s \in {"queued", "running"} -> "working"
    [] s = "awaiting_clarification" -> "asking"
    [] OTHER -> s

Shows == [r \in Runs |-> PhaseOf(status[r])]

LEMMA PhaseOfStatus ==
  ASSUME NEW s \in Statuses
  PROVE  /\ PhaseOf(s) \in Phase!Phases
         /\ s = "none" => PhaseOf(s) = "absent"
         /\ s \in InProgress => PhaseOf(s) = "working"
         /\ s = "awaiting_clarification" => PhaseOf(s) = "asking"
         /\ s \in Ends => PhaseOf(s) = s
BY DEF Statuses, Ends, Phase!Phases, Phase!Ends, PhaseOf, InProgress

LEMMA PhaseMoves ==
  ASSUME NEW s \in Statuses, NEW t \in Statuses, MayShow(s, t), PhaseOf(s) # PhaseOf(t)
  PROVE  <<PhaseOf(s), PhaseOf(t)>> \in Phase!Moves
<1>1. CASE s = "none" /\ t = "queued"
  BY <1>1, PhaseOfStatus DEF Phase!Moves, InProgress
<1>2. CASE s \in InProgress /\ t # "none"
  <2>1. PhaseOf(s) = "working" /\ PhaseOf(t) \in {"asking"} \cup Ends
    BY <1>2, PhaseOfStatus DEF Statuses, InProgress
  <2> QED
    BY <2>1 DEF Phase!Moves, Phase!Ends, Ends
<1>3. CASE s = "awaiting_clarification" /\ t = "running"
  BY <1>3, PhaseOfStatus DEF Phase!Moves, InProgress
<1> QED
  BY <1>1, <1>2, <1>3 DEF MayShow

LEMMA ShownPhases ==
  ASSUME \A r \in Runs : status[r] \in Statuses, \A r \in Runs : status'[r] \in Statuses,
         \A r \in Runs : MayShow(status[r], status'[r])
  PROVE  /\ Shows' \in [Runs -> Phase!Phases]
         /\ \A r \in Runs : Shows'[r] # Shows[r] => <<Shows[r], Shows'[r]>> \in Phase!Moves
<1>1. \A r \in Runs : Shows[r] = PhaseOf(status[r]) /\ Shows'[r] = PhaseOf(status'[r])
  BY DEF Shows
<1>2. Shows' = [r \in Runs |-> PhaseOf(status'[r])]
  BY DEF Shows
<1>3. Shows' \in [Runs -> Phase!Phases]
  BY <1>2, PhaseOfStatus
<1> QED
  BY <1>1, <1>3, PhaseMoves

\* The status that clients see of a Run moves as RunPhases says, over crashes,
\* shutdowns and restarts, when snapshots can be saved.
THEOREM StatusImplementsPhases ==
  ASSUME ~DiskMayFail
  PROVE  Spec => ImplementsRunPhases
<1>1. Init => Phase!PhaseInit
  BY DEF Init, Phase!PhaseInit
<1>2. LifeInv /\ [Next]_vars => LifeInv'
  BY LifeInvStays, LifeInvNext
<1>3. ASSUME LifeInv, LifeInv', [Next]_vars
      PROVE  Phase!PhaseNext
  <2>1. \A r \in Runs : status[r] \in Statuses /\ status'[r] \in Statuses
    BY <1>3 DEF LifeInv, KernelInv, TypeOK
  <2>2. /\ Shows' \in [Runs -> Phase!Phases]
        /\ \A r \in Runs : Shows'[r] # Shows[r] => <<Shows[r], Shows'[r]>> \in Phase!Moves
    BY <1>3, <2>1, StatusMoves, ShownPhases
  <2> QED
    BY <2>2, Zenon DEF Phase!PhaseNext, Shows, PhaseOf
<1> QED
  BY <1>1, <1>2, <1>3, LifeInvInit, PTL DEF Spec, ImplementsRunPhases, Phase!PhaseSpec

-----------------------------------------------------------------------------
(* What the store has of a journal, whether snapshots can be saved or not. *)

BrokenOff(r, n) == wire[r] = Projection(SubSeq(journal[r], 1, n)) \o GivenUp

\* All that was published, where the task stands; or it was given up after that.
Sent(r) ==
  /\ task[r] \notin Idle => status[r] \in InProgress
  /\ task[r] = "spawned" => Streamed(r, 0)
  /\ task[r] \in {"respawned", "reading", "finishing"} => Streamed(r, Len(journal[r]))
  /\ task[r] \in {"creating", "resuming", "appending", "executing", "committing"} => Streamed(r, expected[r])
  /\ task[r] = "failing" => \E n \in 0..Len(journal[r]) : Streamed(r, n)
  /\ task[r] = "done" =>
       \/ Streamed(r, Len(journal[r]))
       \/ status[r] = "failed" /\ \E n \in 0..Len(journal[r]) : BrokenOff(r, n)
  /\ task[r] = "none" => process = "down" \/ Streamed(r, Len(journal[r]))

SentInv == KernelInv /\ \A r \in Runs : Committed(r) /\ Sent(r)

LEMMA OneSent ==
  ASSUME SentInv, KernelInv', NEW r \in Runs, AllStay(r), process' = process, Committed(r)', Sent(r)'
  PROVE  SentInv'
<1>1. ASSUME NEW s \in Runs \ {r} PROVE Committed(s)' /\ Sent(s)'
  <2>1. /\ journal'[s] = journal[s] /\ status'[s] = status[s] /\ task'[s] = task[s]
        /\ expected'[s] = expected[s] /\ batch'[s] = batch[s] /\ reply'[s] = reply[s] /\ wire'[s] = wire[s]
    BY DEF AllStay, OthersStay
  <2>2. Committed(s) /\ Sent(s)
    BY DEF SentInv
  <2>3. Committed(s)'
    BY <2>1, <2>2 DEF Committed
  <2>4. /\ \A n : Streamed(s, n)' <=> Streamed(s, n)
        /\ \A n : BrokenOff(s, n)' <=> BrokenOff(s, n)
    BY <2>1 DEF Streamed, BrokenOff
  <2>5. Sent(s)'
    BY <2>1, <2>2, <2>4 DEF Sent
  <2> QED
    BY <2>3, <2>5
<1> QED
  BY <1>1 DEF SentInv

\* A Run that is worked on has been told a part of its journal.
LEMMA WorkIsSent ==
  ASSUME SentInv, NEW r \in Runs, task[r] \notin Idle
  PROVE  \E n \in 0..Len(journal[r]) : Streamed(r, n)
<1>1. task[r] \in {"spawned", "respawned", "reading", "finishing", "creating", "resuming", "appending",
                  "executing", "committing", "failing"}
  BY DEF SentInv, KernelInv, TypeOK, Tasks, Writing
<1> QED
  BY <1>1, AtMostLength DEF SentInv, Sent

\* Another journal call, at the sequence all before which is published.
LEMMA SubmitSent ==
  ASSUME SentInv, KernelInv', NEW r \in Runs, NEW where \in Writing, NEW kinds \in Seq(Kinds), NEW at \in Nat,
         Submit(r, where, kinds, at), UNCHANGED <<journal, artifact, process, wire>>,
         status' \in {status, [status EXCEPT ![r] = "running"]},
         cancelled' \in {cancelled, [cancelled EXCEPT ![r] = FALSE]},
         task[r] \notin Idle, where = "failing" \/ Streamed(r, at)
  PROVE  SentInv'
<1> USE DEF SentInv
<1>1. Submitted(r, where, kinds, at)
  <2>1. where \in Tasks
    BY DEF Tasks
  <2> QED
    BY <2>1, SubmitsOne DEF KernelInv
<1>2. AllStay(r)
  BY <1>1, SMTT(30) DEF KernelInv, TypeOK, AllStay, OthersStay, Submitted
<1>3. status'[r] \in InProgress
  BY DEF Sent, KernelInv, TypeOK, InProgress
<1>4. task'[r] = where /\ expected'[r] = at /\ reply'[r] = "none" /\ where \notin Idle
  BY <1>1 DEF Submitted, Writing, Idle
<1>5. \E n \in 0..Len(journal[r]) : Streamed(r, n)
  BY WorkIsSent
<1>6. Sent(r)'
  <2>1. \A n : Streamed(r, n)' <=> wire[r] = Projection(SubSeq(journal[r], 1, n))
    BY DEF Streamed
  <2>2. where # "failing" => Streamed(r, expected[r])'
    BY <1>4 DEF Streamed
  <2> QED
    BY <1>3, <1>4, <1>5, <2>1, <2>2 DEF Sent, Writing, Streamed
<1>7. Committed(r)'
  BY <1>4 DEF Committed
<1> QED
  BY <1>2, <1>6, <1>7, OneSent

\* The coordinator gives up a Run.
LEMMA FinalizeSent ==
  ASSUME SentInv, KernelInv', NEW r \in Runs, Finalize(r), UNCHANGED <<journal, process, kernel>>, task[r] \notin Idle
  PROVE  SentInv'
<1> USE DEF SentInv
<1>1. /\ artifact' \in Saved([artifact EXCEPT ![r] = "failed"]) /\ status' = [status EXCEPT ![r] = "failed"]
      /\ wire' = [wire EXCEPT ![r] = wire[r] \o GivenUp]
      /\ task' = [task EXCEPT ![r] = "done"] /\ cancelled' = [cancelled EXCEPT ![r] = FALSE]
  BY DEF Finalize, Ended, GivenUp
<1>2. AllStay(r)
  <2>1. \A t \in Runs \ {r} : artifact'[t] = artifact[t]
    BY <1>1, SavesOne DEF KernelInv, Statuses, Ends
  <2> QED
    BY <1>1, <2>1 DEF KernelInv, TypeOK, AllStay, OthersStay, kernel
<1>3. task'[r] = "done" /\ status'[r] = "failed" /\ wire'[r] = wire[r] \o GivenUp
  BY <1>1 DEF KernelInv, TypeOK
<1>4. \E n \in 0..Len(journal'[r]) : BrokenOff(r, n)'
  BY <1>3, WorkIsSent DEF BrokenOff, Streamed
<1>5. Sent(r)' /\ Committed(r)'
  BY <1>3, <1>4 DEF Sent, Committed, Idle, Writing
<1> QED
  BY <1>2, <1>5, OneSent

LEMMA CreateRunSent ==
  ASSUME SentInv, KernelInv', NEW r \in Runs, CreateRun(r)
  PROVE  SentInv'
<1> USE DEF SentInv
<1>1. /\ artifact' \in Saved([artifact EXCEPT ![r] = "queued"]) /\ status' = [status EXCEPT ![r] = "queued"]
      /\ task' = [task EXCEPT ![r] = "spawned"] /\ process = "up" /\ status[r] = "none" /\ task[r] = "none"
      /\ UNCHANGED <<journal, process, wire, cancelled, expected, batch, reply, reloaded>>
  BY DEF CreateRun, kernel
<1>2. AllStay(r)
  <2>1. \A t \in Runs \ {r} : artifact'[t] = artifact[t]
    BY <1>1, SavesOne DEF KernelInv, Statuses
  <2> QED
    BY <1>1, <2>1 DEF KernelInv, TypeOK, AllStay, OthersStay
<1>3. task'[r] = "spawned" /\ status'[r] = "queued"
  BY <1>1 DEF KernelInv, TypeOK
<1>4. Streamed(r, 0)
  BY <1>1 DEF KernelInv, Sound, Unborn, Sent
<1>5. Sent(r)' /\ Committed(r)'
  BY <1>1, <1>3, <1>4 DEF Sent, Committed, Streamed, Idle, InProgress, Writing
<1> QED
  BY <1>1, <1>2, <1>5, OneSent

LEMMA AnswerSent ==
  ASSUME SentInv, KernelInv', NEW r \in Runs, AnswerClarification(r)
  PROVE  SentInv'
<1> USE DEF SentInv
<1>1. /\ artifact' \in Saved([artifact EXCEPT ![r] = "running"]) /\ status' = [status EXCEPT ![r] = "running"]
      /\ task' = [task EXCEPT ![r] = "respawned"] /\ process = "up" /\ status[r] = "awaiting_clarification"
      /\ UNCHANGED <<journal, process, wire, cancelled, expected, batch, reply, reloaded>>
  BY DEF AnswerClarification, kernel
<1>2. AllStay(r)
  <2>1. \A t \in Runs \ {r} : artifact'[t] = artifact[t]
    BY <1>1, SavesOne DEF KernelInv, Statuses
  <2> QED
    BY <1>1, <2>1 DEF KernelInv, TypeOK, AllStay, OthersStay
<1>3. task'[r] = "respawned" /\ status'[r] = "running"
  BY <1>1 DEF KernelInv, TypeOK
<1>4. Streamed(r, Len(journal[r]))
  BY <1>1 DEF Sent, Idle, InProgress
<1>5. Sent(r)' /\ Committed(r)'
  BY <1>1, <1>3, <1>4 DEF Sent, Committed, Streamed, Idle, InProgress, Writing
<1> QED
  BY <1>1, <1>2, <1>5, OneSent

LEMMA RefusalSent ==
  ASSUME SentInv, KernelInv', NEW r \in Runs, task[r] \in Writing, NEW verdict, verdict # "ok",
         reply' = [reply EXCEPT ![r] = verdict], reply[r] = "none",
         UNCHANGED <<durable, process, store, task, cancelled, expected, batch, reloaded>>
  PROVE  SentInv'
<1> USE DEF SentInv
<1>1. AllStay(r) /\ reply'[r] = verdict /\ UNCHANGED <<journal, artifact, status, wire, process, task, expected, batch>>
  BY DEF KernelInv, TypeOK, AllStay, OthersStay, durable, store
<1>2. Committed(r)'
  BY <1>1 DEF Committed
<1>3. Sent(r)'
  BY <1>1 DEF Sent, Streamed, BrokenOff
<1> QED
  BY <1>1, <1>2, <1>3, OneSent

LEMMA WriteFailsSent ==
  ASSUME SentInv, KernelInv', NEW r \in Runs, WriteFails(r)
  PROVE  SentInv'
  BY RefusalSent DEF WriteFails

LEMMA CommitSent ==
  ASSUME SentInv, KernelInv', NEW r \in Runs, Commit(r)
  PROVE  SentInv'
<1> USE DEF SentInv
<1>1. task[r] \in Writing /\ reply[r] = "none"
      /\ UNCHANGED <<artifact, process, status, wire, task, cancelled, expected, batch, reloaded>>
  BY DEF Commit, store
<1>2. CASE Closed(r) \/ ~AtExpected(r)
  <2>1. \E verdict \in {"terminal", "conflict"} : reply' = [reply EXCEPT ![r] = verdict] /\ journal' = journal
    BY <1>2 DEF Commit
  <2> QED
    BY <1>1, <2>1, RefusalSent DEF durable, store
<1>3. CASE ~Closed(r) /\ AtExpected(r)
  <2> DEFINE h == journal[r]
             b == batch[r]
             g == h \o b
  <2>1. /\ reply' = [reply EXCEPT ![r] = "ok"] /\ journal' = [journal EXCEPT ![r] = g]
        /\ Len(h) = expected[r]
    BY <1>3 DEF Commit, Closed, AtExpected
  <2>2. h \in Seq(Kinds) /\ b \in Seq(Kinds) /\ expected[r] \in Nat
    BY DEF KernelInv, TypeOK
  <2>3. AllStay(r) /\ reply'[r] = "ok" /\ journal'[r] = g
    BY <1>1, <2>1 DEF KernelInv, TypeOK, AllStay, OthersStay
  <2>4. /\ Len(g) = Len(h) + Len(b) /\ Len(h) \in Nat /\ Len(b) \in Nat /\ 0..Len(h) \subseteq 0..Len(g)
        /\ \A i \in 1..Len(b) : g[Len(h) + i] = b[i]
    BY <2>2, ConcatHasPrefix
  <2>5. \A n \in 0..Len(h) : SubSeq(g, 1, n) = SubSeq(h, 1, n)
    BY <2>2, ConcatHasPrefix
  <2> HIDE DEF g
  <2>6. Committed(r)'
    BY <1>1, <2>1, <2>3, <2>4 DEF Committed
  <2>7. ASSUME NEW n \in 0..Len(h), Streamed(r, n) PROVE Streamed(r, n)'
    <3>1. SubSeq(journal'[r], 1, n) = SubSeq(journal[r], 1, n) /\ wire'[r] = wire[r]
      BY <1>1, <2>3, <2>5
    <3> QED
      BY <2>7, <3>1 DEF Streamed
  <2>8. task[r] \in {"creating", "resuming", "appending", "committing"} => Streamed(r, expected[r])'
    <3>1. expected[r] \in 0..Len(h) /\ expected'[r] = expected[r]
      BY <1>1, <2>1, <2>2
    <3>2. task[r] \in {"creating", "resuming", "appending", "committing"} => Streamed(r, expected[r])
      BY DEF Sent
    <3>3. ASSUME Streamed(r, expected[r]) PROVE Streamed(r, expected[r])'
      <4>1. SubSeq(journal'[r], 1, expected'[r]) = SubSeq(journal[r], 1, expected[r]) /\ wire'[r] = wire[r]
        BY <1>1, <2>3, <2>5, <3>1
      <4> QED
        BY <3>3, <4>1 DEF Streamed
    <3> QED
      BY <3>2, <3>3
  <2>9. task[r] = "failing" => \E n \in 0..Len(g) : Streamed(r, n)'
    <3>1. task[r] = "failing" => \E n \in 0..Len(h) : Streamed(r, n)
      BY DEF Sent
    <3> QED
      BY <2>4, <2>7, <3>1
  <2>10. status[r] \in InProgress
    BY <1>1 DEF Sent, Writing, Idle
  <2>11. Sent(r)'
    <3>1. status'[r] = status[r] /\ task'[r] = task[r]
      BY <1>1
    <3>2. task[r] = "failing" => (\E n \in 0..Len(journal[r]) : Streamed(r, n))'
      BY <2>3, <2>9
    <3> QED
      BY <1>1, <2>8, <2>10, <3>1, <3>2 DEF Sent, Writing, Idle
  <2> QED
    BY <1>1, <2>3, <2>6, <2>11, OneSent
<1> QED
  BY <1>2, <1>3

LEMMA StartSent ==
  ASSUME SentInv, KernelInv', NEW r \in Runs, Start(r)
  PROVE  SentInv'
<1>1. "creating" \in Writing /\ <<"opened">> \in Seq(Kinds)
  BY DEF Writing, Kinds
<1>2. task[r] = "spawned" /\ task[r] \notin Idle /\ Streamed(r, 0)
  BY DEF Start, Proceeds, Idle, SentInv, Sent
<1> QED
  BY <1>1, <1>2, SubmitSent DEF Start, durable

LEMMA StartResumeSent ==
  ASSUME SentInv, KernelInv', NEW r \in Runs, StartResume(r)
  PROVE  SentInv'
<1> USE DEF SentInv
<1>1. /\ task[r] = "respawned" /\ task' = [task EXCEPT ![r] = "reading"]
      /\ UNCHANGED <<journal, artifact, process, status, wire, cancelled, expected, batch, reply, reloaded>>
  BY DEF StartResume, Proceeds, durable, store, kernel
<1>2. AllStay(r) /\ task'[r] = "reading"
  BY <1>1 DEF KernelInv, TypeOK, AllStay, OthersStay
<1>3. Sent(r)' /\ Committed(r)'
  BY <1>1, <1>2 DEF Sent, Committed, Writing, Idle, Streamed
<1> QED
  BY <1>1, <1>2, <1>3, OneSent

LEMMA ReadHistorySent ==
  ASSUME SentInv, KernelInv', NEW r \in Runs, ReadHistory(r)
  PROVE  SentInv'
<1> DEFINE kinds == <<"answered", "resumed">>
<1>1. "resuming" \in Writing /\ kinds \in Seq(Kinds) /\ Len(journal[r]) \in Nat
  BY DEF Writing, Kinds, SentInv, KernelInv, TypeOK
<1>2. task[r] = "reading" /\ task[r] \notin Idle /\ Streamed(r, Len(journal[r]))
  BY DEF ReadHistory, Proceeds, Idle, SentInv, Sent
<1>3. /\ Submit(r, "resuming", kinds, Len(journal[r]))
      /\ UNCHANGED <<journal, artifact, process, status, wire, cancelled>>
  BY DEF ReadHistory, ResumeAt, durable, store
<1> QED
  BY <1>1, <1>2, <1>3, SubmitSent

LEMMA ReadFailsSent ==
  ASSUME SentInv, KernelInv', NEW r \in Runs, ReadFails(r)
  PROVE  SentInv'
<1>1. task[r] \notin Idle
  BY DEF ReadFails, Proceeds, Idle
<1> QED
  BY <1>1, FinalizeSent DEF ReadFails

LEMMA EscapeSent ==
  ASSUME SentInv, KernelInv', NEW r \in Runs, Escape(r)
  PROVE  SentInv'
<1>1. task[r] \notin Idle
  BY DEF Escape, Proceeds, Idle
<1> QED
  BY <1>1, FinalizeSent DEF Escape

\* What the journal took is published, and the snapshot may be saved.
LEMMA PublishSent ==
  ASSUME SentInv, KernelInv', NEW r \in Runs, task[r] \in {"creating", "resuming", "appending", "committing"},
         reply[r] = "ok", Publish(r, batch[r]), NEW where \in {"executing", "finishing"},
         task' = [task EXCEPT ![r] = where],
         expected' \in {expected, [expected EXCEPT ![r] = expected[r] + Len(batch[r])]},
         where = "executing" => expected' = [expected EXCEPT ![r] = expected[r] + Len(batch[r])],
         UNCHANGED <<journal, process, status, cancelled, batch, reply, reloaded>>
  PROVE  SentInv'
<1> USE DEF SentInv
<1>1. /\ artifact' \in Saved([artifact EXCEPT ![r] = status[r]])
      /\ wire' = [wire EXCEPT ![r] = wire[r] \o Projection(batch[r])]
  BY DEF Publish
<1>2. AllStay(r)
  <2>1. \A t \in Runs \ {r} : artifact'[t] = artifact[t]
    <3>1. TypeOK /\ status[r] \in Statuses
      BY DEF KernelInv, TypeOK
    <3> QED
      BY <1>1, <3>1, SavesOne
  <2> QED
    BY <1>1, <2>1 DEF KernelInv, TypeOK, AllStay, OthersStay
<1>3. task'[r] = where /\ wire'[r] = wire[r] \o Projection(batch[r]) /\ status'[r] = status[r]
  BY <1>1 DEF KernelInv, TypeOK
<1>4. status[r] \in InProgress /\ Streamed(r, expected[r]) /\ Committed(r)
  BY DEF Sent, Idle
<1>5. /\ Len(journal[r]) = expected[r] + Len(batch[r])
      /\ wire'[r] = Projection(SubSeq(journal[r], 1, Len(journal[r])))
  BY <1>3, <1>4, PublishedAll
<1>6. Streamed(r, Len(journal[r]))'
  BY <1>5 DEF Streamed
<1>7. where = "executing" => Streamed(r, expected[r])'
  <2>1. where = "executing" => expected'[r] = Len(journal[r])
    BY <1>5 DEF KernelInv, TypeOK
  <2> QED
    BY <1>5, <2>1 DEF Streamed
<1>8. Sent(r)' /\ Committed(r)'
  BY <1>3, <1>4, <1>6, <1>7 DEF Sent, Committed, Writing, Idle
<1> QED
  BY <1>2, <1>8, OneSent

LEMMA ProceedSent ==
  ASSUME SentInv, KernelInv', NEW r \in Runs, Proceed(r)
  PROVE  SentInv'
<1>1. /\ task[r] \in {"creating", "resuming", "appending"} /\ reply[r] = "ok" /\ Publish(r, batch[r])
      /\ task' = [task EXCEPT ![r] = "executing"] /\ expected' = [expected EXCEPT ![r] = expected[r] + Len(batch[r])]
      /\ UNCHANGED <<journal, process, status, cancelled, batch, reply, reloaded>>
  BY DEF Proceed, Proceeds
<1> QED
  BY <1>1, PublishSent

LEMMA OutcomeSent ==
  ASSUME SentInv, KernelInv', NEW r \in Runs, Outcome(r)
  PROVE  SentInv'
<1>1. /\ task[r] = "committing" /\ reply[r] = "ok" /\ Publish(r, batch[r])
      /\ task' = [task EXCEPT ![r] = "finishing"]
      /\ UNCHANGED <<journal, process, status, cancelled, expected, batch, reply, reloaded>>
  BY DEF Outcome, kernel
<1> QED
  BY <1>1, PublishSent

LEMMA PackSent ==
  ASSUME SentInv, KernelInv', NEW r \in Runs, Pack(r)
  PROVE  SentInv'
<1>1. PICK where \in {"appending", "committing", "failing"}, kind \in Emissions \cup Ends \cup {"awaiting"} :
        Submit(r, where, <<kind>>, expected[r])
  BY DEF Pack, PackEmits, PackEnds, PackBreaks, Ends
<1>2. /\ task[r] = "executing" /\ UNCHANGED <<journal, artifact, process, status, wire, cancelled>>
  BY DEF Pack, PackEmits, PackEnds, PackBreaks, Proceeds, durable, store
<1>3. where \in Writing /\ <<kind>> \in Seq(Kinds) /\ expected[r] \in Nat
  <2>1. kind \in Kinds
    BY LifecycleAssumption DEF Kinds
  <2> QED
    BY <2>1 DEF Writing, SentInv, KernelInv, TypeOK
<1>4. Streamed(r, expected[r]) /\ task[r] \notin Idle
  BY <1>2 DEF SentInv, Sent, Idle
<1> QED
  BY <1>1, <1>2, <1>3, <1>4, SubmitSent

LEMMA FailingSent ==
  ASSUME SentInv, KernelInv', NEW r \in Runs, Submit(r, "failing", <<"failed">>, expected[r]),
         task[r] \in {"resuming", "appending", "executing"},
         UNCHANGED <<journal, artifact, process, wire, status>>,
         cancelled' \in {cancelled, [cancelled EXCEPT ![r] = FALSE]}
  PROVE  SentInv'
<1>1. "failing" \in Writing /\ <<"failed">> \in Seq(Kinds) /\ expected[r] \in Nat /\ task[r] \notin Idle
  BY DEF Writing, Kinds, Ends, Idle, SentInv, KernelInv, TypeOK
<1> QED
  BY <1>1, SubmitSent

LEMMA FailSent ==
  ASSUME SentInv, KernelInv', NEW r \in Runs, Fail(r)
  PROVE  SentInv'
  BY FailingSent DEF Fail, Proceeds, durable, store

LEMMA ReloadSent ==
  ASSUME SentInv, KernelInv', NEW r \in Runs, Reload(r)
  PROVE  SentInv'
<1> USE DEF SentInv
<1>1. /\ task[r] = "failing" /\ expected' = [expected EXCEPT ![r] = Len(journal[r])]
      /\ reply' = [reply EXCEPT ![r] = "none"] /\ reloaded' = [reloaded EXCEPT ![r] = TRUE]
      /\ UNCHANGED <<journal, artifact, process, status, wire, task, cancelled, batch>>
  BY DEF Reload, durable, store, KernelInv, Sound, Refused, Replied
<1>2. AllStay(r) /\ reply'[r] = "none"
  BY <1>1 DEF KernelInv, TypeOK, AllStay, OthersStay
<1>3. Sent(r)' /\ Committed(r)'
  BY <1>1, <1>2 DEF Sent, Committed, Writing, Idle, Streamed
<1> QED
  BY <1>1, <1>2, <1>3, OneSent

LEMMA FailedIsGivenUp == Projection(<<"failed">>) = GivenUp
<1>1. "failed" \in Kinds /\ << >> \in Seq(Kinds)
  BY DEF Kinds, Ends
<1> QED
  BY <1>1, ProjectionAppend DEF WireEvents, GivenUp

LEMMA FailedSent ==
  ASSUME SentInv, KernelInv', NEW r \in Runs, Failed(r)
  PROVE  SentInv'
<1>1. /\ task[r] = "failing" /\ batch[r] = <<"failed">>
      /\ UNCHANGED <<journal, process, kernel>> /\ task[r] \notin Idle
  BY DEF Failed, Proceeds, SentInv, KernelInv, Sound, Standing, Idle
<1>2. wire' = [wire EXCEPT ![r] = wire[r] \o GivenUp]
  BY <1>1, FailedIsGivenUp DEF Failed
<1>3. Finalize(r)
  BY <1>2 DEF Failed, Finalize, GivenUp
<1> QED
  BY <1>1, <1>3, FinalizeSent

LEMMA FinishSent ==
  ASSUME SentInv, KernelInv', NEW r \in Runs, Finish(r)
  PROVE  SentInv'
<1> USE DEF SentInv
<1> DEFINE s == StatusAfter(batch[r][1])
<1>1. /\ task[r] = "finishing" /\ artifact' \in Saved([artifact EXCEPT ![r] = s]) /\ status' = [status EXCEPT ![r] = s]
      /\ task' = [task EXCEPT ![r] = "done"] /\ cancelled' = [cancelled EXCEPT ![r] = FALSE]
      /\ UNCHANGED <<journal, process, wire, expected, batch, reply, reloaded>>
  BY DEF Finish, Ended, kernel
<1>2. s \in Statuses
  BY <1>1 DEF KernelInv, Sound, Standing, StatusAfter, Statuses, Ends
<1> HIDE DEF s
<1>3. AllStay(r)
  <2>1. \A t \in Runs \ {r} : artifact'[t] = artifact[t]
    BY <1>1, <1>2, SavesOne DEF KernelInv
  <2> QED
    BY <1>1, <2>1 DEF KernelInv, TypeOK, AllStay, OthersStay
<1>4. task'[r] = "done"
  BY <1>1 DEF KernelInv, TypeOK
<1>5. Streamed(r, Len(journal[r]))'
  BY <1>1 DEF Sent, Streamed
<1>6. Sent(r)' /\ Committed(r)'
  BY <1>4, <1>5 DEF Sent, Committed, Writing, Idle
<1> QED
  BY <1>1, <1>3, <1>6, OneSent

LEMMA CancelArrivesSent ==
  ASSUME SentInv, KernelInv', NEW r \in Runs, CancelArrives(r)
  PROVE  SentInv'
<1>1. UNCHANGED <<journal, process>>
  BY DEF CancelArrives
<1>2. CASE task[r] \in {"spawned", "respawned"} /\ Ended(r) /\ UNCHANGED <<artifact, store, kernel>>
  <2> USE DEF SentInv
  <2>1. /\ task' = [task EXCEPT ![r] = "done"] /\ cancelled' = [cancelled EXCEPT ![r] = FALSE]
        /\ UNCHANGED <<artifact, status, wire, expected, batch, reply, reloaded>>
    BY <1>2 DEF Ended, store, kernel
  <2>2. AllStay(r) /\ task'[r] = "done"
    BY <1>1, <2>1 DEF KernelInv, TypeOK, AllStay, OthersStay
  <2>3. Streamed(r, Len(journal[r]))
    <3>1. task[r] = "spawned" => journal[r] = << >> /\ Len(<< >>) = 0
      BY DEF KernelInv, Sound, Standing
    <3> QED
      BY <1>2, <3>1 DEF Sent
  <2>4. Sent(r)' /\ Committed(r)'
    BY <1>1, <2>1, <2>2, <2>3 DEF Sent, Committed, Writing, Idle, Streamed
  <2> QED
    BY <1>1, <2>2, <2>4, OneSent
<1>3. CASE task[r] \in {"creating", "reading", "failing"} /\ Finalize(r) /\ UNCHANGED kernel
  <2>1. task[r] \notin Idle
    BY <1>3 DEF Idle
  <2> QED
    BY <1>1, <1>3, <2>1, FinalizeSent
<1>4. CASE /\ task[r] \in {"resuming", "appending", "executing"}
           /\ Submit(r, "failing", <<"failed">>, expected[r])
           /\ cancelled' = [cancelled EXCEPT ![r] = FALSE]
           /\ UNCHANGED <<artifact, store>>
  BY <1>1, <1>4, FailingSent DEF store
<1> QED
  BY <1>2, <1>3, <1>4 DEF CancelArrives

LEMMA CloseSent ==
  ASSUME SentInv, KernelInv', Close
  PROVE  SentInv'
<1> USE DEF SentInv
<1>1. /\ process = "up" /\ process' = "closing"
      /\ UNCHANGED <<journal, artifact, status, wire, task, expected, batch, reply>>
  BY DEF Close, durable, store, kernel
<1>2. ASSUME NEW r \in Runs PROVE Committed(r)' /\ Sent(r)'
  <2>1. Committed(r)'
    BY <1>1 DEF Committed
  <2>2. Sent(r)'
    BY <1>1 DEF Sent, Streamed, BrokenOff
  <2> QED
    BY <2>1, <2>2
<1> QED
  BY <1>2

LEMMA MemoryLostSent ==
  ASSUME KernelInv', MemoryLost
  PROVE  SentInv'
<1>1. process' = "down" /\ \A r \in Runs : task'[r] = "none"
  BY DEF MemoryLost
<1> QED
  BY <1>1 DEF SentInv, Sent, Committed, Idle, Writing

LEMMA RestartSent ==
  ASSUME SentInv, KernelInv', Restart
  PROVE  SentInv'
<1> USE DEF SentInv
<1>1. /\ process = "down" /\ UNCHANGED <<journal, task>> /\ \A r \in Runs : wire'[r] = Projection(journal[r])
  BY DEF Restart, Replayed, durable
<1>2. \A r \in Runs : task'[r] = "none"
  BY <1>1 DEF KernelInv
<1>3. ASSUME NEW r \in Runs PROVE Committed(r)' /\ Sent(r)'
  <2>1. SubSeq(journal[r], 1, Len(journal[r])) = journal[r]
    BY WholePrefix DEF KernelInv, TypeOK
  <2>2. Streamed(r, Len(journal[r]))'
    BY <1>1, <2>1 DEF Streamed
  <2> QED
    BY <1>2, <2>2 DEF Sent, Committed, Idle, Writing
<1> QED
  BY <1>3

LEMMA SentInvInit == Init => SentInv
<1> SUFFICES ASSUME Init PROVE SentInv
  OBVIOUS
<1>1. KernelInv
  BY KernelInvInit
<1>2. ASSUME NEW r \in Runs PROVE Committed(r) /\ Sent(r)
  <2>1. journal[r] = << >> /\ wire[r] = << >> /\ task[r] = "none"
    BY DEF Init
  <2>2. SubSeq(<< >>, 1, Len(<< >>)) = << >>
    OBVIOUS
  <2>3. Streamed(r, Len(journal[r]))
    BY <2>1, <2>2, ProjectionOfNothing DEF Streamed
  <2> QED
    BY <2>1, <2>3 DEF Sent, Committed, Idle, Writing
<1> QED
  BY <1>1, <1>2 DEF SentInv

LEMMA SentInvStays ==
  ASSUME SentInv, UNCHANGED vars
  PROVE  SentInv'
<1>1. KernelInv'
  BY KernelInvStays DEF SentInv
<1>2. ASSUME NEW r \in Runs PROVE Committed(r)' /\ Sent(r)'
  <2>1. UNCHANGED <<journal, process, status, wire, task, expected, batch, reply>>
    BY DEF vars, durable, store, kernel
  <2>2. Committed(r) /\ Sent(r)
    BY DEF SentInv
  <2>3. Committed(r)'
    BY <2>1, <2>2 DEF Committed
  <2>4. Sent(r)'
    BY <2>1, <2>2 DEF Sent, Streamed, BrokenOff
  <2> QED
    BY <2>3, <2>4
<1> QED
  BY <1>1, <1>2 DEF SentInv

LEMMA SentInvNext ==
  ASSUME SentInv, Next
  PROVE  SentInv'
<1>1. KernelInv'
  BY KernelInvNext DEF SentInv
<1>2. ASSUME NEW r \in Runs, Request(r) \/ Pack(r) \/ Worker(r)
      PROVE  SentInv'
  BY <1>1, <1>2, CreateRunSent, AnswerSent, PackSent, CommitSent, WriteFailsSent DEF Request, Worker
<1>3. ASSUME NEW r \in Runs, TaskStep(r)
      PROVE  SentInv'
  BY <1>1, <1>3, StartSent, StartResumeSent, ReadHistorySent, ReadFailsSent, ProceedSent, FailSent, ReloadSent,
     FailedSent, OutcomeSent, FinishSent, EscapeSent, CancelArrivesSent DEF TaskStep
<1>4. Exit \/ Crash => MemoryLost
  BY DEF Exit, Crash
<1> QED
  BY <1>1, <1>2, <1>3, <1>4, CloseSent, MemoryLostSent, RestartSent DEF Next

-----------------------------------------------------------------------------
(* Parts of a stream.                                                      *)

LEMMA PrefixAt ==
  ASSUME NEW s \in Seq(Wires), NEW t \in Seq(Wires)
  PROVE  IsPrefix(s, t) <=> Len(s) <= Len(t) /\ \A i \in 1..Len(s) : s[i] = t[i]
<1>1. SubSeq(s, 1, Len(s)) = s /\ Len(s) \in Nat /\ Len(t) \in Nat
  OBVIOUS
<1>2. ASSUME Len(s) <= Len(t)
      PROVE  s = SubSeq(t, 1, Len(s)) <=> \A i \in 1..Len(s) : s[i] = t[i]
  <2> DEFINE u == SubSeq(t, 1, Len(s))
  <2>1. u \in Seq(Wires) /\ Len(u) = Len(s) /\ \A i \in 1..Len(s) : u[i] = t[i]
    BY <1>1, <1>2
  <2> HIDE DEF u
  <2>2. (\A i \in 1..Len(s) : s[i] = t[i]) => s = u
    BY <2>1
  <2>3. s = u => \A i \in 1..Len(s) : s[i] = t[i]
    BY <2>1
  <2> QED
    BY <2>2, <2>3 DEF u
<1> QED
  BY <1>1, <1>2 DEF IsPrefix

LEMMA ConcatAt ==
  ASSUME NEW T, NEW p \in Seq(T), NEW w \in Seq(T)
  PROVE  /\ p \o w \in Seq(T) /\ Len(p \o w) = Len(p) + Len(w) /\ Len(p) \in Nat /\ Len(w) \in Nat
         /\ \A i \in 1..Len(p) : (p \o w)[i] = p[i]
         /\ \A i \in 1..Len(w) : (p \o w)[Len(p) + i] = w[i]
<1>1. p \o w \in Seq(T) /\ Len(p \o w) = Len(p) + Len(w) /\ Len(p) \in Nat /\ Len(w) \in Nat
  OBVIOUS
<1>2. \A i \in 1..Len(p) : (p \o w)[i] = p[i]
  OBVIOUS
<1>3. ASSUME NEW i \in 1..Len(w) PROVE (p \o w)[Len(p) + i] = w[i]
  <2>1. Len(p) + i \in 1..(Len(p) + Len(w)) /\ Len(p) + i > Len(p) /\ (Len(p) + i) - Len(p) = i
    BY <1>1
  <2> QED
    BY <1>1, <2>1
<1> QED
  BY <1>1, <1>2, <1>3

(* A stream a worker gave up on (runtime_service.py, the failed worker) holds its error. *)
LEMMA GivenUpHasError ==
  ASSUME NEW q \in Seq(Wires)
  PROVE  "error" \in ToSet(q \o GivenUp)
<1> DEFINE w == GivenUp
<1>1. w \in Seq(Wires) /\ Len(w) = 2 /\ w[1] = "error"
  BY DEF GivenUp, Wires, Kinds, Ends
<1> HIDE DEF w
<1>2. /\ Len(q \o w) = Len(q) + Len(w) /\ Len(q) \in Nat
      /\ \A i \in 1..Len(w) : (q \o w)[Len(q) + i] = w[i]
  <2>1. w \in Seq(Wires)
    BY <1>1
  <2> QED
    BY <2>1, ConcatAt
<1>3. 1 \in 1..Len(w)
  BY <1>1
<1>4. (q \o w)[Len(q) + 1] = "error" /\ Len(q) + 1 \in 1..Len(q \o w)
  BY <1>1, <1>2, <1>3
<1>5. "error" \in ToSet(q \o w)
  BY <1>4 DEF ToSet
<1> QED
  BY <1>5 DEF w


LEMMA PrefixExtends ==
  ASSUME NEW s \in Seq(Wires), NEW t \in Seq(Wires), NEW w \in Seq(Wires), IsPrefix(s, t)
  PROVE  IsPrefix(s, t \o w)
<1> DEFINE q == t \o w
<1>1. q \in Seq(Wires) /\ Len(q) >= Len(t) /\ Len(t) \in Nat /\ \A i \in 1..Len(t) : q[i] = t[i]
  BY ConcatAt
<1> HIDE DEF q
<1>2. Len(s) \in Nat /\ Len(s) <= Len(t) /\ \A i \in 1..Len(s) : s[i] = t[i]
  BY PrefixAt
<1>3. Len(s) <= Len(q) /\ \A i \in 1..Len(s) : s[i] = q[i]
  BY <1>1, <1>2
<1> QED
  BY <1>1, <1>3, PrefixAt DEF q

LEMMA PrefixWhole ==
  ASSUME NEW s \in Seq(Wires), NEW t \in Seq(Wires), IsPrefix(s, t), Len(t) <= Len(s)
  PROVE  s = t
<1>1. Len(s) = Len(t) /\ \A i \in 1..Len(s) : s[i] = t[i]
  BY PrefixAt
<1> QED
  BY <1>1

\* A client that was told no error was told nothing of the giving up.
LEMMA PrefixWithoutError ==
  ASSUME NEW s \in Seq(Wires), NEW p \in Seq(Wires), IsPrefix(s, p \o GivenUp), "error" \notin ToSet(s)
  PROVE  IsPrefix(s, p)
<1> DEFINE q == p \o GivenUp
<1>1. GivenUp \in Seq(Wires) /\ Len(GivenUp) = 2 /\ GivenUp[1] = "error"
  BY DEF GivenUp, Wires, Kinds, Ends
<1>2. q \in Seq(Wires) /\ Len(p) \in Nat /\ Len(s) \in Nat /\ (\A i \in 1..Len(p) : q[i] = p[i])
      /\ q[Len(p) + 1] = "error"
  <2>1. 1 \in 1..Len(GivenUp) /\ Len(s) \in Nat
    BY <1>1
  <2>2. /\ q \in Seq(Wires) /\ Len(p) \in Nat /\ (\A i \in 1..Len(p) : q[i] = p[i])
        /\ \A i \in 1..Len(GivenUp) : q[Len(p) + i] = GivenUp[i]
    BY <1>1, ConcatAt
  <2>3. q[Len(p) + 1] = GivenUp[1]
    BY <2>1, <2>2
  <2> QED
    BY <1>1, <2>1, <2>2, <2>3
<1> HIDE DEF q
<1>3. Len(s) <= Len(q) /\ \A i \in 1..Len(s) : s[i] = q[i]
  BY <1>2, PrefixAt DEF q
<1>4. \A i \in 1..Len(s) : s[i] # "error"
  BY DEF ToSet
<1>5. Len(s) <= Len(p)
  <2> SUFFICES ASSUME Len(s) > Len(p) PROVE FALSE
    BY <1>2
  <2>1. Len(p) + 1 \in 1..Len(s)
    BY <1>2
  <2> QED
    BY <1>2, <1>3, <1>4, <2>1
<1>6. \A i \in 1..Len(s) : s[i] = p[i]
  BY <1>2, <1>3, <1>5
<1> QED
  BY <1>5, <1>6, PrefixAt

\* What was projected of a part of the history begins what all of it projects to.
LEMMA PrefixOfPart ==
  ASSUME NEW h \in Seq(Kinds), NEW n \in 0..Len(h), NEW s \in Seq(Wires), IsPrefix(s, Projection(SubSeq(h, 1, n)))
  PROVE  IsPrefix(s, Projection(h))
<1> DEFINE g == SubSeq(h, 1, n)
           b == SubSeq(h, n + 1, Len(h))
<1>1. g \in Seq(Kinds) /\ b \in Seq(Kinds) /\ Len(g) = n /\ Len(b) = Len(h) - n
      /\ (\A i \in 1..n : g[i] = h[i]) /\ \A i \in 1..(Len(h) - n) : b[i] = h[n + i]
  OBVIOUS
<1> HIDE DEF g, b
<1>2. h = g \o b
  <2> DEFINE u == g \o b
  <2>1. /\ u \in Seq(Kinds) /\ Len(u) = Len(g) + Len(b) /\ (\A i \in 1..Len(g) : u[i] = g[i])
        /\ \A i \in 1..Len(b) : u[Len(g) + i] = b[i]
    BY <1>1, ConcatAt
  <2> HIDE DEF u
  <2>2. Len(u) = Len(h) /\ Len(h) \in Nat
    BY <1>1, <2>1
  <2>3. ASSUME NEW i \in 1..Len(h) PROVE u[i] = h[i]
    <3>1. CASE i \in 1..n
      BY <1>1, <2>1, <3>1
    <3>2. CASE i \notin 1..n
      <4>1. i - n \in 1..(Len(h) - n) /\ n + (i - n) = i
        BY <3>2
      <4>2. u[n + (i - n)] = b[i - n] /\ b[i - n] = h[n + (i - n)]
        BY <1>1, <2>1, <4>1
      <4> QED
        BY <4>1, <4>2
    <3> QED
      BY <3>1, <3>2
  <2>4. u = h
    BY <2>1, <2>2, <2>3
  <2> QED
    BY <2>4 DEF u
<1>3. Projection(h) = Projection(g) \o Projection(b)
  BY <1>1, <1>2, ProjectionConcat
<1>4. Projection(g) \in Seq(Wires) /\ Projection(b) \in Seq(Wires)
  BY <1>1, ProjectionIsSequence
<1>5. IsPrefix(s, Projection(g))
  BY DEF g
<1> QED
  BY <1>3, <1>4, <1>5, PrefixExtends

LEMMA PrefixOfMore ==
  ASSUME NEW h \in Seq(Kinds), NEW b \in Seq(Kinds), NEW s \in Seq(Wires), IsPrefix(s, Projection(h))
  PROVE  IsPrefix(s, Projection(h \o b))
<1>1. Projection(h \o b) = Projection(h) \o Projection(b)
  BY ProjectionConcat
<1>2. Projection(h) \in Seq(Wires) /\ Projection(b) \in Seq(Wires)
  BY ProjectionIsSequence
<1> QED
  BY <1>1, <1>2, PrefixExtends

\* With a done event a client has all of the history, and the history is over.
LEMMA DoneIsWhole ==
  ASSUME NEW h \in Seq(Kinds), Legal(h), NEW s \in Seq(Wires), s # << >>, Last(s) \in Ends,
         IsPrefix(s, Projection(h))
  PROVE  s = Projection(h) /\ Over(h)
<1> DEFINE p == Projection(h)
           n == Len(s)
           e == Last(s)
<1>1. p \in Seq(Wires)
  BY ProjectionIsSequence
<1> HIDE DEF p
<1>2. n \in 1..Len(p) /\ p[n] = e
  <2>1. n \in Nat \ {0} /\ e = s[n] /\ Len(p) \in Nat
    BY <1>1 DEF Last
  <2>2. n <= Len(p) /\ \A i \in 1..n : s[i] = p[i]
    BY <1>1, PrefixAt DEF p
  <2> QED
    BY <2>1, <2>2
<1>3. e \in ToSet(p) \cap Ends
  BY <1>1, <1>2 DEF ToSet
<1>4. PICK i \in 1..Len(h) : h[i] = e
  BY <1>3, DoneIsEnd DEF p
<1>5. \A j \in 1..Len(h) : h[j] \in Ends => j = Len(h)
  BY DEF Legal
<1>6. Over(h)
  BY <1>4, <1>5 DEF Over, Last
<1>7. \A j \in 1..Len(p) : p[j] \in Ends => j = Len(p)
  BY <1>5, <1>6, EndIsDone DEF p
<1>8. n = Len(p)
  BY <1>2, <1>7
<1>9. s = p
  BY <1>1, <1>8, PrefixWhole DEF p
<1> QED
  BY <1>6, <1>9 DEF p

-----------------------------------------------------------------------------
(* What a client received before an error.                                 *)

WithoutError(g) == {n \in 1..Len(g) : "error" \notin ToSet(SubSeq(g, 1, n))}

Clear(g) == SubSeq(g, 1, Cardinality(WithoutError(g)))

LEMMA ClearOfClean ==
  ASSUME NEW g \in Seq(Wires), "error" \notin ToSet(g)
  PROVE  Clear(g) = g
<1>1. ASSUME NEW n \in 1..Len(g) PROVE "error" \notin ToSet(SubSeq(g, 1, n))
  <2> DEFINE u == SubSeq(g, 1, n)
  <2>1. u \in Seq(Wires) /\ Len(u) = n /\ \A i \in 1..n : u[i] = g[i]
    OBVIOUS
  <2>2. \A i \in 1..Len(g) : g[i] # "error"
    BY DEF ToSet
  <2> HIDE DEF u
  <2>3. \A i \in 1..n : u[i] # "error"
    BY <2>1, <2>2
  <2>4. DOMAIN u = 1..n
    BY <2>1
  <2>5. "error" \notin ToSet(u)
    BY <2>3, <2>4 DEF ToSet
  <2> QED
    BY <2>5 DEF u
<1>2. WithoutError(g) = 1..Len(g)
  BY <1>1 DEF WithoutError
<1>3. Len(g) \in Nat /\ SubSeq(g, 1, Len(g)) = g
  OBVIOUS
<1>4. Cardinality(1..Len(g)) = Len(g)
  BY <1>3, FS_Interval
<1> QED
  BY <1>2, <1>3, <1>4 DEF Clear

\* Nothing that comes with an error, or after one, counts.
LEMMA ClearStays ==
  ASSUME NEW g \in Seq(Wires), NEW e \in Wires, "error" \in ToSet(Append(g, e))
  PROVE  Clear(Append(g, e)) = Clear(g)
<1> DEFINE m == Append(g, e)
           l == Len(g)
<1>1. m \in Seq(Wires) /\ Len(m) = l + 1 /\ l \in Nat /\ \A i \in 1..l : m[i] = g[i]
  OBVIOUS
<1>2. "error" \in ToSet(m)
  OBVIOUS
<1> HIDE DEF m
<1>3. ASSUME NEW n \in 0..l PROVE SubSeq(m, 1, n) = SubSeq(g, 1, n)
  <2> DEFINE u == SubSeq(m, 1, n)
             v == SubSeq(g, 1, n)
  <2>1. u \in Seq(Wires) /\ Len(u) = n /\ \A i \in 1..n : u[i] = m[i]
    BY <1>1
  <2>2. v \in Seq(Wires) /\ Len(v) = n /\ \A i \in 1..n : v[i] = g[i]
    BY <1>1
  <2>3. \A i \in 1..n : i \in 1..l
    BY <1>1
  <2> HIDE DEF u, v
  <2>4. u = v
    BY <1>1, <2>1, <2>2, <2>3
  <2> QED
    BY <2>4 DEF u, v
<1>4. SubSeq(m, 1, l + 1) = m
  BY <1>1
<1>5. WithoutError(m) = WithoutError(g)
  <2>1. l + 1 \notin WithoutError(m)
    BY <1>2, <1>4 DEF WithoutError
  <2>2. ASSUME NEW n \in 1..l PROVE n \in WithoutError(m) <=> n \in WithoutError(g)
    <3>1. SubSeq(m, 1, n) = SubSeq(g, 1, n) /\ n \in 1..(l + 1)
      BY <1>1, <1>3
    <3> QED
      BY <1>1, <3>1, Zenon DEF WithoutError
  <2>3. WithoutError(m) \subseteq 1..(l + 1) /\ WithoutError(g) \subseteq 1..l /\ 1..(l + 1) = 1..l \cup {l + 1}
    BY <1>1 DEF WithoutError
  <2> QED
    BY <1>1, <2>1, <2>2, <2>3
<1>6. Cardinality(WithoutError(g)) \in 0..l
  <2>1. IsFiniteSet(1..l) /\ Cardinality(1..l) = l
    <3>1. 1 \in Int /\ l \in Int
      BY <1>1
    <3> HIDE DEF l
    <3>2. IsFiniteSet(1..l) /\ Cardinality(1..l) = IF 1 > l THEN 0 ELSE l - 1 + 1
      BY <3>1, FS_Interval
    <3>3. l \in Nat
      BY <1>1 DEF l
    <3> QED
      BY <3>2, <3>3
  <2>2. WithoutError(g) \subseteq 1..l
    BY DEF WithoutError
  <2>3. IsFiniteSet(WithoutError(g)) /\ Cardinality(WithoutError(g)) <= l
    BY <2>1, <2>2, FS_Subset
  <2>4. Cardinality(WithoutError(g)) \in Nat
    BY <2>3, FS_CardinalityType
  <2> QED
    BY <1>1, <2>3, <2>4
<1> QED
  BY <1>3, <1>5, <1>6 DEF Clear, m

-----------------------------------------------------------------------------
(* What a step does to a Run that clients follow.                          *)

LEMMA WireIsPart ==
  ASSUME SentInv, NEW r \in Runs, process # "down"
  PROVE  /\ \E n \in 0..Len(journal[r]) : Streamed(r, n) \/ BrokenOff(r, n)
         /\ wire[r] \in Seq(Wires)
<1>1. journal[r] \in Seq(Kinds) /\ Len(journal[r]) \in 0..Len(journal[r])
  BY AtMostLength DEF SentInv, KernelInv, TypeOK
<1>2. \E n \in 0..Len(journal[r]) : Streamed(r, n) \/ BrokenOff(r, n)
  BY <1>1, WorkIsSent DEF SentInv, Sent, Idle
<1>3. PICK n \in 0..Len(journal[r]) : Streamed(r, n) \/ BrokenOff(r, n)
  BY <1>2
<1>4. Projection(SubSeq(journal[r], 1, n)) \in Seq(Wires)
  BY <1>1, ProjectionOfPrefix
<1>5. GivenUp \in Seq(Wires)
  BY DEF GivenUp, Wires, Kinds, Ends
<1>6. wire[r] \in Seq(Wires)
  <2> DEFINE p == Projection(SubSeq(journal[r], 1, n))
  <2>1. wire[r] = p \/ wire[r] = p \o GivenUp
    BY <1>3 DEF Streamed, BrokenOff
  <2>2. p \in Seq(Wires)
    BY <1>4
  <2> HIDE DEF p
  <2>3. p \o GivenUp \in Seq(Wires)
    BY <1>5, <2>2
  <2> QED
    BY <2>1, <2>2, <2>3
<1> QED
  BY <1>2, <1>6

Untouched(r) ==
  /\ process' = process /\ journal'[r] = journal[r] /\ wire'[r] = wire[r] /\ status'[r] = status[r]
  /\ artifact'[r] = artifact[r] /\ task'[r] = task[r] /\ answers'[r] = answers[r]

\* A request takes a Run up that nobody works on.
Requested(r) ==
  /\ process = "up" /\ process' = process /\ journal'[r] = journal[r] /\ wire'[r] = wire[r]
  /\ \/ status[r] = "none" /\ answers'[r] = answers[r]
     \/ status[r] = "awaiting_clarification" /\ answers'[r] = answers[r] + 1
  /\ status'[r] \in InProgress

\* Work adds to the journal and to the stream; only a Run that is given up is
\* told something its journal does not have.
Worked(r) ==
  /\ task[r] \notin Idle /\ process # "down" /\ process' = process /\ answers'[r] = answers[r]
  /\ \E b \in Seq(Kinds) : journal'[r] = journal[r] \o b /\ (Over(journal[r]) => b = << >>)
  /\ \E w \in Seq(Wires) : wire'[r] = wire[r] \o w
  /\ journal'[r] = << >> =>
       \/ wire'[r] = wire[r] /\ status'[r] \in InProgress
       \/ wire'[r] # << >> /\ status'[r] = "failed" /\ task'[r] = "done"

Step(r) == Request(r) \/ Pack(r) \/ Worker(r) \/ TaskStep(r)

LEMMA NothingAdded ==
  ASSUME KernelInv, NEW r \in Runs, journal' = journal
  PROVE  \E b \in Seq(Kinds) : journal'[r] = journal[r] \o b /\ (Over(journal[r]) => b = << >>)
<1>1. journal[r] \in Seq(Kinds) /\ << >> \in Seq(Kinds)
  BY DEF KernelInv, TypeOK
<1>2. journal[r] = journal[r] \o << >>
  BY <1>1
<1> QED
  BY <1>1, <1>2

\* Work that changes neither journal nor stream.
LEMMA WorkedQuietly ==
  ASSUME SentInv, NEW r \in Runs, task[r] \notin Idle, UNCHANGED <<journal, wire, process, answers>>,
         status'[r] \in InProgress \/ journal[r] # << >>
  PROVE  Worked(r)
<1>1. process # "down"
  BY TaskHasProcess DEF SentInv, Idle
<1>2. wire[r] \in Seq(Wires)
  BY <1>1, WireIsPart
<1>3. wire'[r] = wire[r] \o << >> /\ << >> \in Seq(Wires)
  BY <1>2
<1> QED
  BY <1>1, <1>3, NothingAdded DEF Worked, SentInv

\* Work that adds to the stream.
LEMMA WorkedAloud ==
  ASSUME SentInv, NEW r \in Runs, task[r] \notin Idle, UNCHANGED <<journal, process, answers>>,
         NEW w \in Seq(Wires), wire' = [wire EXCEPT ![r] = wire[r] \o w],
         journal[r] # << >> \/ (w = GivenUp /\ status'[r] = "failed" /\ task'[r] = "done")
  PROVE  Worked(r)
<1>1. process # "down"
  BY TaskHasProcess DEF SentInv, Idle
<1>2. wire[r] \in Seq(Wires)
  BY <1>1, WireIsPart
<1>3. wire'[r] = wire[r] \o w
  BY DEF SentInv, KernelInv, TypeOK
<1>4. w = GivenUp => wire'[r] # << >>
  <2>1. w = GivenUp => Len(w) = 2
    BY DEF GivenUp
  <2>2. Len(wire[r] \o w) = Len(wire[r]) + Len(w) /\ Len(wire[r]) \in Nat
    BY <1>2
  <2>3. Len(<< >>) = 0
    OBVIOUS
  <2> QED
    BY <1>3, <2>1, <2>2, <2>3
<1> QED
  BY <1>1, <1>3, <1>4, NothingAdded DEF Worked, SentInv

LEMMA FinalizeWorks ==
  ASSUME SentInv, NEW r \in Runs, task[r] \notin Idle, Finalize(r), UNCHANGED <<journal, process, answers>>
  PROVE  Worked(r)
<1>1. GivenUp \in Seq(Wires)
  BY DEF GivenUp, Wires, Kinds, Ends
<1>2. wire' = [wire EXCEPT ![r] = wire[r] \o GivenUp]
  BY DEF Finalize, GivenUp
<1>3. status'[r] = "failed" /\ task'[r] = "done"
  BY DEF Finalize, Ended, SentInv, KernelInv, TypeOK
<1> QED
  BY <1>1, <1>2, <1>3, WorkedAloud

LEMMA PublishWorks ==
  ASSUME SentInv, NEW r \in Runs, task[r] \in {"creating", "resuming", "appending", "committing"}, reply[r] = "ok",
         Publish(r, batch[r]), UNCHANGED <<journal, process, answers>>
  PROVE  Worked(r)
<1>1. Projection(batch[r]) \in Seq(Wires)
  BY ProjectionIsSequence DEF SentInv, KernelInv, TypeOK
<1>2. journal[r] # << >>
  <2>1. CASE task[r] = "creating"
    <3>1. journal[r] = <<"opened">> /\ Len(<<"opened">>) = 1 /\ Len(<< >>) = 0
      BY <2>1 DEF SentInv, KernelInv, Sound, Standing, Replied
    <3> QED
      BY <3>1
  <2>2. CASE task[r] # "creating"
    <3>1. expected[r] > 0 /\ expected[r] \in Nat /\ batch[r] \in Seq(Kinds) /\ InTurn(r)
      BY <2>2 DEF SentInv, KernelInv, TypeOK, Sound, Standing
    <3>2. Len(journal[r]) = expected[r] + Len(batch[r]) /\ Len(batch[r]) \in Nat /\ Len(<< >>) = 0
      BY <3>1 DEF InTurn, Replied
    <3>3. Len(journal[r]) > 0
      BY <3>1, <3>2
    <3> QED
      BY <3>2, <3>3
  <2> QED
    BY <2>1, <2>2
<1>3. wire' = [wire EXCEPT ![r] = wire[r] \o Projection(batch[r])] /\ task[r] \notin Idle
  BY DEF Publish, Idle
<1> QED
  BY <1>1, <1>2, <1>3, WorkedAloud

LEMMA CommitWorks ==
  ASSUME SentInv, SentInv', NEW r \in Runs, Commit(r)
  PROVE  Worked(r)
<1>1. /\ task[r] \in Writing /\ task[r] \notin Idle /\ status[r] \in InProgress
      /\ UNCHANGED <<process, status, wire, task, answers>>
  BY DEF Commit, store, counters, Writing, Idle, SentInv, Sent
<1>2. CASE journal' = journal
  BY <1>1, <1>2, WorkedQuietly
<1>3. CASE journal' # journal
  <2>1. journal' = [journal EXCEPT ![r] = journal[r] \o batch[r]] /\ ~Closed(r)
    BY <1>3 DEF Commit
  <2>2. journal'[r] = journal[r] \o batch[r] /\ batch[r] \in Seq(Kinds) /\ ~Over(journal[r])
    BY <2>1 DEF SentInv, KernelInv, TypeOK, Closed, Over
  <2>3. process # "down"
    BY <1>1, TaskHasProcess DEF SentInv, Idle
  <2>4. wire'[r] = wire[r] \o << >> /\ << >> \in Seq(Wires)
    <3>1. wire[r] \in Seq(Wires)
      BY <2>3, WireIsPart
    <3> QED
      BY <1>1, <3>1
  <2> QED
    BY <1>1, <2>2, <2>3, <2>4 DEF Worked
<1> QED
  BY <1>2, <1>3

LEMMA TaskWorks ==
  ASSUME SentInv, SentInv', NEW r \in Runs, Pack(r) \/ Worker(r) \/ TaskStep(r)
  PROVE  Worked(r)
<1> DEFINE Quiet == /\ task[r] \notin Idle /\ status[r] \in InProgress
                    /\ UNCHANGED <<journal, wire, process, answers>>
<1>1. ASSUME task[r] \notin Idle PROVE status[r] \in InProgress
  BY <1>1 DEF SentInv, Sent
<1>2. CASE Pack(r)
  <2>1. Quiet /\ status' = status
    BY <1>1, <1>2 DEF Pack, PackEmits, PackEnds, PackBreaks, Proceeds, durable, store, counters, Idle
  <2> QED
    BY <2>1, WorkedQuietly
<1>3. CASE Worker(r)
  <2>1. CASE WriteFails(r)
    <3>1. Quiet /\ status' = status
      BY <1>1, <2>1 DEF WriteFails, durable, store, Writing, Idle
    <3> QED
      BY <3>1, WorkedQuietly
  <2> QED
    BY <1>3, <2>1, CommitWorks DEF Worker
<1>4. CASE Start(r)
  <2>1. Quiet /\ status'[r] = "running"
    BY <1>1, <1>4 DEF Start, Proceeds, durable, counters, Idle, SentInv, KernelInv, TypeOK
  <2> QED
    BY <2>1, WorkedQuietly DEF InProgress
<1>5. CASE StartResume(r) \/ ReadHistory(r) \/ Fail(r)
  <2>1. Quiet /\ status' = status
    BY <1>1, <1>5 DEF StartResume, ReadHistory, Fail, Proceeds, durable, store, counters, Idle
  <2> QED
    BY <2>1, WorkedQuietly
<1>6. CASE Reload(r)
  <2>1. Quiet /\ status' = status
    BY <1>1, <1>6 DEF Reload, Proceeds, durable, store, counters, Idle
  <2> QED
    BY <2>1, WorkedQuietly
<1>7. CASE ReadFails(r) \/ Escape(r)
  <2>1. task[r] \notin Idle /\ Finalize(r) /\ UNCHANGED <<journal, process, answers>>
    BY <1>7 DEF ReadFails, Escape, Proceeds, counters, Idle
  <2> QED
    BY <2>1, FinalizeWorks
<1>8. CASE Proceed(r) \/ Outcome(r)
  <2>1. /\ task[r] \in {"creating", "resuming", "appending", "committing"} /\ reply[r] = "ok"
        /\ Publish(r, batch[r]) /\ UNCHANGED <<journal, process, answers>>
    BY <1>8 DEF Proceed, Outcome, Proceeds, counters
  <2> QED
    BY <2>1, PublishWorks
<1>9. CASE Failed(r)
  <2>1. task[r] = "failing" /\ batch[r] = <<"failed">> /\ UNCHANGED <<journal, process, answers>>
    BY <1>9 DEF Failed, Proceeds, counters, SentInv, KernelInv, Sound, Standing
  <2>2. Finalize(r)
    <3>1. wire' = [wire EXCEPT ![r] = wire[r] \o GivenUp]
      BY <1>9, <2>1, FailedIsGivenUp DEF Failed
    <3> QED
      BY <1>9, <3>1 DEF Failed, Finalize, GivenUp
  <2> QED
    BY <2>1, <2>2, FinalizeWorks DEF Idle
<1>10. CASE Finish(r)
  <2>1. task[r] = "finishing" /\ UNCHANGED <<journal, wire, process, answers>>
    BY <1>10 DEF Finish, counters
  <2>2. journal[r] # << >>
    BY <2>1 DEF SentInv, KernelInv, Sound, Standing
  <2> QED
    BY <2>1, <2>2, WorkedQuietly DEF Idle
<1>11. CASE CancelArrives(r)
  <2>1. UNCHANGED <<journal, process, answers>>
    BY <1>11 DEF CancelArrives, counters
  <2>2. CASE UNCHANGED <<artifact, store>>
    <3>1. Quiet /\ status' = status
      BY <1>1, <1>11, <2>1, <2>2 DEF CancelArrives, Finalize, store, Idle
    <3> QED
      BY <3>1, WorkedQuietly
  <2>3. CASE task[r] \in {"creating", "reading", "failing"} /\ Finalize(r)
    BY <2>1, <2>3, FinalizeWorks DEF Idle
  <2> QED
    BY <1>11, <2>2, <2>3 DEF CancelArrives
<1> QED
  BY <1>2, <1>3, <1>4, <1>5, <1>6, <1>7, <1>8, <1>9, <1>10, <1>11 DEF TaskStep

LEMMA RequestTakesUp ==
  ASSUME SentInv, NEW r \in Runs, Request(r)
  PROVE  Requested(r)
<1> USE DEF SentInv, KernelInv, TypeOK
<1>1. CASE CreateRun(r)
  BY <1>1 DEF CreateRun, Requested, InProgress, counters
<1>2. CASE AnswerClarification(r)
  <2>1. /\ process = "up" /\ process' = process /\ journal' = journal /\ wire' = wire
        /\ status[r] = "awaiting_clarification" /\ status'[r] = "running"
    BY <1>2 DEF AnswerClarification
  <2>2. answers'[r] = answers[r] + 1
    BY <1>2 DEF AnswerClarification
  <2> QED
    BY <2>1, <2>2 DEF Requested, InProgress
<1> QED
  BY <1>1, <1>2 DEF Request

\* What a step of one Run saves, it saves of this Run.
LEMMA SavesOfOne ==
  ASSUME SentInv, NEW r \in Runs, Step(r), NEW s \in Runs \ {r}
  PROVE  artifact'[s] = artifact[s]
<1> USE DEF SentInv, KernelInv
<1>1. \A a : artifact' \in Saved([artifact EXCEPT ![r] = a]) => artifact'[s] = artifact[s]
  BY DEF TypeOK, Saved
<1>2. CASE Request(r)
  BY <1>1, <1>2 DEF Request, CreateRun, AnswerClarification
<1>3. CASE Pack(r) \/ Worker(r)
  BY <1>3 DEF Pack, PackEmits, PackEnds, PackBreaks, Worker, Commit, WriteFails, durable
<1>4. CASE Start(r) \/ StartResume(r) \/ ReadHistory(r) \/ Fail(r) \/ Reload(r)
  BY <1>4 DEF Start, StartResume, ReadHistory, Fail, Reload, durable
<1>5. CASE Proceed(r) \/ Outcome(r)
  BY <1>1, <1>5 DEF Proceed, Outcome, Publish
<1>6. CASE Failed(r) \/ Finish(r)
  BY <1>1, <1>6 DEF Failed, Finish
<1>7. CASE ReadFails(r) \/ Escape(r) \/ CancelArrives(r)
  BY <1>1, <1>7 DEF ReadFails, Escape, CancelArrives, Finalize
<1> QED
  BY <1>2, <1>3, <1>4, <1>5, <1>6, <1>7 DEF Step, TaskStep

LEMMA OthersUntouched ==
  ASSUME SentInv, NEW r \in Runs, Step(r), NEW s \in Runs \ {r}
  PROVE  Untouched(s)
<1> USE DEF SentInv, KernelInv, TypeOK
<1>1. artifact'[s] = artifact[s]
  BY SavesOfOne
<1> DEFINE Others == /\ process' = process /\ journal'[s] = journal[s] /\ wire'[s] = wire[s] /\ status'[s] = status[s]
                     /\ task'[s] = task[s] /\ answers'[s] = answers[s]
<1>2. CASE Request(r)
  <2>1. Others
    BY <1>2 DEF Request, CreateRun, AnswerClarification, counters
  <2> QED
    BY <1>1, <2>1 DEF Untouched
<1>3. CASE Pack(r)
  <2>1. Others
    BY <1>3 DEF Pack, PackEmits, PackEnds, PackBreaks, Submit, durable, store, counters
  <2> QED
    BY <1>1, <2>1 DEF Untouched
<1>4. CASE Worker(r)
  <2>1. Others
    BY <1>4 DEF Worker, Commit, WriteFails, durable, store, counters
  <2> QED
    BY <1>1, <2>1 DEF Untouched
<1>5. CASE Start(r) \/ StartResume(r) \/ ReadHistory(r) \/ Fail(r) \/ Reload(r)
  <2>1. Others
    BY <1>5 DEF Start, StartResume, ReadHistory, Fail, Reload, Submit, durable, store, counters
  <2> QED
    BY <1>1, <2>1 DEF Untouched
<1>6. CASE Proceed(r) \/ Outcome(r)
  <2>1. Others
    BY <1>6 DEF Proceed, Outcome, Publish, counters
  <2> QED
    BY <1>1, <2>1 DEF Untouched
<1>7. CASE Failed(r) \/ Finish(r)
  <2>1. Others
    BY <1>7 DEF Failed, Finish, Ended, counters
  <2> QED
    BY <1>1, <2>1 DEF Untouched
<1>8. CASE ReadFails(r) \/ Escape(r)
  <2>1. Others
    BY <1>8 DEF ReadFails, Escape, Finalize, Ended, counters
  <2> QED
    BY <1>1, <2>1 DEF Untouched
<1>9. CASE CancelArrives(r)
  <2>1. process' = process /\ journal' = journal /\ answers' = answers
    BY <1>9 DEF CancelArrives, counters
  <2>2. task'[s] = task[s]
    BY <1>9 DEF CancelArrives, Finalize, Ended, Submit
  <2>3. wire'[s] = wire[s] /\ status'[s] = status[s]
    BY <1>9 DEF CancelArrives, Finalize, store
  <2> QED
    BY <1>1, <2>1, <2>2, <2>3 DEF Untouched
<1> QED
  BY <1>2, <1>3, <1>4, <1>5, <1>6, <1>7, <1>8, <1>9 DEF Step, TaskStep

LEMMA StepOf ==
  ASSUME SentInv, SentInv', Next, NEW r \in Runs
  PROVE  Untouched(r) \/ Requested(r) \/ Worked(r) \/ Close \/ Exit \/ Crash \/ Restart
<1>1. CASE \E s \in Runs : Step(s)
  <2>1. PICK s \in Runs : Step(s)
    BY <1>1
  <2>2. CASE s = r
    BY <2>1, <2>2, TaskWorks, RequestTakesUp DEF Step
  <2>3. CASE s # r
    BY <2>1, <2>3, OthersUntouched
  <2> QED
    BY <2>2, <2>3
<1> QED
  BY <1>1 DEF Next, Step

-----------------------------------------------------------------------------
(* Streams and clients: what a client has against the journal of its Run.  *)

Phases == {"away", "ready", "yielding", "waiting", "over", "refused"}

\* A Run the journal does not know has told nothing that a client could miss,
\* and ids that a restart keeps are those of a stream that is at its end.
Unheard(r) ==
  /\ journal[r] = << >> /\ status[r] \in Ends /\ process # "down" => wire[r] # << >> \/ artifact[r] \in Ends
  /\ journal[r] = << >> /\ saved[r] # 0 =>
       artifact[r] \in Ends /\ (process # "down" => task[r] \in Idle /\ status[r] \in Ends)
  /\ offset[r] # 0 /\ process # "down" =>
       journal[r] = << >> /\ wire[r] = << >> /\ task[r] = "none" /\ status[r] \in Ends

Clean(c) == "error" \notin ToSet(got[c])

\* Nothing more is to come, unless the Run is resumed.
Still(r) ==
  \/ Over(journal[r])
  \/ /\ task[r] \in Idle
     /\ journal[r] = << >> => artifact[r] \in Ends
     /\ process # "down" => status[r] \in Ends \cup {"awaiting_clarification"}

Tells(c) ==
  LET r == Follows[c]
  IN  /\ IsPrefix(Clear(got[c]), Projection(journal[r]))
      /\ process # "down" /\ Clean(c) => IsPrefix(got[c], wire[r])
      /\ phase[c] \in Connected => process # "down" /\ cursor[c] = Len(got[c])
      /\ phase[c] = "yielding" => cursor[c] < upto[c] /\ upto[c] <= Len(wire[r]) /\ offset[r] = 0
      /\ round[c] <= answers[r]
      /\ phase[c] = "over" /\ round[c] = answers[r] /\ Clean(c) => got[c] = Projection(journal[r]) /\ Still(r)

StreamTyped ==
  /\ phase \in [Clients -> Phases]
  /\ cursor \in [Clients -> Nat] /\ upto \in [Clients -> Nat] /\ round \in [Clients -> Nat]
  /\ got \in [Clients -> Seq(Wires)]
  /\ offset \in [Runs -> Nat] /\ saved \in [Runs -> Nat]

StreamInv == SentInv /\ StreamTyped /\ (\A r \in Runs : Unheard(r)) /\ \A c \in Clients : Tells(c)

LEMMA StreamInvIsClientsFollow ==
  ASSUME StreamInv
  PROVE  ClientsFollow
<1>1. ASSUME NEW c \in Clients PROVE BeforeError(c) = Clear(got[c])
  BY DEF BeforeError, Clear, WithoutError
<1>2. ASSUME NEW c \in Clients
      PROVE  /\ IsPrefix(BeforeError(c), Projection(journal[Follows[c]]))
             /\ phase[c] = "over" /\ round[c] = answers[Follows[c]]
                  => got[c] = Projection(journal[Follows[c]]) \/ "error" \in ToSet(got[c])
  <2>1. Tells(c) /\ BeforeError(c) = Clear(got[c])
    BY <1>1 DEF StreamInv
  <2> QED
    BY <2>1 DEF Tells, Clean
<1> QED
  BY <1>2, Zenon DEF ClientsFollow

-----------------------------------------------------------------------------
(* A step of the Run.                                                      *)

\* What the store of the next process and the snapshot's ids may become.
LEMMA IdsKept ==
  ASSUME StreamInv, RunStep, NEW r \in Runs
  PROVE  /\ saved'[r] = saved[r] \/ (process # "down" /\ wire'[r] # wire[r] /\ artifact'[r] = status'[r])
         /\ offset'[r] = IF process = "down" /\ process' = "up" THEN Restores(r) ELSE offset[r]
<1>1. saved'[r] \in Checkpointed(r)
  BY DEF RunStep
<1>2. saved'[r] = saved[r] \/ (process # "down" /\ wire'[r] # wire[r] /\ artifact'[r] = status'[r])
  BY <1>1 DEF Checkpointed
<1> QED
  BY <1>2 DEF RunStep

LEMMA NothingFromNothing ==
  ASSUME NEW h \in Seq(Kinds), NEW b \in Seq(Kinds), h \o b = << >>
  PROVE  h = << >>
<1>1. Len(h \o b) = Len(h) + Len(b) /\ Len(h) \in Nat /\ Len(b) \in Nat /\ Len(<< >>) = 0
  OBVIOUS
<1>2. Len(h) = 0
  BY <1>1
<1> QED
  BY <1>2

LEMMA ExitOf ==
  ASSUME Exit, NEW r \in Runs
  PROVE  /\ process = "closing" /\ process' = "down" /\ journal' = journal /\ answers' = answers
         /\ task[r] \in Idle /\ task'[r] = "none"
         /\ IF Abandoned(r) THEN status'[r] = "failed" /\ artifact'[r] \in {"failed", artifact[r]}
            ELSE status'[r] = status[r] /\ artifact'[r] = artifact[r] /\ wire'[r] = wire[r]
<1>1. process = "closing" /\ process' = "down" /\ journal' = journal /\ answers' = answers
  BY DEF Exit, MemoryLost, counters
<1>2. task[r] \in Idle /\ task'[r] = "none"
  BY DEF Exit, MemoryLost
<1>3. IF Abandoned(r) THEN status'[r] = "failed" ELSE status'[r] = status[r] /\ wire'[r] = wire[r]
  BY DEF Exit
<1>4. artifact'[r] = artifact[r] \/ artifact'[r] = IF Abandoned(r) THEN "failed" ELSE artifact[r]
  BY DEF Exit, Saved
<1> QED
  BY <1>1, <1>2, <1>3, <1>4

LEMMA RestartOf ==
  ASSUME SentInv, Restart, NEW r \in Runs
  PROVE  /\ process = "down" /\ process' = "up" /\ UNCHANGED <<journal, artifact, task, answers>>
         /\ task[r] = "none" /\ status'[r] = Restored(r) /\ wire'[r] = Projection(journal[r])
         /\ journal[r] = << >> => status'[r] = artifact[r] /\ wire'[r] = << >>
         /\ journal[r] # << >> => status'[r] \in Ends \cup {"awaiting_clarification"}
<1>1. /\ process = "down" /\ process' = "up" /\ UNCHANGED <<journal, artifact, task, answers>>
      /\ status'[r] = Restored(r) /\ wire'[r] = Projection(journal[r])
  BY DEF Restart, Replayed, durable, counters
<1>2. task[r] = "none"
  BY <1>1 DEF SentInv, KernelInv
<1>3. journal[r] = << >> => status'[r] = artifact[r] /\ wire'[r] = << >>
  BY <1>1, ProjectionOfNothing DEF Restored
<1>4. journal[r] # << >> => Restored(r) \in Ends \cup {"awaiting_clarification"}
  <2>1. journal[r] \in Seq(Kinds) /\ artifact[r] \in Statuses
    BY DEF SentInv, KernelInv, TypeOK
  <2>2. Refold(Projection(journal[r])) \in Ends \cup {"awaiting_clarification"}
    BY <2>1, RefoldedWasAsked
  <2> QED
    BY <2>1, <2>2 DEF Restored, Statuses
<1> QED
  BY <1>1, <1>2, <1>3, <1>4

LEMMA UnheardNext ==
  ASSUME StreamInv, SentInv', RunStep, NEW r \in Runs
  PROVE  Unheard(r)'
<1> USE DEF StreamInv
<1>1. Unheard(r) /\ Next
  BY DEF RunStep
<1>2. /\ saved'[r] = saved[r] \/ (process # "down" /\ wire'[r] # wire[r] /\ artifact'[r] = status'[r])
      /\ offset'[r] = IF process = "down" /\ process' = "up" THEN Restores(r) ELSE offset[r]
  BY IdsKept
<1>3. CASE Untouched(r)
  <2>1. saved'[r] = saved[r] /\ offset'[r] = offset[r]
    BY <1>2, <1>3 DEF Untouched
  <2> QED
    BY <1>1, <1>3, <2>1 DEF Untouched, Unheard
<1>4. CASE Requested(r)
  <2>1. saved'[r] = saved[r] /\ offset'[r] = offset[r]
    BY <1>2, <1>4 DEF Requested
  <2>2. status[r] \notin Ends /\ status'[r] \notin Ends
    BY <1>4 DEF Requested, InProgress, Ends
  <2> QED
    BY <1>1, <1>4, <2>1, <2>2 DEF Requested, Unheard
<1>5. CASE Worked(r)
  <2>1. offset'[r] = offset[r] /\ task[r] # "none" /\ process # "down"
    BY <1>2, <1>5 DEF Worked, Idle
  <2>2. offset[r] = 0
    BY <1>1, <2>1 DEF Unheard
  <2>3. ASSUME journal'[r] = << >>
        PROVE  /\ journal[r] = << >> /\ saved[r] = 0
               /\ \/ wire'[r] = wire[r] /\ status'[r] \notin Ends
                  \/ wire'[r] # << >> /\ status'[r] = "failed" /\ task'[r] = "done"
    <3>1. journal[r] = << >>
      BY <1>5, <2>3, NothingFromNothing DEF Worked, SentInv, KernelInv, TypeOK
    <3>2. saved[r] = 0
      BY <1>1, <1>5, <3>1 DEF Worked, Unheard
    <3> QED
      BY <1>5, <2>3, <3>1, <3>2 DEF Worked, InProgress, Ends
  <2>4. ASSUME journal'[r] = << >>, saved'[r] # 0
        PROVE  artifact'[r] \in Ends /\ task'[r] \in Idle /\ status'[r] \in Ends
    BY <1>2, <2>3, <2>4 DEF Idle, Ends
  <2> QED
    BY <2>1, <2>2, <2>3, <2>4 DEF Unheard
<1>6. CASE Close
  <2>1. /\ process = "up" /\ process' = "closing"
        /\ UNCHANGED <<journal, artifact, status, wire, task>>
    BY <1>6 DEF Close, durable, store
  <2>2. saved'[r] = saved[r] /\ offset'[r] = offset[r]
    BY <1>2, <2>1
  <2> QED
    BY <1>1, <2>1, <2>2 DEF Unheard
<1>7. CASE Crash
  <2>1. process # "down" /\ process' = "down" /\ UNCHANGED <<journal, artifact, wire>>
    BY <1>7 DEF Crash, MemoryLost, durable, store
  <2>2. saved'[r] = saved[r]
    BY <1>2, <2>1
  <2> QED
    BY <1>1, <2>1, <2>2 DEF Unheard
<1>8. CASE Exit
  <2>1. /\ process = "closing" /\ process' = "down" /\ journal' = journal
        /\ IF Abandoned(r) THEN status'[r] = "failed" /\ artifact'[r] \in {"failed", artifact[r]}
           ELSE status'[r] = status[r] /\ artifact'[r] = artifact[r] /\ wire'[r] = wire[r]
    BY <1>8, ExitOf
  <2>2. ASSUME journal[r] = << >>, saved'[r] # 0 PROVE artifact'[r] \in Ends
    <3>1. CASE Abandoned(r)
      <4>1. saved[r] = 0
        BY <1>1, <2>1, <2>2, <3>1 DEF Unheard, Abandoned, Ends
      <4> QED
        BY <1>2, <2>1, <2>2, <3>1, <4>1 DEF Ends
    <3>2. CASE ~Abandoned(r)
      BY <1>1, <1>2, <2>1, <2>2, <3>2 DEF Unheard
    <3> QED
      BY <3>1, <3>2
  <2> QED
    BY <2>1, <2>2 DEF Unheard
<1>9. CASE Restart
  <2>1. /\ process = "down" /\ process' = "up" /\ UNCHANGED <<journal, artifact, task>> /\ task[r] = "none"
        /\ journal[r] = << >> => status'[r] = artifact[r] /\ wire'[r] = << >>
    BY <1>9, RestartOf
  <2>2. saved'[r] = saved[r] /\ offset'[r] = Restores(r)
    BY <1>2, <2>1
  <2>3. offset'[r] # 0 => journal[r] = << >> /\ saved[r] # 0
    BY <2>2 DEF Restores
  <2> QED
    BY <1>1, <2>1, <2>2, <2>3 DEF Unheard, Idle
<1> QED
  BY <1>1, <1>3, <1>4, <1>5, <1>6, <1>7, <1>8, <1>9, StepOf

\* A Run with nothing to come stays as it is until it is resumed.
LEMMA StillNext ==
  ASSUME SentInv, SentInv', Next, NEW r \in Runs, Still(r), answers'[r] = answers[r]
  PROVE  journal'[r] = journal[r] /\ Still(r)'
<1>1. answers[r] \in Nat /\ journal[r] \in Seq(Kinds)
  BY LifecycleAssumption DEF SentInv, KernelInv, TypeOK
<1>2. CASE Untouched(r)
  BY <1>2 DEF Untouched, Still
<1>3. CASE Requested(r)
  <2>1. Over(journal[r])
    BY <1>1, <1>3 DEF Requested, Still, Ends
  <2> QED
    BY <1>3, <2>1 DEF Requested, Still
<1>4. CASE Worked(r)
  <2>1. Over(journal[r])
    BY <1>4 DEF Worked, Still
  <2>2. journal'[r] = journal[r] \o << >>
    BY <1>4, <2>1 DEF Worked
  <2>3. journal'[r] = journal[r]
    BY <1>1, <2>2
  <2> QED
    BY <2>1, <2>3 DEF Still
<1>5. CASE Close
  <2>1. process = "up" /\ process' = "closing" /\ UNCHANGED <<journal, artifact, status, task>>
    BY <1>5 DEF Close, durable, store
  <2> QED
    BY <2>1 DEF Still
<1>6. CASE Crash
  <2>1. process' = "down" /\ task'[r] = "none" /\ UNCHANGED <<journal, artifact>>
    BY <1>6 DEF Crash, MemoryLost, durable
  <2> QED
    BY <2>1 DEF Still, Idle
<1>7. CASE Exit
  <2>1. /\ process = "closing" /\ process' = "down" /\ journal' = journal /\ task'[r] = "none"
        /\ IF Abandoned(r) THEN status'[r] = "failed" /\ artifact'[r] \in {"failed", artifact[r]}
           ELSE status'[r] = status[r] /\ artifact'[r] = artifact[r] /\ wire'[r] = wire[r]
    BY <1>7, ExitOf
  <2>2. artifact[r] \in Ends => artifact'[r] \in Ends
    BY <2>1 DEF Ends
  <2> QED
    BY <2>1, <2>2 DEF Still, Idle
<1>8. CASE Restart
  <2>1. /\ process = "down" /\ process' = "up" /\ UNCHANGED <<journal, artifact, task>>
        /\ journal[r] = << >> => status'[r] = artifact[r]
        /\ journal[r] # << >> => status'[r] \in Ends \cup {"awaiting_clarification"}
    BY <1>8, RestartOf
  <2> QED
    BY <2>1 DEF Still
<1> QED
  BY <1>2, <1>3, <1>4, <1>5, <1>6, <1>7, <1>8, StepOf

LEMMA RunGrows ==
  ASSUME SentInv, SentInv', Next, NEW r \in Runs
  PROVE  /\ \E b \in Seq(Kinds) : journal'[r] = journal[r] \o b
         /\ process # "down" /\ process' # "down" => \E w \in Seq(Wires) : wire'[r] = wire[r] \o w
         /\ process = "down" /\ process' # "down" => wire'[r] = Projection(journal'[r])
         /\ answers[r] <= answers'[r] /\ answers[r] \in Nat /\ answers'[r] \in Nat
<1> DEFINE JournalGrows == \E b \in Seq(Kinds) : journal'[r] = journal[r] \o b
           WireGrows == process # "down" /\ process' # "down" => \E w \in Seq(Wires) : wire'[r] = wire[r] \o w
           WireIsBack == process = "down" /\ process' # "down" => wire'[r] = Projection(journal'[r])
<1>1. answers[r] \in Nat /\ answers'[r] \in Nat /\ journal[r] \in Seq(Kinds)
  BY LifecycleAssumption DEF SentInv, KernelInv, TypeOK
<1>2. journal'[r] = journal[r] => JournalGrows
  <2>1. journal[r] = journal[r] \o << >> /\ << >> \in Seq(Kinds)
    BY <1>1
  <2> QED
    BY <2>1
<1>3. wire'[r] = wire[r] => WireGrows
  <2>1. process # "down" => wire[r] \in Seq(Wires)
    BY WireIsPart
  <2>2. process # "down" => wire[r] = wire[r] \o << >> /\ << >> \in Seq(Wires)
    BY <2>1
  <2> QED
    BY <2>2
<1>4. CASE Untouched(r) \/ Requested(r) \/ Close
  <2>1. journal'[r] = journal[r] /\ wire'[r] = wire[r]
    BY <1>4 DEF Untouched, Requested, Close, durable, store
  <2>2. JournalGrows /\ WireGrows
    BY <1>2, <1>3, <2>1
  <2>3. WireIsBack
    BY <1>4 DEF Untouched, Requested, Close
  <2>4. answers'[r] = answers[r] \/ answers'[r] = answers[r] + 1
    BY <1>4 DEF Untouched, Requested, Close
  <2>5. answers[r] <= answers'[r]
    BY <1>1, <2>4
  <2> QED
    BY <1>1, <2>2, <2>3, <2>5
<1>5. CASE Worked(r)
  <2>1. JournalGrows /\ WireGrows /\ WireIsBack
    BY <1>5 DEF Worked
  <2>2. answers[r] <= answers'[r]
    BY <1>1, <1>5 DEF Worked
  <2> QED
    BY <1>1, <2>1, <2>2
<1>6. CASE Crash \/ Exit
  <2>1. process # "down" /\ process' = "down" /\ journal' = journal /\ answers' = answers
    BY <1>6, ExitOf DEF Crash, MemoryLost, durable
  <2>2. JournalGrows
    BY <1>2, <2>1
  <2>3. answers[r] <= answers'[r]
    BY <1>1, <2>1
  <2> QED
    BY <1>1, <2>1, <2>2, <2>3
<1>7. CASE Restart
  <2>1. process = "down" /\ process' = "up" /\ UNCHANGED <<journal, answers>> /\ wire'[r] = Projection(journal[r])
    BY <1>7, RestartOf
  <2>2. JournalGrows
    BY <1>2, <2>1
  <2>3. answers[r] <= answers'[r]
    BY <1>1, <2>1
  <2> QED
    BY <1>1, <2>1, <2>2, <2>3
<1> QED
  BY <1>4, <1>5, <1>6, <1>7, StepOf

LEMMA ClearTyped ==
  ASSUME NEW g \in Seq(Wires)
  PROVE  Clear(g) \in Seq(Wires)
<1>1. Len(g) \in Nat /\ 1 \in Int /\ Len(g) \in Int
  OBVIOUS
<1>2. IsFiniteSet(1..Len(g)) /\ Cardinality(1..Len(g)) = IF 1 > Len(g) THEN 0 ELSE Len(g) - 1 + 1
  BY <1>1, FS_Interval
<1>3. Cardinality(1..Len(g)) = Len(g)
  BY <1>1, <1>2
<1>4. WithoutError(g) \subseteq 1..Len(g)
  BY DEF WithoutError
<1>5. IsFiniteSet(WithoutError(g)) /\ Cardinality(WithoutError(g)) <= Len(g)
  BY <1>2, <1>3, <1>4, FS_Subset
<1>6. Cardinality(WithoutError(g)) \in 0..Len(g)
  <2>1. Cardinality(WithoutError(g)) \in Nat
    BY <1>5, FS_CardinalityType
  <2> QED
    BY <1>1, <1>5, <2>1
<1>7. \A k \in 0..Len(g) : SubSeq(g, 1, k) \in Seq(Wires)
  OBVIOUS
<1> QED
  BY <1>6, <1>7 DEF Clear

\* A client without an error has a part of the journal.
LEMMA CleanIsPrefix ==
  ASSUME SentInv, NEW r \in Runs, process # "down", NEW s \in Seq(Wires), IsPrefix(s, wire[r]), "error" \notin ToSet(s)
  PROVE  IsPrefix(s, Projection(journal[r]))
<1>1. journal[r] \in Seq(Kinds)
  BY DEF SentInv, KernelInv, TypeOK
<1>2. PICK n \in 0..Len(journal[r]) : Streamed(r, n) \/ BrokenOff(r, n)
  BY WireIsPart
<1> DEFINE p == Projection(SubSeq(journal[r], 1, n))
<1>3. p \in Seq(Wires)
  BY <1>1, ProjectionOfPrefix
<1>4. IsPrefix(s, p)
  <2>1. wire[r] = p \/ wire[r] = p \o GivenUp
    BY <1>2 DEF Streamed, BrokenOff
  <2> HIDE DEF p
  <2> QED
    BY <1>3, <2>1, PrefixWithoutError
<1> QED
  BY <1>1, <1>4, PrefixOfPart

LEMMA TellsRunStep ==
  ASSUME StreamInv, SentInv', RunStep, NEW c \in Clients
  PROVE  Tells(c)'
<1> DEFINE r == Follows[c]
           g == got[c]
<1>1. r \in Runs /\ g \in Seq(Wires) /\ SentInv /\ StreamTyped /\ Tells(c) /\ Next
  BY StreamAssumption DEF StreamInv, StreamTyped, RunStep
<1>2. /\ cursor'[c] = cursor[c] /\ upto'[c] = upto[c] /\ got'[c] = g /\ round'[c] = round[c]
      /\ phase'[c] = IF process' = "down" /\ phase[c] \in Connected THEN "away"
                     ELSE IF phase[c] = "waiting" /\ Wakes(Follows[c]) THEN "ready" ELSE phase[c]
  BY DEF RunStep
<1>3. /\ phase'[c] \in Connected => phase[c] \in Connected /\ process' # "down"
      /\ phase'[c] = "yielding" => phase[c] = "yielding"
      /\ phase'[c] = "over" => phase[c] = "over"
  BY <1>2 DEF Connected
<1> HIDE DEF r, g
<1>4. /\ \E b \in Seq(Kinds) : journal'[r] = journal[r] \o b
      /\ process # "down" /\ process' # "down" => \E w \in Seq(Wires) : wire'[r] = wire[r] \o w
      /\ process = "down" /\ process' # "down" => wire'[r] = Projection(journal'[r])
      /\ answers[r] <= answers'[r] /\ answers[r] \in Nat /\ answers'[r] \in Nat
  BY <1>1, RunGrows
<1>5. IsPrefix(Clear(g), Projection(journal'[r]))
  <2>1. PICK b \in Seq(Kinds) : journal'[r] = journal[r] \o b
    BY <1>4
  <2>2. journal[r] \in Seq(Kinds) /\ Clear(g) \in Seq(Wires) /\ IsPrefix(Clear(g), Projection(journal[r]))
    <3>1. journal[r] \in Seq(Kinds)
      BY <1>1 DEF SentInv, KernelInv, TypeOK
    <3>2. IsPrefix(Clear(g), Projection(journal[r]))
      BY <1>1 DEF Tells, r, g
    <3>3. Clear(g) \in Seq(Wires)
      BY <1>1, ClearTyped
    <3> QED
      BY <3>1, <3>2, <3>3
  <2> QED
    BY <2>1, <2>2, PrefixOfMore
<1>6. ASSUME process' # "down", "error" \notin ToSet(g)
      PROVE  IsPrefix(g, wire'[r])
  <2>1. CASE process = "down"
    <3>1. Clear(g) = g
      BY <1>1, <1>6, ClearOfClean
    <3> QED
      BY <1>4, <1>5, <1>6, <2>1, <3>1
  <2>2. CASE process # "down"
    <3>1. PICK w \in Seq(Wires) : wire'[r] = wire[r] \o w
      BY <1>4, <1>6, <2>2
    <3>2. IsPrefix(g, wire[r])
      BY <1>1, <1>6, <2>2 DEF Tells, Clean, r, g
    <3>3. wire[r] \in Seq(Wires)
      BY <1>1, <2>2, WireIsPart
    <3> QED
      BY <1>1, <3>1, <3>2, <3>3, PrefixExtends
  <2> QED
    BY <2>1, <2>2
<1>7. ASSUME phase'[c] = "yielding"
      PROVE  cursor'[c] < upto'[c] /\ upto'[c] <= Len(wire'[r]) /\ offset'[r] = 0
  <2>1. process # "down" /\ process' # "down" /\ cursor[c] < upto[c] /\ upto[c] <= Len(wire[r]) /\ offset[r] = 0
    BY <1>1, <1>3, <1>7 DEF Tells, Connected, r
  <2>2. PICK w \in Seq(Wires) : wire'[r] = wire[r] \o w
    BY <1>4, <2>1
  <2>3. wire[r] \in Seq(Wires) /\ upto[c] \in Nat
    BY <1>1, <2>1, WireIsPart DEF StreamTyped
  <2>4. Len(wire'[r]) = Len(wire[r]) + Len(w) /\ Len(wire[r]) \in Nat /\ Len(w) \in Nat
    BY <2>2, <2>3, ConcatAt
  <2>5. upto[c] <= Len(wire'[r])
    BY <2>1, <2>3, <2>4
  <2>6. offset'[r] = 0
    BY <1>1, <2>1, IdsKept
  <2> QED
    BY <1>2, <2>1, <2>5, <2>6
<1>8. round'[c] <= answers'[r] /\ (round'[c] = answers'[r] => answers'[r] = answers[r])
  <2>1. round[c] <= answers[r] /\ round[c] \in Nat
    BY <1>1 DEF Tells, StreamTyped, r
  <2> QED
    BY <1>2, <1>4, <2>1
<1>9. ASSUME phase'[c] = "over", round'[c] = answers'[r], "error" \notin ToSet(g)
      PROVE  g = Projection(journal'[r]) /\ Still(r)'
  <2>1. answers'[r] = answers[r] /\ phase[c] = "over" /\ round[c] = answers[r]
    BY <1>2, <1>3, <1>8, <1>9
  <2>2. g = Projection(journal[r]) /\ Still(r)
    BY <1>1, <1>9, <2>1 DEF Tells, Clean, r, g
  <2>3. journal'[r] = journal[r] /\ Still(r)'
    BY <1>1, <2>1, <2>2, StillNext
  <2> QED
    BY <2>2, <2>3
<1>10. phase'[c] \in Connected => process' # "down" /\ cursor'[c] = Len(got'[c])
  BY <1>1, <1>2, <1>3 DEF Tells, g
<1>11. Clean(c)' <=> "error" \notin ToSet(g)
  BY <1>2 DEF Clean
<1>12. Still(r)' = Still(Follows[c])'
  BY DEF r
<1> QED
  BY <1>2, <1>5, <1>6, <1>7, <1>8, <1>9, <1>10, <1>11, <1>12 DEF Tells, r

-----------------------------------------------------------------------------
(* A step of a client and its stream.                                      *)

\* Nothing happens to client c.
SameClient(c) ==
  /\ UNCHANGED <<vars, ids>>
  /\ phase'[c] = phase[c] /\ cursor'[c] = cursor[c] /\ upto'[c] = upto[c] /\ got'[c] = got[c] /\ round'[c] = round[c]

RunSame == UNCHANGED <<journal, artifact, process, status, wire, task, answers, offset, saved>>

LEMMA TellsSame ==
  ASSUME NEW c \in Clients, Tells(c), SameClient(c)
  PROVE  Tells(c)'
<1>1. RunSame
  BY DEF SameClient, RunSame, vars, ids, durable, store, counters
<1>2. Still(Follows[c])' = Still(Follows[c])
  BY <1>1 DEF Still, RunSame
<1>3. Clean(c)' = Clean(c)
  BY DEF SameClient, Clean
<1> QED
  BY <1>1, <1>2, <1>3 DEF Tells, SameClient, RunSame

LEMMA TellsConnect ==
  ASSUME StreamInv, NEW c \in Clients, Connect(c)
  PROVE  Tells(c)'
<1>1. /\ phase'[c] \in {"ready", "refused"} /\ cursor'[c] = Len(got[c]) /\ got' = got /\ round' = round
      /\ process # "down"
  BY DEF Connect, StreamInv, StreamTyped
<1>2. RunSame
  BY DEF Connect, RunSame, vars, ids, durable, store, counters
<1>3. Tells(c)
  BY DEF StreamInv
<1>4. Clean(c)' = Clean(c)
  BY <1>1 DEF Clean
<1> QED
  BY <1>1, <1>2, <1>3, <1>4 DEF Tells, RunSame

LEMMA TellsDrop ==
  ASSUME StreamInv, NEW c \in Clients, Drop(c)
  PROVE  Tells(c)'
<1>1. phase'[c] = "away" /\ got' = got /\ round' = round
  BY DEF Drop, StreamInv, StreamTyped
<1>2. RunSame
  BY DEF Drop, RunSame, vars, ids, durable, store, counters
<1>3. Tells(c)
  BY DEF StreamInv
<1>4. Clean(c)' = Clean(c)
  BY <1>1 DEF Clean
<1> QED
  BY <1>1, <1>2, <1>3, <1>4 DEF Tells, RunSame, Connected

\* Ids that a restart kept are those of a Run whose stream is empty.
LEMMA FromCursorOn ==
  ASSUME StreamInv, NEW c \in Clients, phase[c] \in Connected
  PROVE  /\ Len(wire[Follows[c]]) \in Nat /\ cursor[c] = Len(got[c]) /\ cursor[c] \in Nat /\ From(c) \in Nat
         /\ offset[Follows[c]] = 0 => From(c) = cursor[c]
         /\ offset[Follows[c]] # 0 => Len(wire[Follows[c]]) = 0
<1> DEFINE r == Follows[c]
<1>1. r \in Runs /\ SentInv /\ StreamTyped /\ Tells(c) /\ Unheard(r)
  BY StreamAssumption DEF StreamInv
<1>2. process # "down" /\ cursor[c] = Len(got[c])
  BY <1>1 DEF Tells
<1>3. cursor[c] \in Nat /\ offset[r] \in Nat
  BY <1>1 DEF StreamTyped
<1>4. wire[r] \in Seq(Wires)
  BY <1>1, <1>2, WireIsPart
<1>5. Len(wire[r]) \in Nat
  BY <1>4
<1>6. From(c) \in Nat /\ (offset[r] = 0 => From(c) = cursor[c])
  BY <1>3 DEF From
<1>7. offset[r] # 0 => Len(wire[r]) = 0
  <2>1. offset[r] # 0 => wire[r] = << >>
    BY <1>1, <1>2 DEF Unheard
  <2>2. Len(<< >>) = 0
    OBVIOUS
  <2> QED
    BY <2>1, <2>2
<1> QED
  BY <1>2, <1>3, <1>5, <1>6, <1>7

\* A stream that ends for want of events has told all there is.
LEMMA SettledIsAll ==
  ASSUME StreamInv, NEW c \in Clients, phase[c] = "ready", ~Available(c), Settled(c), Clean(c)
  PROVE  got[c] = Projection(journal[Follows[c]]) /\ Still(Follows[c])
<1> DEFINE r == Follows[c]
           g == got[c]
           h == journal[r]
           p == Projection(h)
<1>1. r \in Runs /\ SentInv /\ Tells(c) /\ Unheard(r) /\ g \in Seq(Wires) /\ h \in Seq(Kinds) /\ Legal(h)
      /\ "error" \notin ToSet(g)
  BY StreamAssumption DEF StreamInv, StreamTyped, SentInv, KernelInv, TypeOK, Sound, Clean
<1>2. process # "down" /\ IsPrefix(g, wire[r])
  BY <1>1 DEF Tells, Connected
<1>3. wire[r] \in Seq(Wires)
  BY <1>1, <1>2, WireIsPart
<1>4. Len(wire[r]) <= Len(g)
  <2>1. /\ Len(wire[r]) \in Nat /\ cursor[c] = Len(g) /\ cursor[c] \in Nat /\ From(c) \in Nat
        /\ offset[r] = 0 => From(c) = cursor[c]
        /\ offset[r] # 0 => Len(wire[r]) = 0
    BY FromCursorOn DEF Connected
  <2>2. ~(From(c) < Len(wire[r]))
    BY DEF Available
  <2> HIDE DEF r, g
  <2> QED
    BY <2>1, <2>2
<1>5. g = wire[r]
  BY <1>1, <1>2, <1>3, <1>4, PrefixWhole
<1>6. p \in Seq(Wires) /\ IsPrefix(g, p)
  BY <1>1, <1>2, CleanIsPrefix, ProjectionIsSequence
<1>7. CASE wire[r] # << >> /\ Last(wire[r]) \in Done
  <2>1. g = p /\ Over(h)
    BY <1>1, <1>5, <1>6, <1>7, DoneIsWhole DEF Done
  <2> QED
    BY <2>1 DEF Still
<1>8. CASE ~(wire[r] # << >> /\ Last(wire[r]) \in Done)
  <2>1. status[r] \in Ends \cup {"awaiting_clarification"}
    BY <1>8 DEF Settled
  <2>2. task[r] \in Idle
    BY <1>1, <2>1 DEF SentInv, Sent, InProgress, Ends
  <2>3. Streamed(r, Len(h))
    <3>1. ASSUME NEW n \in 0..Len(h), BrokenOff(r, n) PROVE FALSE
      <4> DEFINE q == Projection(SubSeq(h, 1, n))
      <4>1. q \in Seq(Wires) /\ g = q \o GivenUp
        BY <1>1, <1>5, <3>1, ProjectionOfPrefix DEF BrokenOff
      <4>2. "error" \in ToSet(g)
        BY <4>1, GivenUpHasError
      <4> QED
        BY <1>1, <4>2
    <3> QED
      BY <1>1, <1>2, <2>2, <3>1 DEF SentInv, Sent, Idle
  <2>4. wire[r] = p
    BY <1>1, <2>3, WholePrefix DEF Streamed
  <2>5. h = << >> => artifact[r] \in Ends
    <3> SUFFICES ASSUME h = << >> PROVE artifact[r] \in Ends
      OBVIOUS
    <3>1. wire[r] = << >>
      BY <2>4, ProjectionOfNothing
    <3>2. status[r] # "awaiting_clarification"
      <4>1. status[r] = "awaiting_clarification" => "asked" \in ToSet(h)
        BY <1>1 DEF SentInv, KernelInv, Sound, Asked
      <4>2. ToSet(<< >>) = {}
        BY DEF ToSet
      <4> QED
        BY <4>1, <4>2
    <3> QED
      BY <1>1, <1>2, <2>1, <3>1, <3>2 DEF Unheard
  <2>6. Still(r)
    BY <2>1, <2>2, <2>5 DEF Still
  <2> QED
    BY <1>5, <2>4, <2>6
<1> QED
  BY <1>7, <1>8

LEMMA TellsLook ==
  ASSUME StreamInv, NEW c \in Clients, Look(c)
  PROVE  Tells(c)'
<1> DEFINE r == Follows[c]
<1>1. r \in Runs /\ SentInv /\ StreamTyped /\ Tells(c) /\ phase[c] = "ready" /\ process # "down"
      /\ cursor[c] = Len(got[c])
  BY StreamAssumption DEF StreamInv, Look, Tells, Connected
<1>2. RunSame /\ cursor' = cursor /\ got' = got
  BY DEF Look, RunSame, vars, ids, durable, store, counters
<1>3. Still(r)' = Still(r) /\ Clean(c)' = Clean(c)
  BY <1>2 DEF Still, RunSame, Clean
<1>4. answers[r] \in Nat
  BY <1>1, LifecycleAssumption DEF SentInv, KernelInv, TypeOK
<1>5. CASE Available(c)
  <2>1. phase'[c] = "yielding" /\ upto'[c] = LastId(r) /\ round' = round
    BY <1>1, <1>5 DEF Look, StreamTyped
  <2>2. cursor[c] < upto'[c] /\ upto'[c] <= Len(wire[r]) /\ offset[r] = 0
    <3>1. /\ Len(wire[r]) \in Nat /\ cursor[c] \in Nat /\ From(c) \in Nat
          /\ offset[r] = 0 => From(c) = cursor[c]
          /\ offset[r] # 0 => Len(wire[r]) = 0
      BY <1>1, FromCursorOn DEF Connected
    <3>2. From(c) < Len(wire[r])
      BY <1>5 DEF Available
    <3>3. offset[r] = 0
      BY <3>1, <3>2
    <3>4. upto'[c] = offset[r] + Len(wire[r])
      BY <2>1 DEF LastId
    <3> HIDE DEF r
    <3> QED
      BY <3>1, <3>2, <3>3, <3>4
  <2> QED
    BY <1>1, <1>2, <1>3, <2>1, <2>2 DEF Tells, RunSame, Connected
<1>6. CASE ~Available(c)
  <2>1. phase'[c] = (IF Settled(c) THEN "over" ELSE "waiting") /\ round'[c] = answers[r]
    BY <1>1, <1>6 DEF Look, StreamTyped
  <2>2. phase'[c] = "over" /\ Clean(c) => got[c] = Projection(journal[r]) /\ Still(r)
    BY <1>1, <1>6, <2>1, SettledIsAll
  <2>3. phase'[c] # "yielding" /\ round'[c] <= answers[r]
    BY <1>4, <2>1
  <2> QED
    BY <1>1, <1>2, <1>3, <2>2, <2>3 DEF Tells, RunSame, Connected
<1> QED
  BY <1>5, <1>6

LEMMA TellsYield ==
  ASSUME StreamInv, NEW c \in Clients, Yield(c)
  PROVE  Tells(c)'
<1> DEFINE r == Follows[c]
           g == got[c]
           at == From(c) + 1
           event == wire[r][at]
           m == Append(g, event)
<1>1. r \in Runs /\ SentInv /\ StreamTyped /\ Tells(c) /\ phase[c] = "yielding" /\ g \in Seq(Wires)
  BY StreamAssumption DEF StreamInv, StreamTyped, Yield
<1>2. /\ process # "down" /\ cursor[c] = Len(g) /\ cursor[c] < upto[c] /\ upto[c] <= Len(wire[r])
      /\ offset[r] = 0
  BY <1>1 DEF Tells, Connected
<1>3. wire[r] \in Seq(Wires)
  BY <1>1, <1>2, WireIsPart
<1>4. From(c) = Len(g) /\ Len(g) \in Nat /\ Len(wire[r]) \in Nat /\ upto[c] \in Nat
  <2>1. From(c) = cursor[c]
    BY <1>1, <1>2, FromCursorOn DEF Connected
  <2> QED
    BY <1>1, <1>2, <1>3, <2>1 DEF StreamTyped
<1>5. at = Len(g) + 1 /\ at \in 1..Len(wire[r]) /\ at <= upto[c] /\ at \in Nat
  BY <1>2, <1>4
<1>6. event \in Wires
  BY <1>3, <1>5
<1>7. RunSame /\ upto' = upto
  BY DEF Yield, RunSame, vars, ids, durable, store, counters
<1>8. /\ cursor'[c] = at /\ got'[c] = m /\ round'[c] = answers[r]
      /\ phase'[c] = IF event \in Done THEN "over" ELSE IF at = upto[c] THEN "ready" ELSE "yielding"
  <2>1. offset[r] + at = at
    BY <1>2, <1>5
  <2>2. cursor'[c] = offset[r] + at /\ got'[c] = m /\ round'[c] = answers[r]
    BY <1>1 DEF Yield, StreamTyped
  <2>3. phase'[c] = IF event \in Done THEN "over" ELSE IF offset[r] + at = upto[c] THEN "ready" ELSE "yielding"
    BY <1>1 DEF Yield, StreamTyped
  <2> QED
    BY <2>1, <2>2, <2>3
<1>9. Still(r)' = Still(r)
  BY <1>7 DEF Still, RunSame
<1> HIDE DEF r, g, at, event
<1>10. m \in Seq(Wires) /\ Len(m) = Len(g) + 1 /\ m # << >> /\ Last(m) = event /\ (\A i \in 1..Len(g) : m[i] = g[i])
       /\ m[Len(g) + 1] = event
  BY <1>1, <1>6 DEF Last
<1>11. ToSet(g) \subseteq ToSet(m)
  <2>1. DOMAIN g = 1..Len(g) /\ DOMAIN m = 1..(Len(g) + 1)
    BY <1>1, <1>10
  <2> QED
    BY <1>4, <1>10, <2>1 DEF ToSet
<1> HIDE DEF m
<1>12. ASSUME "error" \notin ToSet(m)
       PROVE  IsPrefix(m, wire[r]) /\ IsPrefix(m, Projection(journal[r]))
  <2>1. IsPrefix(g, wire[r])
    BY <1>1, <1>2, <1>11, <1>12 DEF Tells, Clean, r, g
  <2>2. \A i \in 1..Len(g) : g[i] = wire[r][i]
    BY <1>1, <1>3, <2>1, PrefixAt
  <2>3. \A i \in 1..Len(m) : m[i] = wire[r][i]
    <3>1. \A i \in 1..Len(m) : i \in 1..Len(g) \/ i = Len(g) + 1
      BY <1>4, <1>10
    <3>2. m[Len(g) + 1] = wire[r][Len(g) + 1]
      BY <1>5, <1>10 DEF event
    <3> QED
      BY <1>10, <2>2, <3>1, <3>2
  <2>4. Len(m) <= Len(wire[r])
    BY <1>5, <1>10
  <2>5. IsPrefix(m, wire[r])
    BY <1>3, <1>10, <2>3, <2>4, PrefixAt
  <2> QED
    BY <1>1, <1>2, <1>10, <1>12, <2>5, CleanIsPrefix
<1>13. IsPrefix(Clear(m), Projection(journal[r]))
  <2>1. CASE "error" \in ToSet(m)
    <3>1. Clear(m) = Clear(g)
      BY <1>1, <1>6, <2>1, ClearStays DEF m
    <3> QED
      BY <1>1, <3>1 DEF Tells, r, g
  <2>2. CASE "error" \notin ToSet(m)
    BY <1>10, <1>12, <2>2, ClearOfClean
  <2> QED
    BY <2>1, <2>2
<1>14. ASSUME event \in Done, "error" \notin ToSet(m)
       PROVE  m = Projection(journal[r]) /\ Still(r)
  <2>1. journal[r] \in Seq(Kinds) /\ Legal(journal[r])
    BY <1>1 DEF SentInv, KernelInv, TypeOK, Sound
  <2>2. m = Projection(journal[r]) /\ Over(journal[r])
    BY <1>10, <1>12, <1>14, <2>1, DoneIsWhole DEF Done
  <2> QED
    BY <2>2 DEF Still
<1>15. phase'[c] = "yielding" => at < upto[c]
  BY <1>4, <1>5, <1>8
<1>16. phase'[c] = "over" => event \in Done
  BY <1>8
<1>17. Clean(c)' <=> "error" \notin ToSet(m)
  BY <1>8 DEF Clean
<1>18. round'[c] <= answers[r]
  <2>1. answers[r] \in Nat
    BY <1>1, LifecycleAssumption DEF SentInv, KernelInv, TypeOK
  <2> QED
    BY <1>8, <2>1
<1>19. cursor'[c] = Len(got'[c])
  BY <1>5, <1>8, <1>10
<1>20. Still(Follows[c])' = Still(r)
  BY <1>9 DEF r
<1> QED
  BY <1>2, <1>7, <1>8, <1>12, <1>13, <1>14, <1>15, <1>16, <1>17, <1>18, <1>19, <1>20
  DEF Tells, RunSame, r

-----------------------------------------------------------------------------
(* Every step.                                                             *)

LEMMA WireStaysSequence ==
  ASSUME SentInv, SentInv', Next, process # "down", NEW r \in Runs
  PROVE  wire'[r] \in Seq(Wires)
<1>1. wire[r] \in Seq(Wires)
  BY WireIsPart
<1>2. CASE process' # "down"
  <2>1. PICK w \in Seq(Wires) : wire'[r] = wire[r] \o w
    BY <1>2, RunGrows
  <2> QED
    BY <1>1, <2>1
<1>3. CASE process' = "down"
  <2>1. Exit \/ Crash
    <3>1. Untouched(r) \/ Requested(r) \/ Worked(r) \/ Close \/ Exit \/ Crash \/ Restart
      BY StepOf
    <3> QED
      BY <1>3, <3>1 DEF Untouched, Requested, Worked, Close, Restart
  <2>2. wire'[r] = wire[r] \/ wire'[r] = wire[r] \o <<"error", "failed">>
    BY <2>1 DEF Exit, Crash, store
  <2>3. <<"error", "failed">> \in Seq(Wires)
    BY DEF Wires, Kinds, Ends
  <2> DEFINE w == <<"error", "failed">>
  <2>4. w \in Seq(Wires) /\ (wire'[r] = wire[r] \/ wire'[r] = wire[r] \o w)
    BY <2>2, <2>3
  <2> HIDE DEF w
  <2>5. wire[r] \o w \in Seq(Wires)
    BY <1>1, <2>4
  <2> QED
    BY <1>1, <2>4, <2>5
<1> QED
  BY <1>2, <1>3

LEMMA CheckpointsAreIds ==
  ASSUME StreamInv, SentInv', RunStep
  PROVE  UNION {Checkpointed(r) : r \in Runs} \subseteq Nat
<1>1. ASSUME NEW r \in Runs PROVE Checkpointed(r) \subseteq Nat
  <2>1. saved[r] \in Nat /\ offset[r] \in Nat
    BY DEF StreamInv, StreamTyped
  <2>2. process # "down" => wire'[r] \in Seq(Wires)
    BY WireStaysSequence DEF StreamInv, RunStep
  <2>3. process # "down" => offset[r] + Len(wire'[r]) \in Nat
    <3>1. process # "down" => Len(wire'[r]) \in Nat
      BY <2>2
    <3> QED
      BY <2>1, <3>1
  <2> QED
    BY <2>1, <2>3 DEF Checkpointed
<1> QED
  BY <1>1

LEMMA StreamTypedNext ==
  ASSUME StreamInv, SentInv', [StreamNext]_allVars
  PROVE  StreamTyped'
<1> USE DEF StreamInv, StreamTyped
<1>1. CASE UNCHANGED allVars
  BY <1>1 DEF allVars, ids, streams
<1>2. CASE RunStep
  <2>1. \A r \in Runs : offset'[r] \in Nat
    <3>1. \A r \in Runs : offset[r] \in Nat /\ Restores(r) \in Nat
      BY DEF Restores
    <3> QED
      BY <1>2, <3>1 DEF RunStep
  <2>2. offset' \in [Runs -> Nat]
    BY <1>2, <2>1 DEF RunStep
  <2>3. saved' \in [Runs -> Nat]
    <3>1. saved' \in [Runs -> UNION {Checkpointed(r) : r \in Runs}]
      BY <1>2 DEF RunStep
    <3>2. UNION {Checkpointed(r) : r \in Runs} \subseteq Nat
      BY <1>2, CheckpointsAreIds
    <3> QED
      BY <3>1, <3>2
  <2>4. phase' \in [Clients -> Phases]
    <3>1. \A c \in Clients : phase[c] \in Phases
      OBVIOUS
    <3> QED
      BY <1>2, <3>1 DEF RunStep, Phases
  <2> QED
    BY <1>2, <2>2, <2>3, <2>4 DEF RunStep
<1>3. ASSUME NEW c \in Clients, Connect(c) \/ Look(c) \/ Drop(c)
      PROVE  StreamTyped'
  <2>1. got' = got /\ offset' = offset /\ saved' = saved
    BY <1>3 DEF Connect, Look, Drop, ids
  <2>2. Len(got[c]) \in Nat /\ answers[Follows[c]] \in Nat
    BY StreamAssumption, LifecycleAssumption DEF SentInv, KernelInv, TypeOK
  <2>3. phase' \in [Clients -> Phases]
    BY <1>3 DEF Connect, Look, Drop, Phases
  <2>4. cursor' \in [Clients -> Nat] /\ round' \in [Clients -> Nat]
    BY <1>3, <2>2 DEF Connect, Look, Drop
  <2>5. upto' \in [Clients -> Nat]
    <3>1. CASE Look(c)
      <4>1. LastId(Follows[c]) \in Nat
        <5>1. phase[c] \in Connected /\ Follows[c] \in Runs
          BY <3>1, StreamAssumption DEF Look, Connected
        <5>2. Len(wire[Follows[c]]) \in Nat /\ offset[Follows[c]] \in Nat
          BY <5>1, FromCursorOn
        <5> QED
          BY <5>2 DEF LastId
      <4> QED
        BY <3>1, <4>1 DEF Look
    <3> QED
      BY <1>3, <3>1 DEF Connect, Drop
  <2> QED
    BY <2>1, <2>3, <2>4, <2>5
<1>4. ASSUME NEW c \in Clients, Yield(c)
      PROVE  StreamTyped'
  <2> DEFINE r == Follows[c]
             at == From(c) + 1
             event == wire[r][at]
  <2>1. r \in Runs /\ phase[c] = "yielding" /\ phase[c] \in Connected
    BY <1>4, StreamAssumption DEF Yield, Connected
  <2>2. Tells(c) /\ SentInv
    OBVIOUS
  <2>3. process # "down" /\ cursor[c] < upto[c] /\ upto[c] <= Len(wire[r]) /\ offset[r] = 0
    BY <2>1, <2>2 DEF Tells
  <2>4. wire[r] \in Seq(Wires)
    BY <2>1, <2>2, <2>3, WireIsPart
  <2>5. at \in 1..Len(wire[r]) /\ at \in Nat
    <3>1. From(c) = cursor[c] /\ cursor[c] \in Nat /\ upto[c] \in Nat /\ Len(wire[r]) \in Nat
      BY <2>1, <2>3, FromCursorOn
    <3> QED
      BY <2>3, <3>1
  <2>6. event \in Wires
    BY <2>4, <2>5
  <2>7. offset[r] + at \in Nat /\ answers[r] \in Nat
    <3>1. answers \in [Runs -> Nat]
      BY <2>2, LifecycleAssumption DEF SentInv, KernelInv, TypeOK
    <3>2. answers[r] \in Nat
      BY <2>1, <3>1
    <3> HIDE DEF r, at
    <3> QED
      BY <2>3, <2>5, <3>2
  <2>8. /\ cursor' = [cursor EXCEPT ![c] = offset[r] + at] /\ got' = [got EXCEPT ![c] = Append(got[c], event)]
        /\ round' = [round EXCEPT ![c] = answers[r]] /\ upto' = upto /\ offset' = offset /\ saved' = saved
    BY <1>4 DEF Yield, ids
  <2> HIDE DEF r, at, event
  <2>9. Append(got[c], event) \in Seq(Wires)
    BY <2>6
  <2>10. got' \in [Clients -> Seq(Wires)]
    BY <2>8, <2>9
  <2>11. cursor' \in [Clients -> Nat] /\ round' \in [Clients -> Nat]
    BY <2>7, <2>8
  <2>12. phase' \in [Clients -> Phases]
    BY <1>4 DEF Yield, Phases
  <2> QED
    BY <2>8, <2>10, <2>11, <2>12
<1> QED
  BY <1>1, <1>2, <1>3, <1>4 DEF StreamNext, StreamStep

LEMMA UnheardSame ==
  ASSUME NEW r \in Runs, Unheard(r), RunSame
  PROVE  Unheard(r)'
  BY DEF Unheard, RunSame

LEMMA StreamInvNext ==
  ASSUME StreamInv, [StreamNext]_allVars
  PROVE  StreamInv'
<1>1. RunStep \/ UNCHANGED <<vars, ids>>
  BY DEF StreamNext, StreamStep, Connect, Look, Yield, Drop, allVars
<1>2. SentInv'
  <2>1. RunStep => SentInv'
    BY SentInvNext DEF StreamInv, RunStep
  <2>2. UNCHANGED vars => SentInv'
    BY SentInvStays DEF StreamInv
  <2> QED
    BY <1>1, <2>1, <2>2
<1>3. StreamTyped'
  BY <1>2, StreamTypedNext
<1>4. CASE RunStep
  <2> QED
    BY <1>3, <1>4, <1>2, UnheardNext, TellsRunStep DEF StreamInv
<1>5. CASE UNCHANGED <<vars, ids>>
  <2>1. RunSame
    BY <1>5 DEF RunSame, vars, ids, durable, store, counters
  <2>2. \A r \in Runs : Unheard(r)'
    BY <2>1, UnheardSame DEF StreamInv
  <2>3. CASE UNCHANGED allVars
    <3>1. \A c \in Clients : SameClient(c)
      BY <1>5, <2>3 DEF SameClient, allVars, streams
    <3> QED
      BY <1>3, <1>2, <2>1, <2>2, <3>1, TellsSame DEF StreamInv
  <2>4. ASSUME NEW c \in Clients, Connect(c) \/ StreamStep(c) \/ Drop(c)
        PROVE  \A d \in Clients : Tells(d)'
    <3>1. Tells(c)'
      BY <2>4, TellsConnect, TellsLook, TellsYield, TellsDrop DEF StreamStep
    <3>2. ASSUME NEW d \in Clients \ {c} PROVE Tells(d)'
      <4>1. SameClient(d)
        <5>1. phase'[d] = phase[d] /\ cursor'[d] = cursor[d] /\ upto'[d] = upto[d]
          BY <2>4 DEF StreamInv, StreamTyped, StreamStep, Connect, Look, Yield, Drop
        <5>2. got'[d] = got[d] /\ round'[d] = round[d]
          BY <2>4 DEF StreamInv, StreamTyped, StreamStep, Connect, Look, Yield, Drop
        <5> QED
          BY <1>5, <5>1, <5>2 DEF SameClient
      <4> QED
        BY <2>1, <4>1, TellsSame DEF StreamInv
    <3> QED
      BY <3>1, <3>2
  <2>5. UNCHANGED allVars \/ RunStep \/ \E c \in Clients : Connect(c) \/ StreamStep(c) \/ Drop(c)
    BY DEF StreamNext
  <2> QED
    BY <1>3, <1>4, <1>2, <2>2, <2>3, <2>4, <2>5 DEF StreamInv
<1> QED
  BY <1>1, <1>4, <1>5

LEMMA StreamInvInit == StreamInit => StreamInv
<1> SUFFICES ASSUME StreamInit PROVE StreamInv
  OBVIOUS
<1>1. SentInv
  BY SentInvInit DEF StreamInit
<1>2. << >> \in Seq(Wires)
  OBVIOUS
<1>3. StreamTyped
  BY <1>2 DEF StreamInit, StreamTyped, Phases
<1>4. ASSUME NEW r \in Runs
      PROVE  /\ Unheard(r) /\ journal[r] = << >> /\ wire[r] = << >> /\ answers[r] = 0 /\ process = "up"
  BY DEF StreamInit, Init, Unheard, Ends
<1>5. ASSUME NEW c \in Clients PROVE Tells(c)
  <2> DEFINE r == Follows[c]
  <2>1. r \in Runs
    BY StreamAssumption
  <2>2. journal[r] = << >> /\ wire[r] = << >> /\ answers[r] = 0
    BY <1>4, <2>1
  <2>3. phase[c] = "away" /\ got[c] = << >> /\ round[c] = 0
    BY DEF StreamInit
  <2>4. IsPrefix(<< >>, << >>)
    <3>1. /\ Len(<< >>) = 0 /\ SubSeq(<< >>, 1, 0) = << >> /\ 0 <= 0
      OBVIOUS
    <3> QED
      BY <3>1 DEF IsPrefix
  <2>5. Clear(<< >>) = << >>
    <3>1. "error" \notin ToSet(<< >>)
      BY DEF ToSet
    <3> QED
      BY <1>2, <3>1, ClearOfClean
  <2>6. Projection(journal[r]) = << >> /\ Clear(got[c]) = << >>
    BY <2>2, <2>3, <2>5, ProjectionOfNothing
  <2>7. IsPrefix(Clear(got[c]), Projection(journal[r])) /\ IsPrefix(got[c], wire[r])
    BY <2>2, <2>3, <2>4, <2>6
  <2> QED
    BY <2>2, <2>3, <2>7 DEF Tells, Connected
<1> QED
  BY <1>1, <1>3, <1>4, <1>5 DEF StreamInv

\* A client that follows a Run over lost connections, restarts, and snapshots
\* that could not be saved has what the journal has of it, in order, once and
\* without a gap, up to an error, and all of it when the server ended its stream
\* (stream_events, validate_last_event_id and restore_wire_events).
THEOREM ClientsAreTold == StreamSpec => []ClientsFollow
<1>1. StreamInv /\ [StreamNext]_allVars => StreamInv'
  BY StreamInvNext
<1>2. StreamInv => ClientsFollow
  BY StreamInvIsClientsFollow
<1> QED
  BY <1>1, <1>2, StreamInvInit, PTL DEF StreamSpec
=============================================================================
