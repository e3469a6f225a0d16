----------------------------- MODULE ModelProofs ----------------------------
(***************************************************************************)
(* Proofs about what models are asked and what is made of their answers.   *)
(*                                                                         *)
(* AnalysisLoop, for any sources, Goals, Plans, Notes and reports a model  *)
(* may draft, any number of Steps, any values and events, any deadline and *)
(* any cancellations.  What has been computed is known by the Steps that   *)
(* are done: they stay where they were when the Plan is revised (PlanInv), *)
(* Facts and Notes are made in turns (TurnInv), and what was put into the  *)
(* queue says where the loop is (EmitInv), which ends with the event that  *)
(* ends it (EndInv).  The answers of FixtureModel are accepted by it.      *)
(*                                                                         *)
(* Investigation, for any ids, tasks and definitions, any number of rounds *)
(* and of verifiers at once, and whatever the roles answer, propose and    *)
(* decide.  What a round does to the list of candidates is a fold over     *)
(* results; it touches only ids of these results (PlacedFolded,            *)
(* MergedFolded).  So a candidate is judged again or its decision is about *)
(* the version that is listed (JudgedInv), and a decision that confirms    *)
(* names the verifier and what it read (DecisionsInv).                     *)
(***************************************************************************)
EXTENDS FixtureModel, Investigation, FiniteSetTheorems, SequenceTheorems, WellFoundedInduction, TLAPS
IsSeq(s) == \E S : s \in Seq(S)

\* Drafts are documents of their schemas: a Goal decision is of one of three
\* kinds, and the Steps of a Plan are a list.
Drafted ==
  /\ \A g \in Goals : g.kind \in {"goal", "clarification", "unsupported"}
  /\ \A g \in Goals : g.kind = "goal" => \A p \in FirstPlans(g) : IsSeq(p.steps)
  /\ \A q : IsSeq(q.steps) => \A p \in Revisions(q) : IsSeq(p.steps)

EventKinds == {"goal", "asked", "unsupported", "error", "plan", "revised", "activity", "fact", "note", "report"}

\* The Steps that have a Fact.
Computed == {facts[i].step : i \in DOMAIN facts}

\* A Plan that passed, or none.
PlanOk(p) ==
  /\ IsSeq(p.steps) /\ Len(p.steps) <= MaxSteps
  /\ \A i, j \in DOMAIN p.steps : p.steps[i].id = p.steps[j].id => i = j
  /\ InScope(p, goal)

\* The Facts are those of Steps of p, each after its inputs.
Bound(p) ==
  \A i \in DOMAIN facts :
    /\ \E k \in DOMAIN p.steps : facts[i].step = p.steps[k].id /\ FactBinds(p.steps[k], facts[i])
    /\ facts[i].inputs \subseteq {facts[j].step : j \in 1..(i - 1)}

PlanInv ==
  /\ PlanOk(plan) /\ Bound(plan)
  /\ pc \in {"goal", "plan"} => plan = NoPlan
  /\ pc = "plan" => goal \in Goals /\ goal.kind = "goal"
  /\ \A i, j \in DOMAIN facts : facts[i].step = facts[j].step => i = j
  /\ pc \in {"note", "select"} => Computed = completed \cup {current}
  /\ pc \notin {"note", "select", "ended"} => Computed = completed
  /\ completed \subseteq Computed
  /\ pc = "executing" => Ready(plan, current, completed)
  /\ pc # "ended" => attempt \in 0..1

TurnInv ==
  /\ pc \in {"note", "select"} => Len(facts) = Len(notes) + 1
  /\ pc \notin {"note", "select", "ended"} => Len(facts) = Len(notes)
  /\ Len(notes) <= Len(facts)
  /\ pc # "ended" => report = NoReport
  /\ ReportGrounded

Has(kind) == kind \in ToSet(emitted)

InOrder == \A i \in DOMAIN emitted : IsEmission(emitted[i]) => \E j \in 1..i : emitted[j] = Wants(emitted[i])

EmitInv ==
  /\ emitted \in Seq(EventKinds)
  /\ InOrder
  /\ pc \notin {"goal", "ended"} => Has("goal")
  /\ pc \notin {"goal", "plan", "ended"} => Has("plan")
  /\ pc \in {"note", "select"} => Has("fact")
  /\ pc = "report" => Has("note")
  /\ Has("report") \/ Has("asked") => ~Has("error")
  /\ Has("report") \/ Has("asked") \/ Has("error") => pc = "ended"

EndInv ==
  /\ pump = "done" <=> pc = "ended"
  /\ ending # "none" => pc = "ended"
  /\ ending = "completed" => Has("report")
  /\ ending = "awaiting" => Has("asked")
  /\ ending \in {"failed", "degraded"} => Has("error")
  /\ outcome # "none" => outcome = ending /\ pump = "done" /\ taken = Len(emitted)
  /\ worker \in Working => pc = "executing" \/ (pc \in {"draining", "ended"} /\ stopped)

LoopInv == TypeOK /\ IsSeq(facts) /\ IsSeq(notes) /\ PlanInv /\ TurnInv /\ EmitInv /\ EndInv

-----------------------------------------------------------------------------
LEMMA SeqLen ==
  ASSUME NEW s, IsSeq(s)
  PROVE  Len(s) \in Nat /\ DOMAIN s = 1..Len(s)
<1>1. PICK S : s \in Seq(S)
  BY DEF IsSeq
<1> QED
  BY <1>1, LenProperties

LEMMA SeqAppend ==
  ASSUME NEW s, IsSeq(s), NEW x
  PROVE  /\ IsSeq(Append(s, x)) /\ Len(s) \in Nat /\ Len(Append(s, x)) = Len(s) + 1
         /\ DOMAIN s = 1..Len(s) /\ DOMAIN Append(s, x) = 1..(Len(s) + 1)
         /\ Append(s, x)[Len(s) + 1] = x
         /\ \A i \in 1..Len(s) : Append(s, x)[i] = s[i]
<1>1. PICK S : s \in Seq(S)
  BY DEF IsSeq
<1> DEFINE T == S \cup {x}
<1>2. s \in Seq(T) /\ x \in T
  BY <1>1, SeqMonotonic
<1> HIDE DEF T
<1>3. /\ Append(s, x) \in Seq(T) /\ Len(Append(s, x)) = Len(s) + 1
      /\ \A i \in 1..Len(s) : Append(s, x)[i] = s[i]
      /\ Append(s, x)[Len(s) + 1] = x
  BY <1>2, AppendProperties
<1>4. Len(s) \in Nat /\ DOMAIN s = 1..Len(s) /\ DOMAIN Append(s, x) = 1..Len(Append(s, x))
  BY <1>2, <1>3, LenProperties
<1>5. IsSeq(Append(s, x))
  BY <1>3 DEF IsSeq
<1> QED
  BY <1>3, <1>4, <1>5

\* The Step of an id is the one place that has it.
LEMMA StepAt ==
  ASSUME NEW p, \A i, j \in DOMAIN p.steps : p.steps[i].id = p.steps[j].id => i = j, NEW k \in DOMAIN p.steps
  PROVE  StepOf(p, p.steps[k].id) = p.steps[k] /\ p.steps[k].id \in IdsOf(p)
BY DEF StepOf, IdsOf

LEMMA StepOfId ==
  ASSUME NEW p, NEW id \in IdsOf(p)
  PROVE  \E k \in DOMAIN p.steps : p.steps[k].id = id /\ StepOf(p, id) = p.steps[k]
BY DEF StepOf, IdsOf

-----------------------------------------------------------------------------
(* The queue.                                                              *)

LEMMA ConcatSet ==
  ASSUME NEW S, NEW a \in Seq(S), NEW b \in Seq(S)
  PROVE  a \o b \in Seq(S) /\ ToSet(a \o b) = ToSet(a) \cup ToSet(b)
<1>1. /\ a \o b \in Seq(S) /\ Len(a \o b) = Len(a) + Len(b) /\ Len(a) \in Nat /\ Len(b) \in Nat
      /\ DOMAIN a = 1..Len(a) /\ DOMAIN b = 1..Len(b) /\ DOMAIN (a \o b) = 1..(Len(a) + Len(b))
  BY LenProperties, ConcatProperties
<1>2. \A i \in 1..(Len(a) + Len(b)) : (a \o b)[i] = IF i <= Len(a) THEN a[i] ELSE b[i - Len(a)]
  BY <1>1, ConcatProperties
<1>3. ASSUME NEW i \in DOMAIN (a \o b) PROVE (a \o b)[i] \in ToSet(a) \cup ToSet(b)
  <2>1. CASE i <= Len(a)
    BY <1>1, <1>2, <2>1 DEF ToSet
  <2>2. CASE ~(i <= Len(a))
    <3>1. i - Len(a) \in DOMAIN b
      BY <1>1, <2>2
    <3> QED
      BY <1>1, <1>2, <2>2, <3>1 DEF ToSet
  <2> QED
    BY <2>1, <2>2
<1>4. ASSUME NEW i \in DOMAIN a PROVE a[i] \in ToSet(a \o b)
  <2>1. i \in DOMAIN (a \o b) /\ (a \o b)[i] = a[i]
    BY <1>1, <1>2
  <2> QED
    BY <2>1 DEF ToSet
<1>5. ASSUME NEW i \in DOMAIN b PROVE b[i] \in ToSet(a \o b)
  <2>1. i + Len(a) \in DOMAIN (a \o b) /\ (a \o b)[i + Len(a)] = b[i]
    BY <1>1, <1>2
  <2> QED
    BY <2>1 DEF ToSet
<1> QED
  BY <1>1, <1>3, <1>4, <1>5 DEF ToSet

\* Events put one after the other keep the contract if each has what it wants already.
LEMMA Emitting ==
  ASSUME emitted \in Seq(EventKinds), InOrder, NEW k \in Seq(EventKinds), Emit(k),
         \A x \in ToSet(k) : IsEmission(x) => Wants(x) = x \/ Has(Wants(x))
  PROVE  /\ emitted' \in Seq(EventKinds) /\ InOrder' /\ Len(emitted) <= Len(emitted')
         /\ \A kind : Has(kind)' <=> Has(kind) \/ kind \in ToSet(k)
<1>1. /\ emitted' = emitted \o k /\ Len(emitted) \in Nat /\ Len(k) \in Nat /\ Len(emitted') = Len(emitted) + Len(k)
      /\ DOMAIN emitted = 1..Len(emitted) /\ DOMAIN k = 1..Len(k) /\ DOMAIN emitted' = 1..(Len(emitted) + Len(k))
      /\ emitted' \in Seq(EventKinds)
  BY LenProperties, ConcatProperties DEF Emit
<1>2. \A i \in 1..(Len(emitted) + Len(k)) : emitted'[i] = IF i <= Len(emitted) THEN emitted[i] ELSE k[i - Len(emitted)]
  BY <1>1, ConcatProperties
<1>3. ToSet(emitted') = ToSet(emitted) \cup ToSet(k)
  BY <1>1, ConcatSet
<1>4. ASSUME NEW i \in DOMAIN emitted', IsEmission(emitted'[i]) PROVE \E j \in 1..i : emitted'[j] = Wants(emitted'[i])
  <2>1. CASE i <= Len(emitted)
    <3>1. i \in DOMAIN emitted /\ emitted'[i] = emitted[i]
      BY <1>1, <1>2, <2>1
    <3>2. PICK j \in 1..i : emitted[j] = Wants(emitted[i])
      BY <1>4, <3>1 DEF InOrder
    <3>3. emitted'[j] = emitted[j]
      BY <1>1, <1>2, <2>1
    <3> QED
      BY <3>1, <3>2, <3>3
  <2>2. CASE ~(i <= Len(emitted))
    <3>1. i - Len(emitted) \in DOMAIN k /\ emitted'[i] = k[i - Len(emitted)]
      BY <1>1, <1>2, <2>2
    <3>2. emitted'[i] \in ToSet(k)
      BY <3>1 DEF ToSet
    <3>3. CASE Wants(emitted'[i]) = emitted'[i]
      BY <1>1, <3>3
    <3>4. CASE Has(Wants(emitted'[i]))
      <4>1. PICK j \in DOMAIN emitted : emitted[j] = Wants(emitted'[i])
        BY <3>4 DEF Has, ToSet
      <4>2. j \in 1..i /\ emitted'[j] = emitted[j]
        BY <1>1, <1>2, <2>2
      <4> QED
        BY <4>1, <4>2
    <3> QED
      BY <1>4, <3>2, <3>3, <3>4
  <2> QED
    BY <2>1, <2>2
<1> QED
  BY <1>1, <1>3, <1>4 DEF InOrder, Has

\* The loop returns with the events it ends with.
LEMMA Returning ==
  ASSUME LoopInv, pc # "ended", NEW k \in Seq(EventKinds), NEW made, Emit(k), Return(made),
         UNCHANGED <<taken, consumer>>, worker' \notin Working,
         \A x \in ToSet(k) : IsEmission(x) => Wants(x) = x \/ Has(Wants(x)),
         "report" \in ToSet(k) \/ "asked" \in ToSet(k) => "error" \notin ToSet(k),
         made = "completed" => "report" \in ToSet(k),
         made = "awaiting" => "asked" \in ToSet(k),
         made \in {"failed", "degraded"} => "error" \in ToSet(k)
  PROVE  EmitInv' /\ EndInv' /\ taken' \in 0..Len(emitted')
<1>1. /\ emitted' \in Seq(EventKinds) /\ InOrder' /\ Len(emitted) <= Len(emitted')
      /\ \A kind : Has(kind)' <=> Has(kind) \/ kind \in ToSet(k)
  BY Emitting DEF LoopInv, EmitInv
<1>2. ~Has("report") /\ ~Has("asked") /\ ~Has("error") /\ outcome = "none"
  BY DEF LoopInv, EmitInv, EndInv
<1>3. pc' = "ended" /\ pump' = "done" /\ ending' = made /\ outcome' = outcome /\ taken' = taken
  BY DEF Return, consumer
<1>4. EmitInv'
  BY <1>1, <1>2, <1>3 DEF EmitInv
<1>5. EndInv'
  BY <1>1, <1>2, <1>3 DEF EndInv
<1>6. taken' \in 0..Len(emitted')
  <2>1. taken \in 0..Len(emitted) /\ Len(emitted) \in Nat /\ Len(emitted') \in Nat
    BY <1>1, LenProperties DEF LoopInv, TypeOK, EmitInv
  <2> QED
    BY <1>1, <1>3, <2>1
<1> QED
  BY <1>4, <1>5, <1>6

LEMMA GoingOn ==
  ASSUME LoopInv, pc # "ended", NEW k \in Seq(EventKinds), NEW where, Emit(k), GoOn(where),
         where \notin {"goal", "ended"}, UNCHANGED <<taken, consumer>>, worker' \in Working => where = "executing",
         \A x \in ToSet(k) : IsEmission(x) => Wants(x) = x \/ Has(Wants(x)),
         ToSet(k) \cap {"report", "asked", "error"} = {},
         "goal" \in ToSet(k) \/ Has("goal"),
         where # "plan" => "plan" \in ToSet(k) \/ Has("plan"),
         where \in {"note", "select"} => "fact" \in ToSet(k) \/ Has("fact"),
         where = "report" => "note" \in ToSet(k) \/ Has("note")
  PROVE  EmitInv' /\ EndInv' /\ taken' \in 0..Len(emitted')
<1>1. /\ emitted' \in Seq(EventKinds) /\ InOrder' /\ Len(emitted) <= Len(emitted')
      /\ \A kind : Has(kind)' <=> Has(kind) \/ kind \in ToSet(k)
  BY Emitting DEF LoopInv, EmitInv
<1>2. ~Has("report") /\ ~Has("asked") /\ ~Has("error") /\ outcome = "none" /\ pump # "done" /\ ending = "none"
  BY DEF LoopInv, EmitInv, EndInv
<1>3. pc' = where /\ pump' = pump /\ ending' = ending /\ outcome' = outcome /\ taken' = taken
  BY DEF GoOn, ends, consumer
<1>4. EmitInv'
  BY <1>1, <1>2, <1>3 DEF EmitInv
<1>5. EndInv'
  BY <1>1, <1>2, <1>3 DEF EndInv
<1>6. taken' \in 0..Len(emitted')
  <2>1. taken \in 0..Len(emitted) /\ Len(emitted) \in Nat /\ Len(emitted') \in Nat
    BY <1>1, LenProperties DEF LoopInv, TypeOK, EmitInv
  <2> QED
    BY <1>1, <1>3, <2>1
<1> QED
  BY <1>4, <1>5, <1>6

-----------------------------------------------------------------------------
(* Steps beside the loop: of the thread, the deadline, the Pack and the    *)
(* kernel.                                                                 *)

LEMMA Beside ==
  ASSUME LoopInv, UNCHANGED <<pc, model, emitted, ends>>, TypeOK',
         worker' \in Working => worker \in Working, stopped => stopped',
         outcome' # "none" => outcome' = ending /\ pump = "done" /\ taken' = Len(emitted)
  PROVE  LoopInv'
<1>1. /\ plan' = plan /\ goal' = goal /\ completed' = completed /\ current' = current /\ facts' = facts
      /\ notes' = notes /\ report' = report /\ pump' = pump /\ ending' = ending /\ attempt' = attempt
  BY DEF model, ends
<1>2. PlanInv'
  BY <1>1, SMTT(30) DEF LoopInv, PlanInv, PlanOk, Bound, Computed, InScope
<1>3. TurnInv'
  BY <1>1, SMTT(30) DEF LoopInv, TurnInv, ReportGrounded
<1>4. EmitInv'
  BY <1>1 DEF LoopInv, EmitInv, InOrder, Has
<1>5. EndInv'
  BY <1>1 DEF LoopInv, EndInv, Has
<1> QED
  BY <1>1, <1>2, <1>3, <1>4, <1>5 DEF LoopInv

LEMMA ThreadKeeps ==
  ASSUME LoopInv, Threads
  PROVE  LoopInv'
<1>1. /\ UNCHANGED <<pc, model, emitted, ends, taken, expired, stopped, pack, outcome, cancels>>
      /\ worker \in Working
  BY DEF Threads, ThreadBegins, ThreadLoads, ThreadHandles, ThreadReturns, ThreadOnly, queue, consumer, Working
<1>2. /\ worker' \in Working \cup {"done"}
      /\ result'.kind \in {result.kind, "fact", "nodata", "error", "cancelled", "timeout"}
  <2>1. CASE ThreadBegins
    BY <2>1 DEF ThreadBegins, Checked, Raise, Thread, Working
  <2>2. CASE ThreadLoads
    BY <2>2 DEF ThreadLoads, Checked, Raise, Thread, Working
  <2>3. CASE ThreadHandles
    BY <2>3 DEF ThreadHandles, Checked, Raise, Thread, Working
  <2>4. CASE ThreadReturns
    BY <2>4 DEF ThreadReturns, Checked, Raise, Thread, Working
  <2> QED
    BY <2>1, <2>2, <2>3, <2>4 DEF Threads
<1>3. TypeOK'
  BY <1>1, <1>2 DEF LoopInv, TypeOK, model, ends
<1> QED
  BY <1>1, <1>3, Beside DEF LoopInv, EndInv

LEMMA OthersKeep ==
  ASSUME LoopInv, Consume \/ PackEnds \/ PackClosed \/ DeadlinePasses \/ KernelCloses \/ CancelledAgain \/ UNCHANGED vars
  PROVE  LoopInv'
<1>1. UNCHANGED <<pc, model, emitted, ends, worker, result, stopped>>
  BY DEF Consume, PackEnds, PackClosed, DeadlinePasses, KernelCloses, CancelledAgain, vars, thread, queue
<1>2. TypeOK' /\ (outcome' # "none" => outcome' = ending /\ pump = "done" /\ taken' = Len(emitted))
  <2>1. TypeOK /\ (outcome # "none" => outcome = ending /\ pump = "done" /\ taken = Len(emitted)) /\ Len(emitted) \in Nat
    BY LenProperties DEF LoopInv, EndInv, EmitInv
  <2>2. CASE Consume
    <3>1. taken' = taken + 1 /\ taken < Len(emitted) /\ pack' = pack /\ outcome' = outcome
      BY <2>2 DEF Consume, consumer
    <3>2. taken' \in 0..Len(emitted) /\ outcome = "none"
      BY <2>1, <3>1 DEF TypeOK
    <3> QED
      BY <1>1, <2>1, <3>1, <3>2 DEF TypeOK, model, ends
  <2>3. CASE PackEnds
    BY <1>1, <2>1, <2>3 DEF TypeOK, model, ends, PackEnds, DoneTaken, queue
  <2>4. CASE PackClosed \/ DeadlinePasses \/ KernelCloses \/ CancelledAgain \/ UNCHANGED vars
    <3>1. taken' = taken /\ outcome' = outcome /\ pack' \in {pack, "closing", "closed"}
      BY <2>4 DEF PackClosed, DeadlinePasses, KernelCloses, CancelledAgain, vars, queue, consumer
    <3> QED
      BY <1>1, <2>1, <3>1 DEF TypeOK, model, ends
  <2> QED
    BY <2>2, <2>3, <2>4
<1> QED
  BY <1>1, <1>2, Beside

-----------------------------------------------------------------------------
(* Steps of the loop that end it.                                          *)

\* The model's part of the state stays.
LEMMA EndedModel ==
  ASSUME LoopInv, pc' \in {"ended", "draining"}, pc' = "draining" => pc = "executing" /\ attempt' = attempt,
         UNCHANGED <<goal, plan, completed, current, facts, notes, report>>
  PROVE  PlanInv' /\ TurnInv' /\ IsSeq(facts') /\ IsSeq(notes')
<1>1. PlanInv'
  BY DEF LoopInv, PlanInv, PlanOk, Bound, Computed, InScope
<1>2. TurnInv'
  BY DEF LoopInv, TurnInv, ReportGrounded
<1> QED
  BY <1>1, <1>2 DEF LoopInv

LEMMA CancelKeeps ==
  ASSUME LoopInv, CancelArrives \/ Drained
  PROVE  LoopInv'
<1>1. /\ UNCHANGED <<goal, plan, completed, current, facts, notes, report, attempt, worker, result, emitted, taken>>
      /\ UNCHANGED <<ending, pack, outcome>> /\ stopped' = TRUE
      /\ pump = "running" /\ pc # "ended"
      /\ \/ pc = "executing" /\ pc' = "draining" /\ pump' = pump
         \/ pc # "executing" /\ pc' = "ended" /\ pump' = "done"
  BY DEF CancelArrives, Drained, model, queue, ends, consumer, StopBudget, Finally, LoopInv, EndInv, TypeOK
<1>2. PlanInv' /\ TurnInv' /\ IsSeq(facts') /\ IsSeq(notes')
  BY <1>1, EndedModel
<1>3. EmitInv'
  BY <1>1 DEF LoopInv, EmitInv, InOrder, Has
<1>4. EndInv'
  BY <1>1 DEF LoopInv, EndInv, Has
<1>5. TypeOK'
  BY <1>1 DEF LoopInv, TypeOK
<1> QED
  BY <1>2, <1>3, <1>4, <1>5 DEF LoopInv

\* Fail and its kin: an end with events of which none is an emission.
LEMMA FailKeeps ==
  ASSUME LoopInv, pc # "ended", NEW k \in Seq(EventKinds), NEW made \in {"failed", "degraded"}, Emit(k), Return(made),
         "error" \in ToSet(k), ToSet(k) \subseteq {"error", "unsupported"},
         UNCHANGED <<goal, plan, completed, current, facts, notes, report, taken, consumer>>, attempt' \in 0..2,
         worker' \in {worker, "idle"}, worker' \notin Working, result' = result
  PROVE  LoopInv'
<1>1. pc' = "ended" /\ pump' = "done" /\ ending' = made /\ pack' = pack /\ outcome' = outcome
  BY DEF Return, consumer
<1>2. EmitInv' /\ EndInv' /\ taken' \in 0..Len(emitted')
  BY Returning DEF IsEmission
<1>3. PlanInv' /\ TurnInv' /\ IsSeq(facts') /\ IsSeq(notes')
  BY <1>1, EndedModel
<1>4. TypeOK'
  BY <1>1, <1>2 DEF LoopInv, TypeOK
<1> QED
  BY <1>2, <1>3, <1>4 DEF LoopInv

\* The handler of every exception.
LEMMA FailedKeeps ==
  ASSUME LoopInv, pc # "ended", Fail,
         UNCHANGED <<goal, plan, completed, current, facts, notes, report, taken, consumer>>, attempt' \in 0..2,
         worker' \in {worker, "idle"}, worker' \notin Working, result' = result
  PROVE  LoopInv'
<1>1. Emit(<<"error">>) /\ Return("failed") /\ <<"error">> \in Seq(EventKinds) /\ ToSet(<<"error">>) = {"error"}
  BY DEF Fail, EventKinds, ToSet
<1> QED
  BY <1>1, FailKeeps

LEMMA ModelFailsKeeps ==
  ASSUME LoopInv, ModelFails
  PROVE  LoopInv'
<1>1. pc \in Stages /\ Fail /\ UNCHANGED <<model, thread, taken, consumer>>
  BY DEF ModelFails
<1>2. pc # "ended" /\ worker \notin Working /\ attempt \in 0..2
  BY <1>1 DEF Stages, LoopInv, EndInv, TypeOK
<1> QED
  BY <1>1, <1>2, FailedKeeps DEF model, thread

-----------------------------------------------------------------------------
(* Steps of the loop that go on.                                           *)

LEMMA OneKind ==
  ASSUME NEW kind \in EventKinds
  PROVE  <<kind>> \in Seq(EventKinds) /\ ToSet(<<kind>>) = {kind}
BY DEF ToSet

LEMMA GoalKeeps ==
  ASSUME Drafted, LoopInv, NEW d \in Goals, GoalDecided(d)
  PROVE  LoopInv'
<1>1. /\ pc = "goal" /\ plan = NoPlan /\ worker \notin Working /\ pc # "ended"
      /\ UNCHANGED <<plan, completed, current, draft, report, attempt, facts, notes, thread, taken, consumer>>
  BY DEF GoalDecided, LoopInv, PlanInv, EndInv
<1>2. attempt' \in 0..2 /\ worker' = worker /\ result' = result
  BY <1>1 DEF LoopInv, TypeOK, thread
<1>3. CASE d.kind = "clarification"
  <2>1. Emit(<<"asked">>) /\ Return("awaiting") /\ goal' = goal
    BY <1>3 DEF GoalDecided
  <2>2. <<"asked">> \in Seq(EventKinds) /\ ToSet(<<"asked">>) = {"asked"}
    BY OneKind DEF EventKinds
  <2>3. EmitInv' /\ EndInv' /\ taken' \in 0..Len(emitted')
    BY <1>1, <1>2, <2>1, <2>2, Returning DEF Wants
  <2>4. pc' = "ended" /\ pump' = "done" /\ ending' = "awaiting" /\ pack' = pack /\ outcome' = outcome
    BY <1>1, <2>1 DEF Return, consumer
  <2>5. PlanInv' /\ TurnInv' /\ IsSeq(facts') /\ IsSeq(notes')
    BY <1>1, <2>1, <2>4, EndedModel
  <2>6. TypeOK'
    BY <1>1, <1>2, <2>3, <2>4 DEF LoopInv, TypeOK
  <2> QED
    BY <2>3, <2>5, <2>6 DEF LoopInv
<1>4. CASE d.kind = "unsupported"
  <2>1. Emit(<<"unsupported", "error">>) /\ Return("failed") /\ goal' = goal
    BY <1>4 DEF GoalDecided
  <2>2. <<"unsupported", "error">> \in Seq(EventKinds) /\ ToSet(<<"unsupported", "error">>) = {"unsupported", "error"}
    BY DEF EventKinds, ToSet
  <2> QED
    BY <1>1, <1>2, <2>1, <2>2, FailKeeps
<1>5. CASE d.kind = "goal" /\ ~GoalValid(d)
  <2>1. Fail /\ goal' = goal
    BY <1>5 DEF GoalDecided
  <2> QED
    BY <1>1, <1>2, <2>1, FailedKeeps
<1>6. CASE d.kind = "goal" /\ GoalValid(d)
  <2>1. Emit(<<"goal">>) /\ GoOn("plan") /\ goal' = d
    BY <1>6 DEF GoalDecided
  <2>2. <<"goal">> \in Seq(EventKinds) /\ ToSet(<<"goal">>) = {"goal"}
    BY OneKind DEF EventKinds
  <2>3. EmitInv' /\ EndInv' /\ taken' \in 0..Len(emitted')
    BY <1>1, <1>2, <2>1, <2>2, GoingOn DEF Wants
  <2>4. pc' = "plan" /\ pump' = pump /\ ending' = ending /\ pack' = pack /\ outcome' = outcome
    BY <1>1, <2>1 DEF GoOn, ends, consumer
  <2>5. PlanOk(plan)'
    <3>1. InScope(plan, goal)'
      BY <1>1 DEF InScope, NoPlan
    <3> QED
      BY <1>1, <3>1 DEF LoopInv, PlanInv, PlanOk
  <2>6. PlanInv'
    BY <1>1, <1>6, <2>1, <2>4, <2>5 DEF LoopInv, PlanInv, Bound, Computed
  <2>7. TurnInv'
    BY <1>1, <2>4 DEF LoopInv, TurnInv, ReportGrounded
  <2>8. TypeOK'
    BY <1>1, <1>2, <2>3, <2>4 DEF LoopInv, TypeOK, Stages
  <2> QED
    BY <1>1, <2>3, <2>6, <2>7, <2>8 DEF LoopInv
<1> QED
  BY <1>3, <1>4, <1>5, <1>6 DEF Drafted

\* A Plan of one of the allowed lengths has a first Step.
LEMMA FirstStep ==
  ASSUME NEW p, IsSeq(p.steps), PlanValid(p)
  PROVE  /\ Len(p.steps) <= MaxSteps /\ 1 \in DOMAIN p.steps /\ p # NoPlan
         /\ \A i, j \in DOMAIN p.steps : p.steps[i].id = p.steps[j].id => i = j
<1>1. Len(p.steps) \in MinSteps..MaxSteps /\ Len(p.steps) \in Nat /\ DOMAIN p.steps = 1..Len(p.steps)
  BY SeqLen DEF PlanValid, WellOrdered
<1>2. MinSteps \in Nat \ {0} /\ MaxSteps \in Nat
  BY RulesAssumption
<1>3. 1 \in DOMAIN p.steps
  BY <1>1, <1>2
<1>4. p # NoPlan
  <2>1. NoPlan.steps = << >> /\ DOMAIN NoPlan.steps = {}
    BY DEF NoPlan
  <2> QED
    BY <1>3, <2>1
<1> QED
  BY <1>1, <1>2, <1>3, <1>4 DEF PlanValid, WellOrdered

LEMMA PlanKeeps ==
  ASSUME Drafted, LoopInv, NEW p \in FirstPlans(goal), PlanDrafted(p)
  PROVE  LoopInv'
<1>1. /\ pc = "plan" /\ plan = NoPlan /\ worker \notin Working /\ pc # "ended"
      /\ goal \in Goals /\ goal.kind = "goal" /\ Has("goal")
      /\ UNCHANGED <<goal, completed, draft, report, facts, notes, thread, taken, consumer>>
  BY DEF PlanDrafted, LoopInv, PlanInv, EndInv, EmitInv
<1>2. attempt \in 0..2 /\ worker' = worker /\ result' = result
  BY <1>1 DEF LoopInv, TypeOK, thread
<1>3. CASE FirstPlanValid(p, goal)
  <2>1. plan' = p /\ current' = p.steps[1].id /\ Emit(<<"plan">>) /\ GoOn("step") /\ attempt' = attempt
    BY <1>3 DEF PlanDrafted
  <2>2. <<"plan">> \in Seq(EventKinds) /\ ToSet(<<"plan">>) = {"plan"}
    BY OneKind DEF EventKinds
  <2>3. EmitInv' /\ EndInv' /\ taken' \in 0..Len(emitted')
    BY <1>1, <1>2, <2>1, <2>2, GoingOn DEF Wants
  <2>4. pc' = "step" /\ pump' = pump /\ ending' = ending /\ pack' = pack /\ outcome' = outcome
    BY <1>1, <2>1 DEF GoOn, ends, consumer
  <2>5. IsSeq(p.steps)
    BY <1>1 DEF Drafted
  <2>6. PlanOk(p)' /\ 1 \in DOMAIN p.steps
    BY <1>1, <1>3, <2>5, FirstStep DEF FirstPlanValid, PlanOk, InScope
  <2>7. DOMAIN facts = {} /\ completed = {} /\ Computed = {}
    <3>1. Bound(NoPlan) /\ Computed = completed
      BY <1>1 DEF LoopInv, PlanInv
    <3>2. DOMAIN NoPlan.steps = {}
      BY DEF NoPlan
    <3> QED
      BY <3>1, <3>2 DEF Bound, Computed
  <2>8. PlanInv'
    BY <1>1, <2>1, <2>4, <2>6, <2>7 DEF LoopInv, PlanInv, Bound, Computed
  <2>9. TurnInv'
    <3>1. TurnInv /\ (ReportGrounded => ReportGrounded')
      BY <1>1 DEF LoopInv, ReportGrounded
    <3> QED
      BY <1>1, <2>4, <3>1 DEF TurnInv
  <2>10. TypeOK'
    <3>1. completed' \subseteq IdsOf(plan') /\ current' \in IdsOf(plan')
      BY <1>1, <2>1, <2>6, <2>7 DEF IdsOf
    <3> QED
      BY <1>1, <1>2, <2>1, <2>3, <2>4, <3>1 DEF LoopInv, TypeOK
  <2> QED
    BY <1>1, <2>3, <2>8, <2>9, <2>10 DEF LoopInv
<1>4. CASE ~FirstPlanValid(p, goal)
  <2>1. attempt' = attempt + 1 /\ UNCHANGED <<plan, current>>
        /\ IF Repairable THEN UNCHANGED <<pc, emitted, ends>> ELSE Fail
    BY <1>4 DEF PlanDrafted
  <2>2. CASE Repairable
    <3>1. attempt' = 1 /\ pc' = pc /\ emitted' = emitted /\ pump' = pump /\ ending' = ending /\ taken' = taken
          /\ outcome' = outcome /\ pack' = pack /\ stopped' = stopped
      BY <1>1, <2>1, <2>2 DEF Repairable, ends, consumer, thread
    <3>2. TypeOK'
      BY <1>1, <1>2, <2>1, <3>1 DEF LoopInv, TypeOK
    <3>3. PlanInv'
      BY <1>1, <2>1, <3>1 DEF LoopInv, PlanInv, PlanOk, Bound, Computed, InScope
    <3>4. TurnInv'
      BY <1>1, <3>1 DEF LoopInv, TurnInv, ReportGrounded
    <3>5. EmitInv' /\ EndInv'
      BY <1>2, <3>1 DEF LoopInv, EmitInv, EndInv, InOrder, Has
    <3> QED
      BY <1>1, <3>2, <3>3, <3>4, <3>5 DEF LoopInv
  <2>3. CASE ~Repairable
    <3>1. Fail
      BY <2>1, <2>3
    <3>2. attempt' \in 0..2
      <4>1. attempt \in 0..1
        BY <1>1 DEF LoopInv, PlanInv
      <4> QED
        BY <2>1, <4>1
    <3> QED
      BY <1>1, <1>2, <2>1, <3>1, <3>2, FailedKeeps
  <2> QED
    BY <2>2, <2>3
<1> QED
  BY <1>3, <1>4

LEMMA SameStep ==
  ASSUME NEW p, NEW q, NEW done, SameSteps(p, q, done), NEW k \in DOMAIN p.steps, p.steps[k].id \in done
  PROVE  k \in DOMAIN q.steps /\ q.steps[k] = p.steps[k]
BY DEF SameSteps

\* A Note ends its Step, and the Plan may be revised around what is done.
LEMMA NoteKeeps ==
  ASSUME LoopInv, pc \in {"note", "select"}, NEW d, NEW next, NEW newPlan, WriteNote(d, next, newPlan),
         UNCHANGED <<goal, report, attempt, facts, thread, taken, consumer>>,
         \/ newPlan = NoPlan /\ (next = NoStep \/ Ready(plan, next, completed \cup {current}))
         \/ /\ newPlan # NoPlan /\ IsSeq(newPlan.steps) /\ InScope(newPlan, goal)
            /\ RevisionValid(plan, newPlan, completed \cup {current})
            /\ Ready(newPlan, next, completed \cup {current})
  PROVE  LoopInv'
<1>1. /\ pc # "ended" /\ worker' = worker /\ result' = result /\ worker \notin Working /\ attempt \in 0..2
      /\ Has("goal") /\ Has("plan") /\ Has("fact")
      /\ Computed = completed \cup {current} /\ Len(facts) = Len(notes) + 1 /\ report = NoReport
  BY DEF LoopInv, TypeOK, EndInv, EmitInv, thread, PlanInv, TurnInv
<1>2. CASE ~NoteValid(d, Last(facts), facts, next, plan.revision)
  <2>1. Fail /\ UNCHANGED <<notes, completed, plan, current>>
    BY <1>2 DEF WriteNote
  <2> QED
    BY <1>1, <2>1, FailedKeeps
<1>3. CASE NoteValid(d, Last(facts), facts, next, plan.revision)
  <2> DEFINE k == <<"note", "activity">> \o (IF newPlan = NoPlan THEN << >> ELSE <<"revised">>)
                  \o (IF next = NoStep THEN <<"activity">> ELSE << >>)
             where == IF next = NoStep THEN "report" ELSE "step"
             note == NoteOf(d, next, plan.revision)
  <2>1. /\ notes' = Append(notes, note) /\ completed' = completed \cup {current}
        /\ plan' = IF newPlan = NoPlan THEN plan ELSE newPlan
        /\ current' = IF next = NoStep THEN current ELSE next
        /\ Emit(k) /\ GoOn(where)
    BY <1>3 DEF WriteNote
  <2>2. k \in Seq(EventKinds) /\ "note" \in ToSet(k) /\ ToSet(k) \subseteq {"note", "activity", "revised"}
    <3> DEFINE a == <<"note", "activity">>
               b == IF newPlan = NoPlan THEN << >> ELSE <<"revised">>
               c == IF next = NoStep THEN <<"activity">> ELSE << >>
    <3>1. a \in Seq(EventKinds) /\ ToSet(a) = {"note", "activity"}
      BY DEF EventKinds, ToSet
    <3>n. << >> \in Seq(EventKinds) /\ ToSet(<< >>) = {}
      BY DEF ToSet
    <3>2. b \in Seq(EventKinds) /\ ToSet(b) \subseteq {"revised"}
      <4>1. <<"revised">> \in Seq(EventKinds) /\ ToSet(<<"revised">>) = {"revised"}
        BY OneKind DEF EventKinds
      <4>2. b = << >> \/ b = <<"revised">>
        OBVIOUS
      <4> HIDE DEF b
      <4> QED
        BY <3>n, <4>1, <4>2
    <3>3. c \in Seq(EventKinds) /\ ToSet(c) \subseteq {"activity"}
      <4>1. <<"activity">> \in Seq(EventKinds) /\ ToSet(<<"activity">>) = {"activity"}
        BY OneKind DEF EventKinds
      <4>2. c = << >> \/ c = <<"activity">>
        OBVIOUS
      <4> HIDE DEF c
      <4> QED
        BY <3>n, <4>1, <4>2
    <3>4. k = (a \o b) \o c
      OBVIOUS
    <3> HIDE DEF a, b, c, k
    <3>5. a \o b \in Seq(EventKinds) /\ ToSet(a \o b) = ToSet(a) \cup ToSet(b)
      BY <3>1, <3>2, ConcatSet
    <3>6. (a \o b) \o c \in Seq(EventKinds) /\ ToSet((a \o b) \o c) = ToSet(a \o b) \cup ToSet(c)
      <4> DEFINE ab == a \o b
      <4>1. ab \in Seq(EventKinds)
        BY <3>5
      <4> HIDE DEF ab
      <4>2. ab \o c \in Seq(EventKinds) /\ ToSet(ab \o c) = ToSet(ab) \cup ToSet(c)
        BY <3>3, <4>1, ConcatSet
      <4> QED
        BY <4>2 DEF ab
    <3> QED
      BY <3>1, <3>2, <3>3, <3>4, <3>5, <3>6
  <2> HIDE DEF k
  <2>3. EmitInv' /\ EndInv' /\ taken' \in 0..Len(emitted')
    <3>1. \A x \in ToSet(k) : IsEmission(x) => Wants(x) = x \/ Has(Wants(x))
      BY <1>1, <2>2 DEF Wants
    <3>2. where \in {"report", "step"} /\ worker' \notin Working
      BY <1>1
    <3> HIDE DEF where
    <3> QED
      BY <1>1, <2>1, <2>2, <3>1, <3>2, GoingOn
  <2>4. pc' = where /\ pump' = pump /\ ending' = ending /\ pack' = pack /\ outcome' = outcome
    BY <2>1 DEF GoOn, ends, consumer
  <2>5. PlanOk(plan)' /\ Bound(plan)' /\ current' \in IdsOf(plan') \cup {current}
    <3>1. CASE newPlan = NoPlan
      <4>1. plan' = plan /\ PlanOk(plan) /\ Bound(plan)
        BY <2>1, <3>1 DEF LoopInv, PlanInv
      <4>2. current' \in IdsOf(plan') \cup {current}
        BY <2>1, <3>1, <4>1 DEF Ready
      <4> QED
        BY <4>1, <4>2 DEF PlanOk, Bound, InScope
    <3>2. CASE newPlan # NoPlan
      <4>1. /\ plan' = newPlan /\ IsSeq(newPlan.steps) /\ InScope(newPlan, goal) /\ PlanValid(newPlan)
            /\ SameSteps(plan, newPlan, completed \cup {current}) /\ next \in IdsOf(newPlan)
        BY <2>1, <3>2 DEF RevisionValid, Ready
      <4>2. PlanOk(plan)'
        BY <4>1, FirstStep DEF PlanOk, InScope
      <4>3. ASSUME NEW i \in DOMAIN facts
            PROVE  /\ \E j \in DOMAIN newPlan.steps :
                        facts[i].step = newPlan.steps[j].id /\ FactBinds(newPlan.steps[j], facts[i])
                   /\ facts[i].inputs \subseteq {facts[j].step : j \in 1..(i - 1)}
        <5>1. PICK j \in DOMAIN plan.steps : facts[i].step = plan.steps[j].id /\ FactBinds(plan.steps[j], facts[i])
          BY DEF LoopInv, PlanInv, Bound
        <5>2. plan.steps[j].id \in completed \cup {current}
          BY <1>1, <5>1 DEF Computed
        <5>3. j \in DOMAIN newPlan.steps /\ newPlan.steps[j] = plan.steps[j]
          BY <4>1, <5>2, SameStep
        <5>4. facts[i].inputs \subseteq {facts[jj].step : jj \in 1..(i - 1)}
          BY DEF LoopInv, PlanInv, Bound
        <5> QED
          BY <5>1, <5>3, <5>4
      <4>4. Bound(plan)'
        BY <4>1, <4>3 DEF Bound
      <4> QED
        BY <2>1, <4>1, <4>2, <4>4
    <3> QED
      BY <3>1, <3>2
  <2>6. Computed' = completed' /\ completed' \subseteq IdsOf(plan')
    <3>1. Computed' = Computed
      BY DEF Computed
    <3>2. ASSUME NEW i \in DOMAIN facts PROVE facts[i].step \in IdsOf(plan')
      BY <2>5 DEF Bound, IdsOf
    <3> QED
      BY <1>1, <2>1, <3>1, <3>2 DEF Computed
  <2>7. PlanInv'
    BY <1>1, <2>4, <2>5, <2>6 DEF LoopInv, PlanInv
  <2>8. /\ IsSeq(notes') /\ Len(notes) \in Nat /\ Len(notes') = Len(notes) + 1
        /\ DOMAIN notes = 1..Len(notes) /\ DOMAIN notes' = 1..(Len(notes) + 1)
        /\ notes'[Len(notes) + 1] = note /\ \A i \in 1..Len(notes) : notes'[i] = notes[i]
    BY <2>1, SeqAppend DEF LoopInv
  <2>9. ReportGrounded'
    <3>1. report' = NoReport
      BY <1>1
    <3>2. ASSUME NEW i \in DOMAIN notes', NEW claim \in ToSet(notes'[i].claims)
          PROVE  /\ \E j \in 1..i : (\A ref \in claim.refs : ref.fact = facts[j].step) /\ ClaimTrueOf(claim, facts[j])
                 /\ \A ref \in claim.refs : ref.revision = notes'[i].revision
      <4>1. CASE i \in DOMAIN notes
        BY <2>8, <3>2, <4>1 DEF LoopInv, TurnInv, ReportGrounded
      <4>2. CASE i = Len(notes) + 1
        <5>1. notes'[i].claims = d.claims /\ notes'[i].revision = plan.revision
          BY <2>8, <4>2 DEF NoteOf
        <5>2. PICK c \in DOMAIN d.claims : d.claims[c] = claim
          BY <3>2, <5>1 DEF ToSet
        <5>3. ClaimValid(claim, facts, plan.revision)
          BY <1>3, <5>2 DEF NoteValid
        <5>4. PICK fact \in ToSet(facts) : /\ {ref.fact : ref \in claim.refs} = {fact.step}
                                           /\ ClaimRevisions(claim, plan.revision) /\ ClaimTrueOf(claim, fact)
          BY <5>3 DEF ClaimValid
        <5>5. PICK j \in DOMAIN facts : facts[j] = fact
          BY DEF ToSet
        <5>6. j \in 1..i
          BY <1>1, <2>8, <4>2, SeqLen DEF LoopInv
        <5> QED
          BY <5>1, <5>4, <5>5, <5>6 DEF ClaimRevisions
      <4> QED
        BY <2>8, <4>1, <4>2
    <3> QED
      BY <3>1, <3>2 DEF ReportGrounded, NoReport
  <2>10. TurnInv'
    BY <1>1, <2>4, <2>8, <2>9 DEF TurnInv
  <2>11. TypeOK'
    <3>1. current' \in IdsOf(plan') \cup {NoStep}
      BY <2>1, <2>5, <2>6
    <3>2. pc' \in {"report", "step"}
      BY <2>4
    <3>3. attempt' \in 0..2 /\ worker' = worker /\ result' = result
      BY <1>1
    <3> QED
      BY <2>3, <2>4, <2>6, <3>1, <3>2, <3>3 DEF LoopInv, TypeOK, Stages
  <2> QED
    BY <2>3, <2>7, <2>8, <2>10, <2>11 DEF LoopInv
<1> QED
  BY <1>2, <1>3

LEMMA NoteDraftedKeeps ==
  ASSUME LoopInv, NEW d, NoteDrafted(d)
  PROVE  LoopInv'
<1>1. pc = "note" /\ UNCHANGED <<goal, report, attempt, facts, thread, taken, consumer>>
  BY DEF NoteDrafted
<1>2. CASE WriteNote(d, NoStep, NoPlan)
  BY <1>1, <1>2, NoteKeeps
<1>3. CASE GoOn("select") /\ UNCHANGED <<notes, completed, plan, current, emitted>>
  <2>1. /\ pc' = "select" /\ pump' = pump /\ ending' = ending /\ pack' = pack /\ outcome' = outcome /\ taken' = taken
        /\ worker' = worker /\ result' = result /\ stopped' = stopped
    BY <1>1, <1>3 DEF GoOn, ends, consumer, thread
  <2>2. TypeOK'
    BY <1>1, <1>3, <2>1 DEF LoopInv, TypeOK, Stages
  <2>3. PlanInv'
    BY <1>1, <1>3, <2>1 DEF LoopInv, PlanInv, PlanOk, Bound, Computed, InScope
  <2>4. TurnInv'
    BY <1>1, <1>3, <2>1 DEF LoopInv, TurnInv, ReportGrounded
  <2>5. EmitInv' /\ EndInv'
    BY <1>1, <1>3, <2>1 DEF LoopInv, EmitInv, EndInv, InOrder, Has
  <2> QED
    BY <1>1, <1>3, <2>2, <2>3, <2>4, <2>5 DEF LoopInv
<1> QED
  BY <1>2, <1>3 DEF NoteDrafted

LEMMA SelectedKeeps ==
  ASSUME Drafted, LoopInv, NEW s, Selected(s),
         \/ s.kind \in {"stop", "continue"} /\ s.plan = NoPlan
         \/ s.kind = "revise" /\ s.plan \in Revisions(plan)
  PROVE  LoopInv'
<1>1. pc = "select" /\ UNCHANGED <<goal, report, attempt, facts, thread, taken, consumer>>
  BY DEF Selected
<1>2. CASE ~SelectionValid(s)
  <2>1. Fail /\ UNCHANGED <<notes, completed, plan, current>>
    BY <1>2 DEF Selected
  <2>2. worker' = worker /\ result' = result /\ worker \notin Working /\ attempt' \in 0..2
    BY <1>1 DEF LoopInv, EndInv, TypeOK, thread
  <2> QED
    BY <1>1, <2>1, <2>2, FailedKeeps
<1>3. CASE SelectionValid(s)
  <2>1. WriteNote(draft, s.next, s.plan)
    BY <1>3 DEF Selected
  <2>2. CASE s.kind = "stop"
    <3>1. s.next = NoStep
      BY <1>3, <2>2 DEF SelectionValid
    <3> QED
      BY <1>1, <2>1, <2>2, <3>1, NoteKeeps
  <2>3. CASE s.kind = "continue"
    <3>1. Ready(plan, s.next, completed \cup {current})
      BY <1>3, <2>3 DEF SelectionValid
    <3> QED
      BY <1>1, <2>1, <2>3, <3>1, NoteKeeps
  <2>4. CASE s.kind = "revise"
    <3>1. /\ RevisionValid(plan, s.plan, completed \cup {current}) /\ InScope(s.plan, goal)
          /\ Ready(s.plan, s.next, completed \cup {current})
      BY <1>3, <2>4 DEF SelectionValid
    <3>2. IsSeq(plan.steps)
      BY DEF LoopInv, PlanInv, PlanOk
    <3>3. IsSeq(s.plan.steps)
      BY <2>4, <3>2 DEF Drafted
    <3>4. s.plan # NoPlan
      BY <3>1, <3>3, FirstStep DEF RevisionValid
    <3> QED
      BY <1>1, <2>1, <3>1, <3>3, <3>4, NoteKeeps
  <2> QED
    BY <2>2, <2>3, <2>4
<1> QED
  BY <1>2, <1>3

LEMMA ReportKeeps ==
  ASSUME LoopInv, NEW d, ReportDrafted(d)
  PROVE  LoopInv'
<1>1. /\ pc = "report" /\ pc # "ended" /\ worker \notin Working /\ worker' = worker /\ result' = result /\ attempt' \in 0..2
      /\ UNCHANGED <<goal, plan, completed, current, draft, attempt, facts, notes, thread, taken, consumer>>
      /\ Has("note")
  BY DEF ReportDrafted, LoopInv, EndInv, EmitInv, TypeOK, thread
<1>2. CASE ~ReportValid(goal, facts, notes, d)
  <2>1. Fail /\ UNCHANGED report
    BY <1>2 DEF ReportDrafted
  <2> QED
    BY <1>1, <2>1, FailedKeeps
<1>3. CASE ReportValid(goal, facts, notes, d)
  <2>1. report' = d /\ Emit(<<"report">>) /\ Return("completed")
    BY <1>3 DEF ReportDrafted
  <2>2. <<"report">> \in Seq(EventKinds) /\ ToSet(<<"report">>) = {"report"}
    BY OneKind DEF EventKinds
  <2>3. EmitInv' /\ EndInv' /\ taken' \in 0..Len(emitted')
    BY <1>1, <2>1, <2>2, Returning DEF Wants
  <2>4. pc' = "ended" /\ pump' = "done" /\ ending' = "completed" /\ pack' = pack /\ outcome' = outcome
    BY <1>1, <2>1 DEF Return, consumer
  <2>5. PlanInv'
    BY <1>1, <2>4 DEF LoopInv, PlanInv, PlanOk, Bound, Computed, InScope
  <2>6. ReportGrounded'
    <3>1. /\ \A i \in DOMAIN notes : \A claim \in ToSet(notes[i].claims) :
               /\ \E j \in 1..i : (\A ref \in claim.refs : ref.fact = facts[j].step) /\ ClaimTrueOf(claim, facts[j])
               /\ \A ref \in claim.refs : ref.revision = notes[i].revision
      BY DEF LoopInv, TurnInv, ReportGrounded
    <3>2. ASSUME NEW claim \in d.claims
          PROVE  \E i \in DOMAIN notes : \A j \in DOMAIN notes : claim \in ToSet(notes[j].claims) <=> i = j
      <4>1. PICK i \in DOMAIN notes : claim \in ToSet(notes[i].claims)
        BY <1>3, <3>2 DEF ReportValid, ClaimsOf
      <4>2. \A j \in DOMAIN notes : claim \in ToSet(notes[j].claims) => i = j
        BY <1>3, <4>1 DEF ReportValid, ClaimsDistinct
      <4> QED
        BY <4>1, <4>2
    <3>3. ASSUME NEW action \in d.actions
          PROVE  action.claims \subseteq d.claims /\ action.facts \subseteq {facts[i].step : i \in DOMAIN facts}
      BY <1>3 DEF ReportValid, ActionsBacked, ToSet
    <3> QED
      BY <1>1, <2>1, <3>1, <3>2, <3>3 DEF ReportGrounded
  <2>7. TurnInv'
    BY <1>1, <2>4, <2>6 DEF LoopInv, TurnInv
  <2>8. TypeOK'
    BY <1>1, <2>3, <2>4 DEF LoopInv, TypeOK
  <2> QED
    BY <1>1, <2>3, <2>5, <2>7, <2>8 DEF LoopInv
<1> QED
  BY <1>2, <1>3

LEMMA StartKeeps ==
  ASSUME LoopInv, StartStep
  PROVE  LoopInv'
<1>1. /\ pc = "step" /\ pc # "ended" /\ worker \notin Working /\ attempt \in 0..2
      /\ UNCHANGED <<model, expired, stopped, taken, consumer>> /\ Has("goal") /\ Has("plan")
  BY DEF StartStep, LoopInv, EndInv, EmitInv, TypeOK
<1>2. CASE ~Ready(plan, current, completed)
  <2>1. Fail /\ UNCHANGED <<worker, result>>
    BY <1>2 DEF StartStep
  <2> QED
    BY <1>1, <2>1, FailedKeeps DEF model
<1>3. CASE Ready(plan, current, completed)
  <2>1. Emit(<<"activity">>) /\ GoOn("executing") /\ worker' = "queued" /\ result' = [kind |-> "none"]
    BY <1>3 DEF StartStep
  <2>2. <<"activity">> \in Seq(EventKinds) /\ ToSet(<<"activity">>) = {"activity"}
    BY OneKind DEF EventKinds
  <2>3. EmitInv' /\ EndInv' /\ taken' \in 0..Len(emitted')
    BY <1>1, <2>1, <2>2, GoingOn DEF Wants
  <2>4. pc' = "executing" /\ pump' = pump /\ ending' = ending /\ pack' = pack /\ outcome' = outcome
    BY <1>1, <2>1 DEF GoOn, ends, consumer
  <2>5. /\ plan' = plan /\ goal' = goal /\ completed' = completed /\ current' = current /\ facts' = facts
        /\ notes' = notes /\ report' = report /\ attempt' = attempt
    BY <1>1 DEF model
  <2>6. PlanInv'
    BY <1>1, <1>3, <2>4, <2>5 DEF LoopInv, PlanInv, PlanOk, Bound, Computed, InScope
  <2>7. TurnInv'
    BY <1>1, <2>4, <2>5 DEF LoopInv, TurnInv, ReportGrounded
  <2>8. TypeOK'
    BY <1>1, <2>1, <2>3, <2>4, <2>5 DEF LoopInv, TypeOK, Working
  <2> QED
    BY <2>3, <2>5, <2>6, <2>7, <2>8 DEF LoopInv
<1> QED
  BY <1>2, <1>3

LEMMA ComputedKeeps ==
  ASSUME LoopInv, StepComputed
  PROVE  LoopInv'
<1>1. /\ pc = "executing" /\ pc # "ended" /\ worker' = "idle" /\ worker' \notin Working /\ attempt \in 0..2
      /\ UNCHANGED <<goal, plan, completed, current, draft, report, attempt, notes, expired, stopped, result, taken, consumer>>
      /\ Has("goal") /\ Has("plan") /\ Ready(plan, current, completed) /\ Computed = completed
      /\ Len(facts) = Len(notes)
  BY DEF StepComputed, LoopInv, EndInv, EmitInv, TypeOK, Working, PlanInv, TurnInv
<1>2. CASE result.kind = "fact" /\ FactBinds(StepOf(plan, current), result.fact)
  <2>1. facts' = Append(facts, result.fact) /\ Emit(<<"fact">>) /\ GoOn("note")
    BY <1>2 DEF StepComputed
  <2>2. <<"fact">> \in Seq(EventKinds) /\ ToSet(<<"fact">>) = {"fact"}
    BY OneKind DEF EventKinds
  <2>3. EmitInv' /\ EndInv' /\ taken' \in 0..Len(emitted')
    BY <1>1, <2>1, <2>2, GoingOn DEF Wants
  <2>4. pc' = "note" /\ pump' = pump /\ ending' = ending /\ pack' = pack /\ outcome' = outcome
    BY <1>1, <2>1 DEF GoOn, ends, consumer
  <2>5. /\ IsSeq(facts') /\ Len(facts) \in Nat /\ Len(facts') = Len(facts) + 1
        /\ DOMAIN facts = 1..Len(facts) /\ DOMAIN facts' = 1..(Len(facts) + 1)
        /\ facts'[Len(facts) + 1] = result.fact /\ \A i \in 1..Len(facts) : facts'[i] = facts[i]
    BY <2>1, SeqAppend DEF LoopInv
  <2>6. PICK k \in DOMAIN plan.steps : plan.steps[k].id = current /\ StepOf(plan, current) = plan.steps[k]
    BY <1>1, StepOfId DEF Ready
  <2>7. /\ result.fact.step = current /\ result.fact.inputs \subseteq completed /\ current \notin completed
    BY <1>1, <1>2, <2>6 DEF FactBinds, Ready
  <2>8. Bound(plan)'
    <3>1. ASSUME NEW i \in DOMAIN facts'
          PROVE  /\ \E j \in DOMAIN plan.steps : facts'[i].step = plan.steps[j].id /\ FactBinds(plan.steps[j], facts'[i])
                 /\ facts'[i].inputs \subseteq {facts'[j].step : j \in 1..(i - 1)}
      <4>1. CASE i \in 1..Len(facts)
        <5>1. facts'[i] = facts[i] /\ \A j \in 1..(i - 1) : facts'[j] = facts[j]
          BY <2>5, <4>1
        <5>2. /\ \E j \in DOMAIN plan.steps : facts[i].step = plan.steps[j].id /\ FactBinds(plan.steps[j], facts[i])
              /\ facts[i].inputs \subseteq {facts[j].step : j \in 1..(i - 1)}
          BY <2>5, <4>1 DEF LoopInv, PlanInv, Bound
        <5> QED
          BY <5>1, <5>2
      <4>2. CASE i = Len(facts) + 1
        <5>1. facts'[i].step = plan.steps[k].id /\ FactBinds(plan.steps[k], facts'[i])
          BY <1>2, <2>5, <2>6, <2>7, <4>2
        <5>2. ASSUME NEW x \in completed PROVE x \in {facts'[j].step : j \in 1..(i - 1)}
          <6>1. PICK j \in DOMAIN facts : facts[j].step = x
            BY <1>1 DEF Computed
          <6>2. j \in 1..(i - 1) /\ facts'[j] = facts[j]
            BY <2>5, <4>2
          <6> QED
            BY <6>1, <6>2
        <5> QED
          BY <2>5, <2>7, <4>2, <5>1, <5>2
      <4> QED
        BY <2>5, <4>1, <4>2
    <3> QED
      BY <1>1, <3>1 DEF Bound
  <2>9. Computed' = completed \cup {current}
    <3>1. \A i \in DOMAIN facts' : facts'[i].step \in completed \cup {current}
      BY <1>1, <2>5, <2>7 DEF Computed
    <3>2. \A x \in completed : \E i \in DOMAIN facts' : facts'[i].step = x
      <4>1. \A x \in completed : \E i \in DOMAIN facts : facts[i].step = x
        BY <1>1 DEF Computed
      <4> QED
        BY <2>5, <4>1
    <3>3. \E i \in DOMAIN facts' : facts'[i].step = current
      BY <2>5, <2>7
    <3> QED
      BY <3>1, <3>2, <3>3 DEF Computed
  <2>10. \A i, j \in DOMAIN facts' : facts'[i].step = facts'[j].step => i = j
    <3>1. \A i, j \in DOMAIN facts : facts[i].step = facts[j].step => i = j
      BY DEF LoopInv, PlanInv
    <3>2. \A i \in DOMAIN facts : facts'[i] = facts[i] /\ facts[i].step # current
      BY <1>1, <2>5, <2>7 DEF Computed
    <3> QED
      BY <2>5, <2>7, <3>1, <3>2
  <2>11. PlanInv'
    <3>1. PlanOk(plan)' /\ attempt \in 0..1
      BY <1>1 DEF LoopInv, PlanInv, PlanOk, InScope
    <3> QED
      BY <1>1, <2>4, <2>8, <2>9, <2>10, <3>1 DEF PlanInv
  <2>12. ReportGrounded'
    <3>1. \A i \in DOMAIN facts : i \in DOMAIN facts' /\ facts'[i] = facts[i]
      BY <2>5
    <3>2. ASSUME NEW i \in DOMAIN notes, NEW claim \in ToSet(notes[i].claims)
          PROVE  /\ \E j \in 1..i : (\A ref \in claim.refs : ref.fact = facts'[j].step) /\ ClaimTrueOf(claim, facts'[j])
                 /\ \A ref \in claim.refs : ref.revision = notes[i].revision
      <4>1. PICK j \in 1..i : (\A ref \in claim.refs : ref.fact = facts[j].step) /\ ClaimTrueOf(claim, facts[j])
        BY <3>2 DEF LoopInv, TurnInv, ReportGrounded
      <4>2. facts'[j] = facts[j]
        <5>1. IsSeq(notes)
          BY DEF LoopInv
        <5>2. DOMAIN notes = 1..Len(notes) /\ Len(notes) \in Nat
          BY <5>1, SeqLen
        <5> QED
          BY <1>1, <2>5, <5>2
      <4>3. \A ref \in claim.refs : ref.revision = notes[i].revision
        BY <3>2 DEF LoopInv, TurnInv, ReportGrounded
      <4> QED
        BY <4>1, <4>2, <4>3
    <3>3. report = NoReport
      BY <1>1 DEF LoopInv, TurnInv
    <3> QED
      BY <1>1, <3>2, <3>3 DEF ReportGrounded, NoReport
  <2>13. TurnInv'
    BY <1>1, <2>4, <2>5, <2>12 DEF LoopInv, TurnInv
  <2>14. TypeOK'
    BY <1>1, <2>3, <2>4 DEF LoopInv, TypeOK, Stages
  <2> QED
    BY <1>1, <2>3, <2>5, <2>11, <2>13, <2>14 DEF LoopInv
<1>3. CASE result.kind = "nodata" /\ ~(result.kind = "fact" /\ FactBinds(StepOf(plan, current), result.fact))
  <2>1. Emit(<<"error">>) /\ Return("degraded") /\ facts' = facts
    BY <1>3 DEF StepComputed
  <2>2. <<"error">> \in Seq(EventKinds) /\ ToSet(<<"error">>) = {"error"}
    BY OneKind DEF EventKinds
  <2> QED
    BY <1>1, <2>1, <2>2, FailKeeps
<1>4. CASE result.kind # "nodata" /\ ~(result.kind = "fact" /\ FactBinds(StepOf(plan, current), result.fact))
  <2>1. Fail /\ facts' = facts
    BY <1>4 DEF StepComputed
  <2> QED
    BY <1>1, <2>1, FailedKeeps
<1> QED
  BY <1>2, <1>3, <1>4

-----------------------------------------------------------------------------
(* The invariant.                                                          *)

LEMMA LoopInit ==
  ASSUME Init
  PROVE  LoopInv
<1>1. << >> \in Seq(EventKinds) /\ Len(<< >>) = 0 /\ DOMAIN << >> = {} /\ ToSet(<< >>) = {} /\ IsSeq(<< >>)
  <2>1. << >> \in Seq(EventKinds)
    OBVIOUS
  <2> QED
    BY <2>1 DEF ToSet, IsSeq
<1>2. NoPlan.steps = << >> /\ IdsOf(NoPlan) = {} /\ MaxSteps \in Nat
  BY RulesAssumption DEF NoPlan, IdsOf
<1>3. TypeOK
  BY <1>1, <1>2 DEF Init, TypeOK, Stages
<1>4. PlanInv
  BY <1>1, <1>2 DEF Init, PlanInv, PlanOk, Bound, Computed, InScope
<1>5. TurnInv
  BY <1>1 DEF Init, TurnInv, ReportGrounded, NoReport
<1>6. EmitInv
  BY <1>1 DEF Init, EmitInv, InOrder, Has
<1>7. EndInv
  BY DEF Init, EndInv, Working
<1> QED
  BY <1>1, <1>3, <1>4, <1>5, <1>6, <1>7 DEF LoopInv, Init

LEMMA AnsweredKeeps ==
  ASSUME Drafted, LoopInv, Answered
  PROVE  LoopInv'
<1>1. CASE \E d \in Goals : GoalDecided(d)
  BY <1>1, GoalKeeps
<1>2. CASE \E p \in FirstPlans(goal) : PlanDrafted(p)
  BY <1>2, PlanKeeps
<1>3. CASE \E d \in NoteDrafts(Last(facts), facts, plan.revision) : NoteDrafted(d)
  BY <1>3, NoteDraftedKeeps
<1>4. CASE Selected([kind |-> "stop", next |-> NoStep, plan |-> NoPlan])
  <2> DEFINE s == [kind |-> "stop", next |-> NoStep, plan |-> NoPlan]
  <2>1. Selected(s) /\ s.kind = "stop" /\ s.plan = NoPlan
    BY <1>4
  <2> HIDE DEF s
  <2> QED
    BY <2>1, SelectedKeeps
<1>5. CASE \E id \in IdsOf(plan) : Selected([kind |-> "continue", next |-> id, plan |-> NoPlan])
  <2>1. PICK id \in IdsOf(plan) : Selected([kind |-> "continue", next |-> id, plan |-> NoPlan])
    BY <1>5
  <2> DEFINE s == [kind |-> "continue", next |-> id, plan |-> NoPlan]
  <2>2. Selected(s) /\ s.kind = "continue" /\ s.plan = NoPlan
    BY <2>1
  <2> HIDE DEF s
  <2> QED
    BY <2>2, SelectedKeeps
<1>6. CASE \E p \in Revisions(plan) : \E id \in IdsOf(p) : Selected([kind |-> "revise", next |-> id, plan |-> p])
  <2>p. PICK p \in Revisions(plan) : \E id \in IdsOf(p) : Selected([kind |-> "revise", next |-> id, plan |-> p])
    BY <1>6
  <2>1. PICK id \in IdsOf(p) : Selected([kind |-> "revise", next |-> id, plan |-> p])
    BY <2>p
  <2> DEFINE s == [kind |-> "revise", next |-> id, plan |-> p]
  <2>2. Selected(s) /\ s.kind = "revise" /\ s.plan \in Revisions(plan)
    BY <2>1
  <2> HIDE DEF s
  <2> QED
    BY <2>2, SelectedKeeps
<1>7. CASE \E d \in ReportDrafts(goal, notes) : ReportDrafted(d)
  BY <1>7, ReportKeeps
<1> QED
  BY <1>1, <1>2, <1>3, <1>4, <1>5, <1>6, <1>7, ModelFailsKeeps DEF Answered

LEMMA LoopStep ==
  ASSUME Drafted, LoopInv, [Next]_vars
  PROVE  LoopInv'
<1>1. CASE Answered
  BY <1>1, AnsweredKeeps
<1>2. CASE Threads
  BY <1>2, ThreadKeeps
<1>3. CASE Steps
  BY <1>3, StartKeeps, ComputedKeeps, CancelKeeps DEF Steps
<1>4. CASE Generator \/ DeadlinePasses \/ KernelCloses \/ CancelledAgain \/ UNCHANGED vars
  BY <1>4, OthersKeep DEF Generator
<1> QED
  BY <1>1, <1>2, <1>3, <1>4 DEF Next

\* The invariant of the loop, in every state it can reach.
THEOREM LoopInvariant ==
  ASSUME Drafted
  PROVE  Spec => []LoopInv
<1>1. Init => LoopInv
  BY LoopInit
<1>2. LoopInv /\ [Next]_vars => LoopInv'
  BY LoopStep
<1> QED
  BY <1>1, <1>2, PTL DEF Spec

-----------------------------------------------------------------------------
(* What follows from it.                                                   *)

\* Facts of distinct Steps of a Plan are no more than its Steps.
LEMMA NoMoreFacts ==
  ASSUME LoopInv
  PROVE  Len(facts) <= MaxSteps
<1>1. /\ Len(facts) \in Nat /\ DOMAIN facts = 1..Len(facts)
      /\ Len(plan.steps) \in Nat /\ DOMAIN plan.steps = 1..Len(plan.steps) /\ Len(plan.steps) <= MaxSteps
  BY SeqLen DEF LoopInv, PlanInv, PlanOk
<1> DEFINE Place(i) == CHOOSE k \in DOMAIN plan.steps : facts[i].step = plan.steps[k].id
           place == [i \in 1..Len(facts) |-> Place(i)]
<1>2. \A i \in 1..Len(facts) : Place(i) \in DOMAIN plan.steps /\ facts[i].step = plan.steps[Place(i)].id
  BY <1>1 DEF LoopInv, PlanInv, Bound
<1>3. \A i, j \in 1..Len(facts) : Place(i) = Place(j) => i = j
  <2>1. \A i, j \in 1..Len(facts) : facts[i].step = facts[j].step => i = j
    BY <1>1 DEF LoopInv, PlanInv
  <2> HIDE DEF Place
  <2> QED
    BY <1>2, <2>1
<1> HIDE DEF Place
<1>4. place \in Injection(1..Len(facts), 1..Len(plan.steps))
  BY <1>1, <1>2, <1>3 DEF Injection, IsInjective
<1>5. /\ IsFiniteSet(1..Len(facts)) /\ Cardinality(1..Len(facts)) = Len(facts)
      /\ IsFiniteSet(1..Len(plan.steps)) /\ Cardinality(1..Len(plan.steps)) = Len(plan.steps)
  <2>1. ASSUME NEW n \in Nat PROVE IsFiniteSet(1..n) /\ Cardinality(1..n) = n
    <3>1. 1 \in Int /\ n \in Int
      OBVIOUS
    <3>2. IsFiniteSet(1..n) /\ Cardinality(1..n) = IF 1 > n THEN 0 ELSE n - 1 + 1
      BY <3>1, FS_Interval
    <3> QED
      BY <3>2
  <2> HIDE DEF place
  <2> QED
    BY <1>1, <2>1
<1>6. Cardinality(1..Len(facts)) <= Cardinality(1..Len(plan.steps))
  BY <1>4, <1>5, FS_Injection
<1> QED
  BY <1>1, <1>5, <1>6, RulesAssumption

LEMMA HonouredFollows ==
  ASSUME LoopInv
  PROVE  PlanHonoured
<1>1. ASSUME NEW i \in DOMAIN facts
      PROVE  /\ facts[i].step \in IdsOf(plan) /\ FactBinds(StepOf(plan, facts[i].step), facts[i])
             /\ facts[i].sources \subseteq goal.sources
             /\ facts[i].inputs \subseteq {facts[j].step : j \in 1..(i - 1)}
  <2>1. /\ \A k, l \in DOMAIN plan.steps : plan.steps[k].id = plan.steps[l].id => k = l
        /\ \A k \in DOMAIN plan.steps : plan.steps[k].sources \subseteq goal.sources
    BY DEF LoopInv, PlanInv, PlanOk, InScope
  <2>2. PICK k \in DOMAIN plan.steps : facts[i].step = plan.steps[k].id /\ FactBinds(plan.steps[k], facts[i])
    BY DEF LoopInv, PlanInv, Bound
  <2>3. StepOf(plan, plan.steps[k].id) = plan.steps[k] /\ plan.steps[k].id \in IdsOf(plan)
    BY <2>1, StepAt
  <2>4. facts[i].sources = plan.steps[k].sources
    BY <2>2 DEF FactBinds
  <2>5. facts[i].inputs \subseteq {facts[j].step : j \in 1..(i - 1)}
    BY DEF LoopInv, PlanInv, Bound
  <2> QED
    BY <2>1, <2>2, <2>3, <2>4, <2>5
<1>2. /\ \A i, j \in DOMAIN facts : facts[i].step = facts[j].step => i = j
      /\ completed \subseteq {facts[i].step : i \in DOMAIN facts}
  BY DEF LoopInv, PlanInv, Computed
<1> QED
  BY <1>1, <1>2, NoMoreFacts DEF PlanHonoured, LoopInv

LEMMA ContractFollows ==
  ASSUME LoopInv
  PROVE  ByContract
<1> DEFINE seen == SubSeq(emitted, 1, taken)
<1>1. taken \in 0..Len(emitted) /\ Len(emitted) \in Nat /\ emitted \in Seq(EventKinds) /\ DOMAIN emitted = 1..Len(emitted)
  BY LenProperties DEF LoopInv, TypeOK, EmitInv
<1>2. /\ seen \in Seq(EventKinds) /\ Len(seen) = taken /\ DOMAIN seen = 1..taken
      /\ \A i \in 1..taken : seen[i] = emitted[i]
  <2>1. \A i \in 1..taken : emitted[i] \in EventKinds
    <3>1. \A i \in 1..Len(emitted) : emitted[i] \in EventKinds
      BY <1>1, ElementOfSeq
    <3> QED
      BY <1>1, <3>1
  <2>2. /\ seen \in Seq(EventKinds)
        /\ Len(seen) = IF 1 <= taken THEN taken - 1 + 1 ELSE 0
        /\ \A i \in 1..(taken - 1 + 1) : seen[i] = emitted[1 + i - 1]
    BY <1>1, <2>1, SubSeqProperties
  <2> HIDE DEF seen
  <2> QED
    BY <1>1, <2>2, LenProperties
<1> HIDE DEF seen
<1>3. \A kind \in ToSet(seen) : Has(kind)
  BY <1>1, <1>2 DEF Has, ToSet
<1>4. ASSUME NEW i \in DOMAIN seen, IsEmission(seen[i]) PROVE \E j \in 1..i : seen[j] = Wants(seen[i])
  <2>1. i \in DOMAIN emitted /\ emitted[i] = seen[i]
    BY <1>1, <1>2
  <2>2. PICK j \in 1..i : emitted[j] = Wants(seen[i])
    BY <1>4, <2>1 DEF LoopInv, EmitInv, InOrder
  <2> QED
    BY <1>1, <1>2, <2>2
<1>5. ASSUME outcome # "none", NEW kind, Has(kind) PROVE kind \in ToSet(seen)
  <2>1. taken = Len(emitted)
    BY <1>5 DEF LoopInv, EndInv
  <2>2. PICK i \in DOMAIN emitted : emitted[i] = kind
    BY <1>5 DEF Has, ToSet
  <2>3. i \in DOMAIN seen /\ seen[i] = kind
    BY <1>1, <1>2, <2>1, <2>2
  <2> QED
    BY <2>3 DEF ToSet
<1>6. /\ outcome = "completed" => Has("report")
      /\ outcome = "awaiting" => Has("asked")
      /\ outcome \in {"failed", "degraded"} => Has("error")
      /\ Has("report") \/ Has("asked") => ~Has("error")
  BY DEF LoopInv, EndInv, EmitInv
<1>7. ContractKept
  <2>1. /\ outcome = "completed" => "report" \in ToSet(seen)
        /\ outcome = "awaiting" => "asked" \in ToSet(seen)
        /\ outcome \in {"failed", "degraded"} => "error" \in ToSet(seen)
        /\ ("report" \in ToSet(seen) \/ "asked" \in ToSet(seen)) => "error" \notin ToSet(seen)
    BY <1>3, <1>5, <1>6
  <2> QED
    BY <1>4, <2>1 DEF ContractKept, seen
<1>8. StopsWork
  BY DEF LoopInv, EndInv, StopsWork
<1> QED
  BY <1>7, <1>8 DEF ByContract

\* Whatever a model drafts, the Facts of an analysis are those of distinct
\* Steps of the Plan in force, each made from the Facts of earlier Steps and
\* within the Goal's sources: no revision changes what has been computed
\* (validate_plan_revision, _select_ready_step, validate_fact_against_step).
THEOREM PlanIsHonoured ==
  ASSUME Drafted
  PROVE  Spec => []PlanHonoured
<1>1. LoopInv => PlanHonoured
  BY HonouredFollows
<1> QED
  BY <1>1, LoopInvariant, PTL

\* Whatever a model writes, each Claim of a Note is true of a Fact computed by
\* then, and a report selects Claims that exactly one Note made
\* (claim_validator, render_verified_note, compose_customer_signal_report).
THEOREM ReportIsGrounded ==
  ASSUME Drafted
  PROVE  Spec => []ReportGrounded
<1>1. LoopInv => ReportGrounded
  BY DEF LoopInv, TurnInv
<1> QED
  BY <1>1, LoopInvariant, PTL

\* Whatever a model answers and whoever cancels, the emissions the Pack hands
\* to the kernel come in the order its contract wants, the outcome comes after
\* all of them and says what they say, and a thread that is left behind has
\* been told to stop (CustomerSignalPack.execute, execute_async).
THEOREM KeepsTheContract ==
  ASSUME Drafted
  PROVE  Spec => []ByContract
<1>1. LoopInv => ByContract
  BY ContractFollows
<1> QED
  BY <1>1, LoopInvariant, PTL

-----------------------------------------------------------------------------
(* The scripted model of the fixture mode.                                 *)

ScriptedPrimitives ==
  {"catalog_sources", "profile_events", "aggregate_events", "match_sequence", "get_customer_journey",
   "get_evidence", "segment_customers"}

\* The deployment the script is written for: its sources support what it asks
\* of them, its fields are canonical, and its Plans have three or four Steps.
ScriptServed ==
  /\ \A s \in Enabled : ScriptedPrimitives \subseteq Capability[s]
  /\ {"topic", "outcome"} \subseteq Canonical
  /\ MinSteps <= 3 /\ 4 <= MaxSteps

\* What the report and the first Plan start from.
StartsInv == (pc = "plan" => GoalValid(goal)) /\ (pc = "report" => notes # << >>)

ScriptIds == {"catalog", "profile", "topics", "sequence", "journey", "evidence", "segment"}

LEMMA Joined ==
  ASSUME NEW S, NEW a \in S, NEW t \in Seq(S)
  PROVE  /\ IsSeq(<<a>> \o t) /\ Len(<<a>> \o t) = 1 + Len(t) /\ DOMAIN (<<a>> \o t) = 1..(1 + Len(t))
         /\ (<<a>> \o t)[1] = a /\ \A i \in 1..Len(t) : (<<a>> \o t)[1 + i] = t[i]
<1>1. <<a>> \in Seq(S) /\ Len(<<a>>) = 1 /\ <<a>>[1] = a /\ Len(t) \in Nat
  BY LenProperties
<1> DEFINE j == <<a>> \o t
           o == <<a>>
<1> HIDE DEF o
<1>2. /\ j \in Seq(S) /\ Len(j) = 1 + Len(t)
      /\ \A i \in 1..(1 + Len(t)) : j[i] = IF i <= 1 THEN o[i] ELSE t[i - 1]
  BY <1>1, ConcatProperties DEF o
<1>3. DOMAIN j = 1..Len(j)
  BY <1>2, LenProperties
<1>4. j[1] = a
  BY <1>1, <1>2 DEF o
<1>5. ASSUME NEW i \in 1..Len(t) PROVE j[1 + i] = t[i]
  <2>1. 1 + i \in 1..(1 + Len(t)) /\ ~(1 + i <= 1) /\ (1 + i) - 1 = i
    BY <1>1
  <2> QED
    BY <1>2, <2>1
<1>6. IsSeq(j)
  BY <1>2 DEF IsSeq
<1> QED
  BY <1>2, <1>3, <1>4, <1>5, <1>6 DEF o

\* Each Step of a scripted Plan takes the Fact of an earlier one, or none.
LEMMA ScriptSteps ==
  ASSUME NEW of, of.id \in Scenarios
  PROVE  LET steps == FixturePlan(of).steps
         IN  /\ IsSeq(steps) /\ Len(steps) \in 3..4 /\ DOMAIN steps = 1..Len(steps)
             /\ \A i \in DOMAIN steps :
                  /\ steps[i].id \in ScriptIds /\ steps[i].primitive \in ScriptedPrimitives
                  /\ steps[i].sources = of.sources
                  /\ \A ref \in steps[i].fields : ref.source = AnySource /\ ref.name \in {"topic", "outcome"}
                  /\ steps[i].primitive \in {"get_customer_journey", "get_evidence"} =>
                       i # 1 /\ steps[i].needs = {steps[i - 1].id}
                  /\ steps[i].primitive \notin {"get_customer_journey", "get_evidence"} => steps[i].needs = {}
             /\ \A i, j \in DOMAIN steps : steps[i].id = steps[j].id => i = j
<1> DEFINE steps == FixturePlan(of).steps
           a == FixtureStep(of, "catalog", "catalog_sources", {}, {}, NoStop)
<1>1. CASE of.id = "negative"
  <2> DEFINE b == FixtureStep(of, "profile", "profile_events", {}, {}, NoStop)
             c == FixtureStep(of, "topics", "aggregate_events", {}, {"topic", "outcome"}, NoStop)
  <2>1. steps = <<a>> \o <<b, c>>
    BY <1>1 DEF FixturePlan
  <2>2. /\ IsSeq(steps) /\ Len(steps) = 3 /\ DOMAIN steps = 1..3
        /\ steps[1] = a /\ steps[2] = b /\ steps[3] = c
    <3> HIDE DEF a, b, c, steps
    <3>1. <<b, c>> \in Seq({a, b, c}) /\ Len(<<b, c>>) = 2 /\ <<b, c>>[1] = b /\ <<b, c>>[2] = c
      OBVIOUS
    <3> DEFINE t == <<b, c>>
    <3> HIDE DEF t
    <3>2. t \in Seq({a, b, c}) /\ Len(t) = 2 /\ t[1] = b /\ t[2] = c /\ steps = <<a>> \o t
      BY <2>1, <3>1 DEF t
    <3>3. /\ IsSeq(steps) /\ Len(steps) = 1 + 2 /\ DOMAIN steps = 1..(1 + 2) /\ steps[1] = a
          /\ \A i \in 1..2 : steps[1 + i] = t[i]
      <4>1. a \in {a, b, c}
        OBVIOUS
      <4> DEFINE S == {a, b, c}
      <4>2. a \in S /\ t \in Seq(S)
        BY <3>2, <4>1
      <4> HIDE DEF S
      <4>3. /\ IsSeq(<<a>> \o t) /\ Len(<<a>> \o t) = 1 + Len(t) /\ DOMAIN (<<a>> \o t) = 1..(1 + Len(t))
            /\ (<<a>> \o t)[1] = a /\ \A i \in 1..Len(t) : (<<a>> \o t)[1 + i] = t[i]
        BY <4>2, Joined
      <4> QED
        BY <3>2, <4>3
    <3>4. steps[2] = b /\ steps[3] = c
      <4>1. 1 \in 1..2 /\ 2 \in 1..2 /\ 1 + 1 = 2 /\ 1 + 2 = 3
        OBVIOUS
      <4>2. steps[1 + 1] = t[1] /\ steps[1 + 2] = t[2]
        BY <3>3, <4>1
      <4> QED
        BY <3>2, <4>1, <4>2
    <3> QED
      BY <3>3, <3>4
  <2> HIDE DEF steps
  <2>3. ASSUME NEW i \in DOMAIN steps
        PROVE  /\ steps[i].id \in ScriptIds /\ steps[i].primitive \in ScriptedPrimitives
               /\ steps[i].sources = of.sources /\ steps[i].needs = {}
               /\ \A ref \in steps[i].fields : ref.source = AnySource /\ ref.name \in {"topic", "outcome"}
               /\ steps[i].primitive \notin {"get_customer_journey", "get_evidence"}
    BY <2>2 DEF FixtureStep, ScriptIds, ScriptedPrimitives
  <2>4. \A i, j \in DOMAIN steps : steps[i].id = steps[j].id => i = j
    BY <2>2 DEF FixtureStep
  <2> QED
    BY <2>2, <2>3, <2>4 DEF steps
<1>2. CASE of.id = "signup"
  <2> DEFINE b == FixtureStep(of, "sequence", "match_sequence", {}, {}, NoStop)
             c == FixtureStep(of, "segment", "segment_customers", {}, {"outcome"}, NoStop)
  <2>1. steps = <<a>> \o <<b, c>>
    BY <1>2 DEF FixturePlan
  <2>2. /\ IsSeq(steps) /\ Len(steps) = 3 /\ DOMAIN steps = 1..3
        /\ steps[1] = a /\ steps[2] = b /\ steps[3] = c
    <3> HIDE DEF a, b, c, steps
    <3>1. <<b, c>> \in Seq({a, b, c}) /\ Len(<<b, c>>) = 2 /\ <<b, c>>[1] = b /\ <<b, c>>[2] = c
      OBVIOUS
    <3> DEFINE t == <<b, c>>
    <3> HIDE DEF t
    <3>2. t \in Seq({a, b, c}) /\ Len(t) = 2 /\ t[1] = b /\ t[2] = c /\ steps = <<a>> \o t
      BY <2>1, <3>1 DEF t
    <3>3. /\ IsSeq(steps) /\ Len(steps) = 1 + 2 /\ DOMAIN steps = 1..(1 + 2) /\ steps[1] = a
          /\ \A i \in 1..2 : steps[1 + i] = t[i]
      <4>1. a \in {a, b, c}
        OBVIOUS
      <4> DEFINE S == {a, b, c}
      <4>2. a \in S /\ t \in Seq(S)
        BY <3>2, <4>1
      <4> HIDE DEF S
      <4>3. /\ IsSeq(<<a>> \o t) /\ Len(<<a>> \o t) = 1 + Len(t) /\ DOMAIN (<<a>> \o t) = 1..(1 + Len(t))
            /\ (<<a>> \o t)[1] = a /\ \A i \in 1..Len(t) : (<<a>> \o t)[1 + i] = t[i]
        BY <4>2, Joined
      <4> QED
        BY <3>2, <4>3
    <3>4. steps[2] = b /\ steps[3] = c
      <4>1. 1 \in 1..2 /\ 2 \in 1..2 /\ 1 + 1 = 2 /\ 1 + 2 = 3
        OBVIOUS
      <4>2. steps[1 + 1] = t[1] /\ steps[1 + 2] = t[2]
        BY <3>3, <4>1
      <4> QED
        BY <3>2, <4>1, <4>2
    <3> QED
      BY <3>3, <3>4
  <2> HIDE DEF steps
  <2>3. ASSUME NEW i \in DOMAIN steps
        PROVE  /\ steps[i].id \in ScriptIds /\ steps[i].primitive \in ScriptedPrimitives
               /\ steps[i].sources = of.sources /\ steps[i].needs = {}
               /\ \A ref \in steps[i].fields : ref.source = AnySource /\ ref.name \in {"topic", "outcome"}
               /\ steps[i].primitive \notin {"get_customer_journey", "get_evidence"}
    BY <2>2 DEF FixtureStep, ScriptIds, ScriptedPrimitives
  <2>4. \A i, j \in DOMAIN steps : steps[i].id = steps[j].id => i = j
    BY <2>2 DEF FixtureStep
  <2> QED
    BY <2>2, <2>3, <2>4 DEF steps
<1>3. CASE of.id = "repeat"
  <2> DEFINE b == FixtureStep(of, "sequence", "match_sequence", {}, {}, OnEmpty)
             c == FixtureStep(of, "journey", "get_customer_journey", {"sequence"}, {}, NoStop)
             e == FixtureStep(of, "evidence", "get_evidence", {"journey"}, {}, NoStop)
  <2>1. steps = <<a>> \o (<<b>> \o <<c, e>>)
    BY <1>3 DEF FixturePlan, Journey
  <2>2. /\ IsSeq(steps) /\ Len(steps) = 4 /\ DOMAIN steps = 1..4
        /\ steps[1] = a /\ steps[2] = b /\ steps[3] = c /\ steps[4] = e
    <3> HIDE DEF a, b, c, e, steps
    <3> DEFINE S == {a, b, c, e}
               t == <<c, e>>
               u == <<b>> \o t
    <3>1. t \in Seq(S) /\ Len(t) = 2 /\ t[1] = c /\ t[2] = e /\ a \in S /\ b \in S /\ <<b>> \in Seq(S)
      OBVIOUS
    <3> HIDE DEF u, S, t
    <3>2. /\ Len(u) = 1 + Len(t) /\ u[1] = b /\ \A i \in 1..Len(t) : u[1 + i] = t[i]
      <4>1. b \in S /\ t \in Seq(S)
        BY <3>1
      <4>2. /\ IsSeq(<<b>> \o t) /\ Len(<<b>> \o t) = 1 + Len(t) /\ DOMAIN (<<b>> \o t) = 1..(1 + Len(t))
            /\ (<<b>> \o t)[1] = b /\ \A i \in 1..Len(t) : (<<b>> \o t)[1 + i] = t[i]
        BY <4>1, Joined
      <4>3. u = <<b>> \o t
        BY DEF u
      <4> QED
        BY <4>2, <4>3
    <3>3. u \in Seq(S) /\ steps = <<a>> \o u
      BY <2>1, <3>1, ConcatProperties DEF t, u
    <3>4. /\ IsSeq(<<a>> \o u) /\ Len(<<a>> \o u) = 1 + Len(u) /\ DOMAIN (<<a>> \o u) = 1..(1 + Len(u))
          /\ (<<a>> \o u)[1] = a /\ \A i \in 1..Len(u) : (<<a>> \o u)[1 + i] = u[i]
      BY <3>1, <3>3, Joined
    <3>5. Len(u) = 3 /\ u[1] = b /\ u[2] = c /\ u[3] = e
      <4>1. 1 \in 1..2 /\ 2 \in 1..2 /\ 1 + 1 = 2 /\ 1 + 2 = 3
        OBVIOUS
      <4>2. u[1 + 1] = t[1] /\ u[1 + 2] = t[2]
        BY <3>1, <3>2, <4>1
      <4> QED
        BY <3>1, <3>2, <4>1, <4>2
    <3>6. /\ IsSeq(steps) /\ Len(steps) = 4 /\ DOMAIN steps = 1..4 /\ steps[1] = a
          /\ \A i \in 1..3 : steps[1 + i] = u[i]
      BY <3>3, <3>4, <3>5
    <3>7. steps[2] = b /\ steps[3] = c /\ steps[4] = e
      <4>1. /\ 1 \in 1..3 /\ 2 \in 1..3 /\ 3 \in 1..3
            /\ 1 + 1 = 2 /\ 1 + 2 = 3 /\ 1 + 3 = 4
        OBVIOUS
      <4>2. steps[1 + 1] = u[1] /\ steps[1 + 2] = u[2] /\ steps[1 + 3] = u[3]
        BY <3>6, <4>1
      <4> QED
        BY <3>5, <4>1, <4>2
    <3> QED
      BY <3>6, <3>7
  <2> HIDE DEF steps
  <2>3. ASSUME NEW i \in DOMAIN steps
        PROVE  /\ steps[i].id \in ScriptIds /\ steps[i].primitive \in ScriptedPrimitives
               /\ steps[i].sources = of.sources
               /\ \A ref \in steps[i].fields : ref.source = AnySource /\ ref.name \in {"topic", "outcome"}
               /\ steps[i].primitive \in {"get_customer_journey", "get_evidence"} =>
                    i # 1 /\ steps[i].needs = {steps[i - 1].id}
               /\ steps[i].primitive \notin {"get_customer_journey", "get_evidence"} => steps[i].needs = {}
    <3>1. CASE i = 1
      BY <2>2, <3>1 DEF FixtureStep, ScriptIds, ScriptedPrimitives
    <3>2. CASE i = 2
      BY <2>2, <3>2 DEF FixtureStep, ScriptIds, ScriptedPrimitives
    <3>3. CASE i = 3
      BY <2>2, <3>3 DEF FixtureStep, ScriptIds, ScriptedPrimitives
    <3>4. CASE i = 4
      BY <2>2, <3>4 DEF FixtureStep, ScriptIds, ScriptedPrimitives
    <3> QED
      BY <2>2, <3>1, <3>2, <3>3, <3>4
  <2>4. \A i, j \in DOMAIN steps : steps[i].id = steps[j].id => i = j
    BY <2>2 DEF FixtureStep
  <2> QED
    BY <2>2, <2>3, <2>4 DEF steps
<1> QED
  BY <1>1, <1>2, <1>3 DEF Scenarios

\* The validators accept a scripted Plan for any Goal they accepted.
LEMMA ScriptAccepted ==
  ASSUME ScriptServed, NEW g, g.id \in Scenarios, GoalValid(g)
  PROVE  FirstPlanValid(FixturePlan(g), g)
<1> DEFINE p == FixturePlan(g)
<1>1. /\ Len(p.steps) \in 3..4 /\ DOMAIN p.steps = 1..Len(p.steps)
      /\ \A i, j \in DOMAIN p.steps : p.steps[i].id = p.steps[j].id => i = j
  BY ScriptSteps
<1>2. \A i \in DOMAIN p.steps :
        /\ p.steps[i].primitive \in ScriptedPrimitives /\ p.steps[i].sources = g.sources
        /\ \A ref \in p.steps[i].fields : ref.source = AnySource /\ ref.name \in {"topic", "outcome"}
  BY ScriptSteps
<1>3. \A i \in DOMAIN p.steps :
        /\ p.steps[i].primitive \in {"get_customer_journey", "get_evidence"} =>
             i # 1 /\ p.steps[i].needs = {p.steps[i - 1].id}
        /\ p.steps[i].primitive \notin {"get_customer_journey", "get_evidence"} => p.steps[i].needs = {}
  BY ScriptSteps
<1>4. p.goal = g.id /\ p.revision = 0
  BY DEF FixturePlan
<1> HIDE DEF p
<1>5. WellOrdered(p.steps)
  <2>1. Len(p.steps) \in MinSteps..MaxSteps
    <3>1. MinSteps \in Nat /\ MaxSteps \in Nat
      BY RulesAssumption
    <3>2. MinSteps <= 3 /\ 4 <= MaxSteps
      BY DEF ScriptServed
    <3> DEFINE n == Len(p.steps)
    <3>3. n = 3 \/ n = 4
      BY <1>1
    <3> HIDE DEF n
    <3>4. n \in MinSteps..MaxSteps
      BY <3>1, <3>2, <3>3
    <3> QED
      BY <3>4 DEF n
  <2>2. ASSUME NEW i \in DOMAIN p.steps
        PROVE  /\ p.steps[i].needs \subseteq {p.steps[j].id : j \in 1..(i - 1)}
               /\ Cardinality(p.steps[i].needs) \in Arity[p.steps[i].primitive]
    <3>1. CASE p.steps[i].primitive \in {"get_customer_journey", "get_evidence"}
      <4>1. i # 1 /\ p.steps[i].needs = {p.steps[i - 1].id} /\ i - 1 \in 1..(i - 1)
        BY <1>1, <1>3, <3>1
      <4>2. Cardinality(p.steps[i].needs) = 1
        BY <4>1, FS_Singleton
      <4>3. 1 \in Arity[p.steps[i].primitive]
        BY <3>1 DEF Arity
      <4> QED
        BY <4>1, <4>2, <4>3
    <3>2. CASE p.steps[i].primitive \notin {"get_customer_journey", "get_evidence"}
      <4>1. p.steps[i].needs = {} /\ Cardinality(p.steps[i].needs) = 0
        BY <1>3, <3>2, FS_EmptySet
      <4>2. 0 \in Arity[p.steps[i].primitive]
        BY <1>2, <3>2 DEF Arity, ScriptedPrimitives
      <4> QED
        BY <4>1, <4>2
    <3> QED
      BY <3>1, <3>2
  <2> QED
    BY <1>1, <2>1, <2>2 DEF WellOrdered
<1>6. g.sources # {} /\ g.sources \subseteq Enabled
  BY DEF GoalValid
<1>7. ASSUME NEW i \in DOMAIN p.steps PROVE StepValid(p.steps[i])
  <2>1. \A s \in g.sources : p.steps[i].primitive \in Capability[s]
    BY <1>2, <1>6 DEF ScriptServed
  <2>2. ASSUME NEW ref \in p.steps[i].fields PROVE FieldAllowed(ref, g.sources)
    <3>1. ref.source = AnySource /\ ref.name \in Canonical /\ ref.name \notin Sensitive
      BY <1>2, RulesAssumption DEF ScriptServed
    <3> QED
      BY <3>1 DEF FieldAllowed
  <2> QED
    BY <1>2, <1>6, <2>1, <2>2 DEF StepValid
<1>8. InScope(p, g)
  BY <1>2 DEF InScope
<1> QED
  BY <1>4, <1>5, <1>7, <1>8 DEF FirstPlanValid, PlanValid, p

\* The Step the script selects is one that is ready.
LEMMA NextReady ==
  ASSUME NEW p, NEW of, of.id \in Scenarios, p = FixturePlan(of), NEW done, IdsOf(p) \ done # {}
  PROVE  Ready(p, FixtureNext(p, done), done)
<1> DEFINE First(i) == p.steps[i].id \notin done /\ \A j \in 1..(i - 1) : p.steps[j].id \in done
<1>1. /\ Len(p.steps) \in 3..4 /\ DOMAIN p.steps = 1..Len(p.steps)
      /\ \A i, j \in DOMAIN p.steps : p.steps[i].id = p.steps[j].id => i = j
  BY ScriptSteps
<1>2. \A i \in DOMAIN p.steps : p.steps[i].needs = {} \/ (i # 1 /\ p.steps[i].needs = {p.steps[i - 1].id})
  BY ScriptSteps
<1>3. \E i \in DOMAIN p.steps : First(i)
  <2>1. PICK k \in DOMAIN p.steps : p.steps[k].id \notin done
    BY DEF IdsOf
  <2>2. k \in {1, 2, 3, 4} /\ (k > 1 => 1 \in DOMAIN p.steps) /\ (k > 2 => 2 \in DOMAIN p.steps)
        /\ (k > 3 => 3 \in DOMAIN p.steps)
    BY <1>1, <2>1
  <2>3. CASE p.steps[1].id \notin done
    <3>1. First(1) /\ 1 \in DOMAIN p.steps
      BY <1>1, <2>3
    <3> QED
      BY <3>1
  <2>4. CASE p.steps[1].id \in done /\ p.steps[2].id \notin done
    <3>1. First(2) /\ 2 \in DOMAIN p.steps
      BY <1>1, <2>4
    <3> QED
      BY <3>1
  <2>5. CASE p.steps[1].id \in done /\ p.steps[2].id \in done /\ p.steps[3].id \notin done
    <3>1. First(3) /\ 3 \in DOMAIN p.steps
      BY <1>1, <2>5
    <3> QED
      BY <3>1
  <2>6. CASE p.steps[1].id \in done /\ p.steps[2].id \in done /\ p.steps[3].id \in done
    <3>1. k = 4
      BY <2>1, <2>2, <2>6
    <3>2. First(4) /\ 4 \in DOMAIN p.steps
      BY <1>1, <2>1, <2>6, <3>1
    <3> QED
      BY <3>2
  <2> QED
    BY <2>3, <2>4, <2>5, <2>6
<1> DEFINE i == CHOOSE x \in DOMAIN p.steps : First(x)
<1>4. i \in DOMAIN p.steps /\ First(i)
  <2> HIDE DEF First
  <2> QED
    BY <1>3
<1>5. FixtureNext(p, done) = p.steps[i].id
  BY DEF FixtureNext
<1> HIDE DEF i
<1>6. StepOf(p, p.steps[i].id) = p.steps[i] /\ p.steps[i].id \in IdsOf(p)
  BY <1>1, <1>4, StepAt
<1>7. p.steps[i].needs \subseteq done
  <2>1. CASE i # 1 /\ p.steps[i].needs = {p.steps[i - 1].id}
    <3>1. i - 1 \in 1..(i - 1)
      BY <1>1, <1>4, <2>1
    <3> QED
      BY <1>4, <2>1, <3>1
  <2> QED
    BY <1>2, <1>4, <2>1
<1> QED
  BY <1>4, <1>5, <1>6, <1>7 DEF Ready

LEMMA StartsStep ==
  ASSUME Drafted, LoopInv, StartsInv, [Next]_vars
  PROVE  StartsInv'
<1>1. CASE pc' = pc /\ goal' = goal /\ notes' = notes
  BY <1>1 DEF StartsInv
<1>2. CASE pc' \notin {"plan", "report"}
  BY <1>2 DEF StartsInv
<1>3. ASSUME NEW d \in Goals, GoalDecided(d) PROVE StartsInv'
  <2>1. pc' # "report"
    BY <1>3 DEF GoalDecided, GoOn, Return, Fail
  <2>2. ASSUME pc' = "plan" PROVE GoalValid(goal')
    BY <1>3, <2>2 DEF GoalDecided, GoOn, Return, Fail, Drafted
  <2> QED
    BY <2>1, <2>2 DEF StartsInv
<1>4. ASSUME NEW d, NEW next, NEW newPlan, WriteNote(d, next, newPlan) PROVE pc' # "plan" /\ (pc' = "report" => notes' # << >>)
  <2>1. CASE Fail
    BY <2>1 DEF Fail, Return
  <2>2. CASE /\ notes' = Append(notes, NoteOf(d, next, plan.revision))
             /\ GoOn(IF next = NoStep THEN "report" ELSE "step")
    <3>1. IsSeq(notes)
      BY DEF LoopInv
    <3>2. Len(Append(notes, NoteOf(d, next, plan.revision))) = Len(notes) + 1 /\ Len(notes) \in Nat
      BY <3>1, SeqAppend
    <3>3. Len(<< >>) = 0
      OBVIOUS
    <3>4. notes' # << >>
      BY <2>2, <3>2, <3>3
    <3> QED
      BY <2>2, <3>4 DEF GoOn
  <2> QED
    BY <1>4, <2>1, <2>2 DEF WriteNote
<1>5. ASSUME NEW d, NoteDrafted(d) PROVE StartsInv'
  <2>1. CASE WriteNote(d, NoStep, NoPlan)
    BY <1>4, <2>1 DEF StartsInv
  <2>2. CASE GoOn("select")
    BY <2>2 DEF GoOn, StartsInv
  <2> QED
    BY <1>5, <2>1, <2>2 DEF NoteDrafted
<1>6. ASSUME NEW s, Selected(s) PROVE StartsInv'
  <2>1. CASE WriteNote(draft, s.next, s.plan)
    BY <1>4, <2>1 DEF StartsInv
  <2>2. CASE Fail
    BY <2>2 DEF Fail, Return, StartsInv
  <2> QED
    BY <1>6, <2>1, <2>2 DEF Selected
<1>7. ASSUME NEW p, PlanDrafted(p) PROVE StartsInv'
  <2>1. CASE pc' = pc
    BY <1>1, <1>7, <2>1 DEF PlanDrafted
  <2>2. CASE pc' # pc
    <3>1. pc' \in {"step", "ended"}
      BY <1>7, <2>2 DEF PlanDrafted, GoOn, Fail, Return
    <3> QED
      BY <1>2, <3>1
  <2> QED
    BY <2>1, <2>2
<1>8. ASSUME NEW d, ReportDrafted(d) PROVE StartsInv'
  <2>1. pc' = "ended"
    BY <1>8 DEF ReportDrafted, Return, Fail
  <2> QED
    BY <1>2, <2>1
<1>9. CASE ModelFails
  BY <1>2, <1>9 DEF ModelFails, Fail, Return
<1>10. CASE Answered
  <2>1. CASE \E d \in Goals : GoalDecided(d)
    BY <1>3, <2>1
  <2>2. CASE \E p \in FirstPlans(goal) : PlanDrafted(p)
    BY <1>7, <2>2
  <2>3. CASE \E d \in NoteDrafts(Last(facts), facts, plan.revision) : NoteDrafted(d)
    BY <1>5, <2>3
  <2>4. CASE \E d \in ReportDrafts(goal, notes) : ReportDrafted(d)
    BY <1>8, <2>4
  <2>5. CASE \E s : Selected(s)
    BY <1>6, <2>5
  <2>6. (pc = "select" /\ \/ Selected([kind |-> "stop", next |-> NoStep, plan |-> NoPlan])
                          \/ \E id \in IdsOf(plan) : Selected([kind |-> "continue", next |-> id, plan |-> NoPlan])
                          \/ \E p \in Revisions(plan) : \E id \in IdsOf(p) :
                               Selected([kind |-> "revise", next |-> id, plan |-> p]))
        => \E s : Selected(s)
    <3> HIDE DEF Selected
    <3> QED
      OBVIOUS
  <2> QED
    BY <1>9, <1>10, <2>1, <2>2, <2>3, <2>4, <2>5, <2>6 DEF Answered
<1>11. CASE StartStep \/ StepComputed \/ CancelArrives \/ Drained
  <2>1. pc' # "plan" \/ (pc' = pc /\ goal' = goal /\ notes' = notes)
    BY <1>11 DEF StartStep, StepComputed, CancelArrives, Drained, GoOn, Fail, Return, Finally
  <2>2. pc' \notin {"plan", "report"}
    <3>1. CASE StartStep
      BY <3>1 DEF StartStep, GoOn, Fail, Return
    <3>2. CASE StepComputed
      BY <3>2 DEF StepComputed, GoOn, Fail, Return
    <3>3. CASE CancelArrives
      BY <3>3 DEF CancelArrives, Finally
    <3>4. CASE Drained
      BY <3>4 DEF Drained, Finally
    <3> QED
      BY <1>11, <3>1, <3>2, <3>3, <3>4
  <2> QED
    BY <1>2, <2>2
<1>12. CASE Threads \/ Generator \/ DeadlinePasses \/ KernelCloses \/ CancelledAgain \/ UNCHANGED vars
  <2>1. pc' = pc /\ goal' = goal /\ notes' = notes
    BY <1>12 DEF Threads, ThreadBegins, ThreadLoads, ThreadHandles, ThreadReturns, ThreadOnly, Generator, Consume,
                 PackEnds, PackClosed, DeadlinePasses, KernelCloses, CancelledAgain, vars, model
  <2> QED
    BY <1>1, <2>1
<1> QED
  BY <1>10, <1>11, <1>12 DEF Next, Steps

-----------------------------------------------------------------------------
(* Notes and the report of the script.                                     *)

LEMMA ScriptClaim ==
  ASSUME NEW fact, NEW r
  PROVE  LET claim == FixtureClaim(fact, r)
         IN  /\ ClaimTrueOf(claim, fact) /\ ClaimRevisions(claim, r)
             /\ {ref.fact : ref \in claim.refs} = {fact.step}
             /\ ToSet(FixtureNote(fact, r).claims) = {claim}
             /\ FixtureNote(fact, r).claims = <<claim>>
<1> DEFINE ref == [fact |-> fact.step, revision |-> r, selects |-> {"metric"}]
           claim == FixtureClaim(fact, r)
<1>1. claim.refs = {ref} /\ claim.type = "metric" /\ claim.op = "eq" /\ claim.target = fact.value
  BY DEF FixtureClaim
<1>2. FixtureNote(fact, r).claims = <<claim>>
  BY DEF FixtureNote
<1>3. ref.fact = fact.step /\ ref.revision = r /\ ref.selects = {"metric"}
  OBVIOUS
<1> HIDE DEF claim, ref
<1>4. Cardinality(claim.refs) = 1
  BY <1>1, FS_Singleton
<1>5. Compare(fact.value, claim.op, claim.target)
  BY <1>1 DEF Compare
<1>6. ToSet(<<claim>>) = {claim}
  BY DEF ToSet
<1>7. ClaimTrueOf(claim, fact) /\ ClaimRevisions(claim, r) /\ {x.fact : x \in claim.refs} = {fact.step}
  BY <1>1, <1>3, <1>4, <1>5 DEF ClaimTrueOf, ClaimRevisions
<1> QED
  BY <1>2, <1>6, <1>7 DEF claim

LEMMA ScriptNote ==
  ASSUME LoopInv, pc = "note", goal.id \in Scenarios, plan = FixturePlan(goal)
  PROVE  NoteValid(FixtureNote(Last(facts), 0), Last(facts), facts, NoStep, 0)
<1> DEFINE n == Len(facts)
           fact == Last(facts)
           claim == FixtureClaim(fact, 0)
<1>1. n \in Nat /\ DOMAIN facts = 1..n /\ Len(notes) \in Nat /\ n = Len(notes) + 1
  BY SeqLen DEF LoopInv, TurnInv
<1>2. n \in DOMAIN facts /\ fact = facts[n]
  BY <1>1 DEF Last
<1>3. Bound(plan)
  BY DEF LoopInv, PlanInv
<1>4. PICK k \in DOMAIN plan.steps : fact.step = plan.steps[k].id
  BY <1>2, <1>3 DEF Bound
<1>5. fact.inputs \subseteq {facts[j].step : j \in 1..(n - 1)}
  BY <1>2, <1>3 DEF Bound
<1> HIDE DEF fact
<1>6. fact \in ToSet(facts) /\ fact.inputs \subseteq {f.step : f \in ToSet(facts)}
  <2>1. \A j \in 1..(n - 1) : facts[j] \in ToSet(facts)
    BY <1>1 DEF ToSet
  <2> QED
    BY <1>2, <1>5, <2>1 DEF ToSet
<1>7. NoStep # fact.step
  <2>1. plan.steps[k].id \in ScriptIds
    BY <1>4, ScriptSteps
  <2> QED
    BY <1>4, <2>1 DEF ScriptIds, NoStep
<1>8. FixtureNote(fact, 0).claims = <<claim>> /\ FixtureNote(fact, 0).step = fact.step
  BY DEF FixtureNote
<1>9. ClaimValid(claim, facts, 0)
  BY <1>6, ScriptClaim DEF ClaimValid
<1>10. IsInjective(<<claim>>)
  BY DEF IsInjective
<1> HIDE DEF claim
<1>11. \A i \in DOMAIN <<claim>> : <<claim>>[i] = claim
  OBVIOUS
<1> QED
  BY <1>7, <1>8, <1>9, <1>10, <1>11 DEF NoteValid, fact

LEMMA ScriptReport ==
  ASSUME LoopInv, StartsInv, pc = "report", \A i \in DOMAIN notes : notes[i].claims = FixtureNote(facts[i], 0).claims
  PROVE  ReportValid(goal, facts, notes, FixtureReport(goal, notes))
<1> DEFINE n == Len(notes)
           claim(i) == FixtureClaim(facts[i], 0)
           d == FixtureReport(goal, notes)
<1>1. n \in Nat /\ DOMAIN notes = 1..n /\ DOMAIN facts = 1..Len(facts) /\ Len(facts) = n
  BY SeqLen DEF LoopInv, TurnInv
<1>2. n # 0
  <2>1. notes # << >> /\ IsSeq(notes)
    BY DEF StartsInv, LoopInv
  <2>2. PICK S : notes \in Seq(S)
    BY <2>1 DEF IsSeq
  <2> QED
    BY <2>1, <2>2
<1>3. \A i \in 1..n : notes[i].claims = <<claim(i)>> /\ ToSet(notes[i].claims) = {claim(i)}
  BY <1>1, ScriptClaim
<1>4. \A i \in 1..n : {ref.fact : ref \in claim(i).refs} = {facts[i].step}
  BY ScriptClaim
<1>5. \A i, j \in 1..n : facts[i].step = facts[j].step => i = j
  BY <1>1 DEF LoopInv, PlanInv
<1>6. d.goal = goal.id /\ d.claims = ClaimsOf(notes)
      /\ d.actions = {[claims |-> {claim(n)}, facts |-> {ref.fact : ref \in claim(n).refs}]}
  <2>1. Last(notes) = notes[n] /\ Last(notes).claims = <<claim(n)>>
    BY <1>1, <1>2, <1>3 DEF Last
  <2> HIDE DEF claim
  <2>2. Last(<<claim(n)>>) = claim(n)
    BY DEF Last
  <2> QED
    BY <2>1, <2>2 DEF FixtureReport
<1> HIDE DEF claim, d
<1>7. ClaimsDistinct(notes)
  <2> SUFFICES ASSUME NEW i \in 1..n, NEW j \in 1..n, i # j
               PROVE  ToSet(notes[i].claims) \cap ToSet(notes[j].claims) = {}
    BY <1>1 DEF ClaimsDistinct
  <2>1. claim(i) # claim(j)
    BY <1>4, <1>5
  <2> QED
    BY <1>3, <2>1
<1>8. claim(n) \in ClaimsOf(notes)
  BY <1>1, <1>2, <1>3 DEF ClaimsOf
<1>9. facts[n] \in ToSet(facts) /\ facts # << >>
  <2>1. n \in DOMAIN facts
    BY <1>1, <1>2
  <2> QED
    BY <2>1 DEF ToSet
<1>10. ActionsBacked(facts, notes, d)
  <2> SUFFICES ASSUME NEW action \in d.actions
               PROVE  action.facts \subseteq {f.step : f \in ToSet(facts)} /\ action.claims \subseteq d.claims
    BY DEF ActionsBacked
  <2>1. n \in 1..n
    BY <1>1, <1>2
  <2>2. action.claims = {claim(n)} /\ action.facts = {facts[n].step}
    BY <1>4, <1>6, <2>1
  <2> QED
    BY <1>6, <1>8, <1>9, <2>2
<1> QED
  BY <1>6, <1>7, <1>9, <1>10 DEF ReportValid, d

\* Every answer of the scripted model is accepted where its sources can serve the
\* script, at whatever Step the analysis is and whatever its Steps found
\* (GenericFixtureModel; create_plan, create_note, select_next, create_report).
THEOREM FixtureIsAccepted ==
  ASSUME Drafted, ScriptServed
  PROVE  Spec => []FixtureAccepted
<1>1. Init => StartsInv
  BY DEF Init, StartsInv
<1>2. LoopInv /\ StartsInv /\ [Next]_vars => StartsInv'
  BY StartsStep
<1>3. LoopInv /\ StartsInv => FixtureAccepted
  <2> SUFFICES ASSUME LoopInv, StartsInv, goal.kind = "goal", goal.id \in Scenarios PROVE FixtureAccepted
    BY DEF FixtureAccepted
  <2>1. pc = "plan" => FirstPlanValid(FixturePlan(goal), goal)
    BY ScriptAccepted DEF StartsInv
  <2>2. ASSUME plan = FixturePlan(goal), pc = "note", Remaining # {}
        PROVE  SelectionValid([kind |-> "continue", plan |-> NoPlan,
                               next |-> FixtureNext(plan, completed \cup {current})])
    <3>1. Ready(plan, FixtureNext(plan, completed \cup {current}), completed \cup {current})
      BY <2>2, NextReady DEF Remaining
    <3> QED
      BY <3>1 DEF SelectionValid
  <2> QED
    BY <2>1, <2>2, ScriptNote, ScriptReport DEF FixtureAccepted
<1> QED
  BY <1>1, <1>2, <1>3, LoopInvariant, PTL DEF Spec

-----------------------------------------------------------------------------
(* Investigation.                                                          *)

Known == IdsIn(candidates)

\* One version of a candidate is listed.
Unique(cands) == \A i, j \in DOMAIN cands : cands[i].id = cands[j].id => i = j

CandidatesInv ==
  /\ Unique(candidates) /\ Known \subseteq Ids
  /\ phase \in {"intake", "loading", "coordinating"} => candidates = << >> /\ crew = NoCrew
  /\ phase = "investigating" =>
       /\ DOMAIN found = DOMAIN crew
       /\ \A m \in DOMAIN found :
            /\ IdsIn(found[m]) \subseteq Known
            /\ crew[m] = "working" => found[m] = << >>
  /\ phase = "verifying" => DOMAIN crew \subseteq Known

Verdicts == {"confirmed", "candidate", "rejected", "reinvestigate"}

\* What a decision says of itself.
DecisionsInv ==
  /\ DOMAIN decisions = Ids
  /\ \A id \in Ids : decisions[id] # Undecided =>
       LET d == decisions[id]
       IN  /\ id \in Known /\ d.verdict \in Verdicts
           /\ \E r \in 0..MaxRounds : d.owner = <<"verifier", r, id>>
           /\ d.verdict = "confirmed" => "read" \in d.done

\* The decision is about the version of the candidate that is listed.
UpToDate(id) == decisions[id] # Undecided /\ decisions[id].of = Candidate(id).by

JudgedInv ==
  /\ phase = "investigating" => \A id \in Known : id \in Changed \/ UpToDate(id)
  /\ phase = "verifying" => \A id \in Known : (id \in DOMAIN crew /\ crew[id] # "done") \/ UpToDate(id)
  /\ phase \in {"reporting", "saving"} /\ cut # "deadline" =>
       \A id \in Known : UpToDate(id) /\ (cut = "no" => decisions[id].verdict # "reinvestigate")

SavedInv == \A id \in Ids : saved[id] # NoProposal =>
  /\ phase = "ended"
  /\ LET p == saved[id]
     IN  /\ decisions[id].verdict = "confirmed" /\ decisions[id].owner = p.by
         /\ p.by # Candidate(id).owner /\ p.def \in decisions[id].done


TeamInv ==
  /\ TeamTypeOK /\ IsSeq(candidates) /\ (phase = "investigating" => \A m \in DOMAIN found : IsSeq(found[m]))
  /\ CandidatesInv /\ DecisionsInv /\ JudgedInv /\ SavedInv

-----------------------------------------------------------------------------
(* Folds of sequences.                                                     *)

NatOrder == {ss \in Nat \X Nat : ss[1] < ss[2]}

\* What holds of 0 and passes from n to n + 1 holds of every number.
LEMMA SetInduction ==
  ASSUME NEW S \in SUBSET Nat, 0 \in S, \A n \in S : n + 1 \in S
  PROVE  S = Nat
<1> SUFFICES ASSUME Nat \ S # {} PROVE FALSE
  OBVIOUS
<1>1. IsWellFoundedOn(NatOrder, Nat)
  BY NatLessThanWellFounded DEF OpToRel, NatOrder
<1>2. PICK x \in Nat \ S : \A y \in Nat \ S : ~ (<<y, x>> \in NatOrder)
  <2> HIDE DEF NatOrder
  <2> QED
    BY <1>1, WFMin
<1>3. x # 0 /\ x - 1 \in Nat /\ x - 1 < x
  OBVIOUS
<1>4. x - 1 \in S
  BY <1>2, <1>3 DEF NatOrder
<1> QED
  BY <1>3, <1>4
\* f folds F over the first n places, from base.
Folding(F, base, n, f) ==
  f = [s \in SUBSET (1..n) |-> IF s = {} THEN base ELSE F[<<f[s \ {Max(s)}], Max(s)>>]]

LEMMA MaxOf ==
  ASSUME NEW n \in Nat, NEW s \in SUBSET (1..n), n \in s
  PROVE  Max(s) = n
<1>1. n \in s /\ \A y \in s : n >= y
  OBVIOUS
<1>2. Max(s) \in s /\ Max(s) >= n
  BY <1>1 DEF Max
<1>3. Max(s) \in 1..n
  BY <1>2
<1> QED
  BY <1>2, <1>3

LEMMA MaxIn ==
  ASSUME NEW n \in Nat, NEW s \in SUBSET (1..n), s # {}
  PROVE  Max(s) \in s
<1> DEFINE S == {m \in Nat : \A t \in SUBSET (1..m) : t # {} => \E x \in t : \A y \in t : x >= y}
<1>1. 0 \in S
  <2>1. \A t \in SUBSET (1..0) : t = {}
    OBVIOUS
  <2> QED
    BY <2>1
<1>2. ASSUME NEW m \in S PROVE m + 1 \in S
  <2>1. ASSUME NEW t \in SUBSET (1..(m + 1)), t # {} PROVE \E x \in t : \A y \in t : x >= y
    <3>1. CASE m + 1 \in t
      BY <3>1
    <3>2. CASE m + 1 \notin t
      <4>1. t \in SUBSET (1..m)
        BY <3>2
      <4> QED
        BY <2>1, <4>1
    <3> QED
      BY <3>1, <3>2
  <2> QED
    BY <2>1
<1>3. S = Nat
  <2> HIDE DEF S
  <2>1. S \in SUBSET Nat
    BY DEF S
  <2> QED
    BY <1>1, <1>2, <2>1, SetInduction
<1>4. \E x \in s : \A y \in s : x >= y
  BY <1>3
<1> QED
  BY <1>4 DEF Max

LEMMA FoldingAt ==
  ASSUME NEW F, NEW base, NEW n, NEW f, Folding(F, base, n, f), NEW s \in SUBSET (1..n)
  PROVE  f[s] = IF s = {} THEN base ELSE F[<<f[s \ {Max(s)}], Max(s)>>]
<1> DEFINE b(t) == IF t = {} THEN base ELSE F[<<f[t \ {Max(t)}], Max(t)>>]
<1>1. f = [t \in SUBSET (1..n) |-> b(t)]
  BY DEF Folding
<1> HIDE DEF b
<1>2. f[s] = b(s)
  BY <1>1
<1> QED
  BY <1>2 DEF b

LEMMA FoldingExtended ==
  ASSUME NEW F, NEW base, NEW n \in Nat, NEW f, Folding(F, base, n, f)
  PROVE  \E g : Folding(F, base, n + 1, g)
<1>0. \A s \in SUBSET (1..n) : f[s] = IF s = {} THEN base ELSE F[<<f[s \ {Max(s)}], Max(s)>>]
  <2>1. ASSUME NEW s \in SUBSET (1..n) PROVE f[s] = IF s = {} THEN base ELSE F[<<f[s \ {Max(s)}], Max(s)>>]
    <3> DEFINE R == IF s = {} THEN base ELSE F[<<f[s \ {Max(s)}], Max(s)>>]
    <3>1. f[s] = R
      BY FoldingAt DEF Folding
    <3> QED
      BY <3>1
  <2> QED
    BY <2>1
<1> DEFINE last(s) == F[<<f[s \ {n + 1}], n + 1>>]
           g == [s \in SUBSET (1..(n + 1)) |-> IF n + 1 \in s THEN last(s) ELSE f[s]]
<1> HIDE DEF last
<1>1. ASSUME NEW s \in SUBSET (1..(n + 1))
      PROVE  g[s] = IF s = {} THEN base ELSE F[<<g[s \ {Max(s)}], Max(s)>>]
  <2>1. CASE n + 1 \in s
    <3>1. Max(s) = n + 1 /\ s # {}
      BY <2>1, MaxOf
    <3>2. s \ {n + 1} \in SUBSET (1..(n + 1)) /\ n + 1 \notin s \ {n + 1}
      OBVIOUS
    <3>3. g[s] = last(s) /\ g[s \ {n + 1}] = f[s \ {n + 1}]
      BY <2>1, <3>2
    <3> HIDE DEF g
    <3>4. g[s] = F[<<g[s \ {n + 1}], n + 1>>]
      BY <3>3, Zenon DEF last
    <3> QED
      BY <3>1, <3>4, Zenon
  <2>2. CASE n + 1 \notin s /\ s # {}
    <3>1. s \in SUBSET (1..n)
      BY <2>2
    <3>2. Max(s) \in s
      BY <2>2, <3>1, MaxIn
    <3>3. s \ {Max(s)} \in SUBSET (1..(n + 1)) /\ n + 1 \notin s \ {Max(s)}
      BY <2>2
    <3>4. g[s] = f[s] /\ g[s \ {Max(s)}] = f[s \ {Max(s)}]
      BY <2>2, <3>3
    <3>5. f[s] = IF s = {} THEN base ELSE F[<<f[s \ {Max(s)}], Max(s)>>]
      BY <1>0, <3>1
    <3> HIDE DEF g
    <3> QED
      BY <2>2, <3>4, <3>5, Zenon
  <2>3. CASE s = {}
    <3>1. g[s] = f[s] /\ s \in SUBSET (1..n)
      BY <2>3
    <3>2. f[s] = IF s = {} THEN base ELSE F[<<f[s \ {Max(s)}], Max(s)>>]
      BY <1>0, <3>1
    <3> QED
      BY <2>3, <3>1, <3>2
  <2> QED
    BY <2>1, <2>2, <2>3
<1>2. g = [s \in SUBSET (1..(n + 1)) |-> g[s]]
  OBVIOUS
<1>3. g = [s \in SUBSET (1..(n + 1)) |-> IF s = {} THEN base ELSE F[<<g[s \ {Max(s)}], Max(s)>>]]
  <2> HIDE DEF g
  <2> QED
    BY <1>1, <1>2
<1> QED
  BY <1>3 DEF Folding

LEMMA FoldingExists ==
  ASSUME NEW F, NEW base, NEW n \in Nat
  PROVE  \E f : Folding(F, base, n, f)
<1> DEFINE S == {m \in Nat : \E f : Folding(F, base, m, f)}
<1>1. 0 \in S
  <2> DEFINE f == [s \in SUBSET (1..0) |-> base]
  <2>1. \A s \in SUBSET (1..0) : s = {}
    OBVIOUS
  <2>2. f = [s \in SUBSET (1..0) |-> IF s = {} THEN base ELSE F[<<f[s \ {Max(s)}], Max(s)>>]]
    BY <2>1
  <2> QED
    BY <2>2 DEF Folding
<1>2. ASSUME NEW m \in S PROVE m + 1 \in S
  BY FoldingExtended
<1>3. S = Nat
  <2> HIDE DEF S
  <2>1. S \in SUBSET Nat
    BY DEF S
  <2> QED
    BY <1>1, <1>2, <2>1, SetInduction
<1> QED
  BY <1>3

\* A fold stays in the set its operator stays in.
LEMMA FoldingInside ==
  ASSUME NEW S, NEW n \in Nat, NEW F \in [S \X (1..n) -> S], NEW base \in S, NEW f, Folding(F, base, n, f)
  PROVE  \A s \in SUBSET (1..n) : f[s] \in S
<1>0. \A s \in SUBSET (1..n) : f[s] = IF s = {} THEN base ELSE F[<<f[s \ {Max(s)}], Max(s)>>]
  <2>1. ASSUME NEW s \in SUBSET (1..n) PROVE f[s] = IF s = {} THEN base ELSE F[<<f[s \ {Max(s)}], Max(s)>>]
    BY FoldingAt DEF Folding
  <2> QED
    BY <2>1
<1> DEFINE N == {m \in Nat : \A s \in SUBSET (1..n) : s \subseteq 1..m => f[s] \in S}
<1>1. 0 \in N
  <2>1. \A s \in SUBSET (1..0) : s = {}
    OBVIOUS
  <2> QED
    BY <1>0, <2>1
<1>2. ASSUME NEW m \in N PROVE m + 1 \in N
  <2>1. ASSUME NEW s \in SUBSET (1..n), s \subseteq 1..(m + 1) PROVE f[s] \in S
    <3>1. CASE m + 1 \notin s
      <4>1. s \subseteq 1..m
        BY <2>1, <3>1
      <4> QED
        BY <4>1
    <3>2. CASE m + 1 \in s
      <4>1. Max(s) = m + 1 /\ s # {} /\ m + 1 \in 1..n
        BY <2>1, <3>2, MaxOf
      <4>2. s \ {m + 1} \in SUBSET (1..n) /\ s \ {m + 1} \subseteq 1..m
        BY <2>1
      <4>3. f[s \ {m + 1}] \in S
        BY <4>2
      <4>4. F[<<f[s \ {m + 1}], m + 1>>] \in S
        BY <4>1, <4>3
      <4>5. f[s] = F[<<f[s \ {m + 1}], m + 1>>]
        <5>1. f[s] = IF s = {} THEN base ELSE F[<<f[s \ {Max(s)}], Max(s)>>]
          BY <1>0
        <5> QED
          BY <4>1, <5>1, Zenon
      <4> QED
        BY <4>4, <4>5
    <3> QED
      BY <3>1, <3>2
  <2> QED
    BY <2>1
<1>3. N = Nat
  <2> HIDE DEF N
  <2>1. N \in SUBSET Nat
    BY DEF N
  <2> QED
    BY <1>1, <1>2, <2>1, SetInduction
<1> QED
  BY <1>3

\* What holds of the base and of every step holds of the fold: T[i] says what
\* holds after i places.
LEMMA FoldingReaches ==
  ASSUME NEW F, NEW base, NEW n \in Nat, NEW f, Folding(F, base, n, f), NEW T, base \in T[0],
         \A i \in 1..n : \A s \in SUBSET (1..n) : f[s] \in T[i - 1] => F[<<f[s], i>>] \in T[i]
  PROVE  f[1..n] \in T[n]
<1>0. \A s \in SUBSET (1..n) : f[s] = IF s = {} THEN base ELSE F[<<f[s \ {Max(s)}], Max(s)>>]
  <2>1. ASSUME NEW s \in SUBSET (1..n) PROVE f[s] = IF s = {} THEN base ELSE F[<<f[s \ {Max(s)}], Max(s)>>]
    BY FoldingAt DEF Folding
  <2> QED
    BY <2>1
<1> DEFINE N == {m \in Nat : m <= n => f[1..m] \in T[m]}
<1>1. 0 \in N
  <2>1. 1..0 = {} /\ 1..0 \in SUBSET (1..n)
    OBVIOUS
  <2>2. f[1..0] = base
    BY <1>0, <2>1
  <2> QED
    BY <2>2
<1>2. ASSUME NEW m \in N PROVE m + 1 \in N
  <2>1. CASE m + 1 <= n
    <3> DEFINE s == 1..(m + 1)
    <3>1. m + 1 \in s /\ s \in SUBSET (1..(m + 1)) /\ s \in SUBSET (1..n) /\ s \ {m + 1} = 1..m /\ m + 1 \in 1..n
          /\ 1..m \in SUBSET (1..n) /\ (m + 1) - 1 = m /\ m <= n
      BY <2>1
    <3> HIDE DEF s
    <3>2. Max(s) = m + 1 /\ s # {}
      BY <3>1, MaxOf
    <3>3. f[s] = F[<<f[1..m], m + 1>>]
      <4>1. f[s] = IF s = {} THEN base ELSE F[<<f[s \ {Max(s)}], Max(s)>>]
        BY <1>0, <3>1
      <4> QED
        BY <3>1, <3>2, <4>1, Zenon
    <3>4. f[1..m] \in T[m]
      BY <3>1
    <3>5. F[<<f[1..m], m + 1>>] \in T[m + 1]
      <4>1. f[1..m] \in T[(m + 1) - 1]
        BY <3>1, <3>4, Zenon
      <4> QED
        BY <3>1, <4>1
    <3> QED
      BY <3>3, <3>5 DEF s
  <2>2. CASE ~(m + 1 <= n)
    BY <2>2
  <2> QED
    BY <2>1, <2>2
<1>3. N = Nat
  <2> HIDE DEF N
  <2>1. N \in SUBSET Nat
    BY DEF N
  <2> QED
    BY <1>1, <1>2, <2>1, SetInduction
<1> QED
  BY <1>3

-----------------------------------------------------------------------------
(* Results put into the list of candidates.                                *)

LEMMA PlacedIsList ==
  ASSUME NEW C, NEW cands \in Seq(C), NEW c \in C
  PROVE  Placed(cands, c) \in Seq(C)
<1>1. Append(cands, c) \in Seq(C)
  BY AppendProperties
<1>2. [i \in DOMAIN cands |-> IF cands[i].id = c.id THEN c ELSE cands[i]] \in Seq(C)
  <2>1. DOMAIN cands = 1..Len(cands) /\ Len(cands) \in Nat /\ \A i \in 1..Len(cands) : cands[i] \in C
    BY LenProperties, ElementOfSeq
  <2> DEFINE r == [i \in 1..Len(cands) |-> IF cands[i].id = c.id THEN c ELSE cands[i]]
  <2>2. r \in [1..Len(cands) -> C]
    BY <2>1
  <2> HIDE DEF r
  <2>3. r \in Seq(C)
    BY <2>1, <2>2, SeqDef
  <2> QED
    BY <2>1, <2>3 DEF r
<1> QED
  BY <1>1, <1>2 DEF Placed

PlacedFolding(base, seq, f) ==
  f = [s \in SUBSET (DOMAIN seq) |-> IF s = {} THEN base ELSE Placed(f[s \ {Max(s)}], seq[Max(s)])]

LEMMA PlacedFoldLeft ==
  ASSUME NEW base, NEW seq, \E f : PlacedFolding(base, seq, f)
  PROVE  \E f : PlacedFolding(base, seq, f) /\ FoldLeft(Placed, base, seq) = f[DOMAIN seq]
<1> DEFINE f == CHOOSE f : PlacedFolding(base, seq, f)
<1>1. PlacedFolding(base, seq, f)
  OBVIOUS
<1>2. FoldLeft(Placed, base, seq) = f[DOMAIN seq]
  BY DEF FoldLeft, MapThenFoldSet, PlacedFolding
<1> QED
  BY <1>1, <1>2

LEMMA PlacedFolds ==
  ASSUME NEW C, NEW base \in Seq(C), NEW seq \in Seq(C)
  PROVE  \E f : PlacedFolding(base, seq, f)
<1> DEFINE n == Len(seq)
           F == [p \in Seq(C) \X (1..n) |-> Placed(p[1], seq[p[2]])]
<1>1. n \in Nat /\ DOMAIN seq = 1..n /\ \A i \in 1..n : seq[i] \in C
  BY LenProperties, ElementOfSeq
<1> HIDE DEF n
<1>2. \A x \in Seq(C), i \in 1..n : Placed(x, seq[i]) \in Seq(C) /\ F[<<x, i>>] = Placed(x, seq[i])
  BY <1>1, PlacedIsList
<1>3. F \in [Seq(C) \X (1..n) -> Seq(C)]
  BY <1>2
<1> HIDE DEF F
<1>4. PICK f : Folding(F, base, n, f)
  BY <1>1, FoldingExists
<1>5. \A s \in SUBSET (1..n) : f[s] \in Seq(C)
  BY <1>1, <1>3, <1>4, FoldingInside
<1>6. ASSUME NEW s \in SUBSET (1..n)
      PROVE  (IF s = {} THEN base ELSE F[<<f[s \ {Max(s)}], Max(s)>>])
             = (IF s = {} THEN base ELSE Placed(f[s \ {Max(s)}], seq[Max(s)]))
  <2>1. CASE s = {}
    BY <2>1
  <2>2. CASE s # {}
    <3>1. Max(s) \in 1..n /\ f[s \ {Max(s)}] \in Seq(C)
      BY <1>1, <1>5, <2>2, MaxIn
    <3>2. F[<<f[s \ {Max(s)}], Max(s)>>] = Placed(f[s \ {Max(s)}], seq[Max(s)])
      BY <1>2, <3>1
    <3> QED
      BY <3>2
  <2> QED
    BY <2>1, <2>2
<1>7. f = [s \in SUBSET (1..n) |-> IF s = {} THEN base ELSE Placed(f[s \ {Max(s)}], seq[Max(s)])]
  <2>1. f = [s \in SUBSET (1..n) |-> IF s = {} THEN base ELSE F[<<f[s \ {Max(s)}], Max(s)>>]]
    BY <1>4 DEF Folding
  <2>2. [s \in SUBSET (1..n) |-> IF s = {} THEN base ELSE F[<<f[s \ {Max(s)}], Max(s)>>]]
        = [s \in SUBSET (1..n) |-> IF s = {} THEN base ELSE Placed(f[s \ {Max(s)}], seq[Max(s)])]
    BY <1>6
  <2> QED
    BY <2>1, <2>2
<1> QED
  BY <1>1, <1>7 DEF PlacedFolding

LEMMA PlacedReaches ==
  ASSUME NEW C, NEW base \in Seq(C), NEW seq \in Seq(C), NEW T, base \in T[0],
         \A i \in 1..Len(seq) : \A cands \in T[i - 1] : Placed(cands, seq[i]) \in T[i]
  PROVE  FoldLeft(Placed, base, seq) \in T[Len(seq)]
<1> DEFINE n == Len(seq)
<1>1. n \in Nat /\ DOMAIN seq = 1..n
  BY LenProperties
<1>2. PICK f : PlacedFolding(base, seq, f) /\ FoldLeft(Placed, base, seq) = f[1..n]
  BY <1>1, PlacedFolds, PlacedFoldLeft
<1> HIDE DEF n
<1> DEFINE A == {f[s] : s \in SUBSET (1..n)}
           F == [p \in A \X (1..n) |-> Placed(p[1], seq[p[2]])]
<1>3. \A s \in SUBSET (1..n), i \in 1..n : F[<<f[s], i>>] = Placed(f[s], seq[i])
  OBVIOUS
<1> HIDE DEF F
<1>4. Folding(F, base, n, f)
  <2>1. ASSUME NEW s \in SUBSET (1..n)
        PROVE  (IF s = {} THEN base ELSE Placed(f[s \ {Max(s)}], seq[Max(s)]))
               = (IF s = {} THEN base ELSE F[<<f[s \ {Max(s)}], Max(s)>>])
    <3>1. CASE s = {}
      BY <3>1
    <3>2. CASE s # {}
      <4>1. Max(s) \in 1..n /\ s \ {Max(s)} \in SUBSET (1..n)
        BY <1>1, <3>2, MaxIn
      <4>2. F[<<f[s \ {Max(s)}], Max(s)>>] = Placed(f[s \ {Max(s)}], seq[Max(s)])
        BY <1>3, <4>1
      <4> QED
        BY <4>2
    <3> QED
      BY <3>1, <3>2
  <2>2. f = [s \in SUBSET (1..n) |-> IF s = {} THEN base ELSE Placed(f[s \ {Max(s)}], seq[Max(s)])]
    BY <1>1, <1>2 DEF PlacedFolding
  <2>3. [s \in SUBSET (1..n) |-> IF s = {} THEN base ELSE Placed(f[s \ {Max(s)}], seq[Max(s)])]
        = [s \in SUBSET (1..n) |-> IF s = {} THEN base ELSE F[<<f[s \ {Max(s)}], Max(s)>>]]
    BY <2>1
  <2>4. f = [s \in SUBSET (1..n) |-> IF s = {} THEN base ELSE F[<<f[s \ {Max(s)}], Max(s)>>]]
    BY <2>2, <2>3
  <2> QED
    BY <2>4 DEF Folding
<1>5. \A i \in 1..n : \A s \in SUBSET (1..n) : f[s] \in T[i - 1] => F[<<f[s], i>>] \in T[i]
  BY <1>3 DEF n
<1>6. f[1..n] \in T[n]
  BY <1>1, <1>4, <1>5, FoldingReaches
<1> QED
  BY <1>2, <1>6 DEF n

\* x is the list old with results of the ids R put into it.
Kept(old, R, x) ==
  /\ Unique(x) /\ IdsIn(old) \subseteq IdsIn(x) /\ IdsIn(x) \subseteq IdsIn(old) \cup R
  /\ \A i \in DOMAIN x : x[i].id \notin R => \E j \in DOMAIN old : old[j] = x[i]

LEMMA KeptMore ==
  ASSUME NEW old, NEW R, NEW Q, NEW x, NEW y, Kept(old, R, x), Kept(x, Q, y), Q \subseteq R
  PROVE  Kept(old, R, y)
<1>1. Unique(y) /\ IdsIn(old) \subseteq IdsIn(y) /\ IdsIn(y) \subseteq IdsIn(old) \cup R
  BY DEF Kept
<1>2. ASSUME NEW i \in DOMAIN y, y[i].id \notin R PROVE \E j \in DOMAIN old : old[j] = y[i]
  <2>1. PICK k \in DOMAIN x : x[k] = y[i]
    BY <1>2 DEF Kept
  <2>2. PICK j \in DOMAIN old : old[j] = x[k]
    BY <1>2, <2>1 DEF Kept
  <2> QED
    BY <2>1, <2>2
<1> QED
  BY <1>1, <1>2 DEF Kept

LEMMA PlacedOnce ==
  ASSUME NEW C, NEW x \in Seq(C), Unique(x), NEW c \in C
  PROVE  Kept(x, {c.id}, Placed(x, c)) /\ c.id \in IdsIn(Placed(x, c))
<1>0. DOMAIN x = 1..Len(x) /\ Len(x) \in Nat
  BY LenProperties
<1>1. CASE c.id \notin IdsIn(x)
  <2> DEFINE y == Append(x, c)
  <2>1. /\ Placed(x, c) = y /\ DOMAIN y = 1..(Len(x) + 1) /\ y[Len(x) + 1] = c
        /\ \A i \in 1..Len(x) : y[i] = x[i]
    <3>1. /\ y \in Seq(C) /\ Len(y) = Len(x) + 1 /\ y[Len(x) + 1] = c
          /\ \A i \in 1..Len(x) : y[i] = x[i]
      BY AppendProperties
    <3>2. DOMAIN y = 1..Len(y)
      BY <3>1, LenProperties
    <3> QED
      BY <1>1, <3>1, <3>2 DEF Placed
  <2> HIDE DEF y
  <2>2. \A i \in DOMAIN x : y[i] = x[i] /\ x[i].id # c.id /\ i \in DOMAIN y
    BY <1>0, <1>1, <2>1 DEF IdsIn
  <2>3. \A i \in DOMAIN y : i \in DOMAIN x \/ i = Len(x) + 1
    BY <1>0, <2>1
  <2>4. Unique(y)
    BY <2>1, <2>2, <2>3 DEF Unique
  <2>5. IdsIn(y) = IdsIn(x) \cup {c.id} /\ c.id \in IdsIn(y)
    <3>1. Len(x) + 1 \in DOMAIN y
      BY <1>0, <2>1
    <3>2. \A i \in DOMAIN y : y[i].id \in IdsIn(x) \cup {c.id}
      BY <2>1, <2>2, <2>3 DEF IdsIn
    <3>3. \A i \in DOMAIN x : x[i].id \in IdsIn(y)
      BY <2>2 DEF IdsIn
    <3>4. c.id \in IdsIn(y)
      BY <2>1, <3>1 DEF IdsIn
    <3> QED
      BY <3>2, <3>3, <3>4 DEF IdsIn
  <2> QED
    BY <2>1, <2>2, <2>3, <2>4, <2>5 DEF Kept
<1>2. CASE c.id \in IdsIn(x) /\ c.by[1] = 0
  <2>1. Placed(x, c) = x
    BY <1>2 DEF Placed
  <2> QED
    BY <1>2, <2>1 DEF Kept
<1>3. CASE c.id \in IdsIn(x) /\ c.by[1] # 0
  <2> DEFINE y == [i \in DOMAIN x |-> IF x[i].id = c.id THEN c ELSE x[i]]
  <2>1. Placed(x, c) = y
    BY <1>3 DEF Placed
  <2>2. DOMAIN y = DOMAIN x /\ \A i \in DOMAIN x : y[i].id = x[i].id /\ (y[i].id # c.id => y[i] = x[i])
    OBVIOUS
  <2> HIDE DEF y
  <2>3. IdsIn(y) = IdsIn(x)
    BY <2>2 DEF IdsIn
  <2>4. Unique(y)
    BY <2>2 DEF Unique
  <2> QED
    BY <1>3, <2>1, <2>2, <2>3, <2>4 DEF Kept
<1> QED
  BY <1>1, <1>2, <1>3

\* A result is put into the list: candidates of other ids stay as they were.
LEMMA PlacedFolded ==
  ASSUME NEW C, NEW base \in Seq(C), Unique(base), NEW seq \in Seq(C)
  PROVE  LET all == FoldLeft(Placed, base, seq)
         IN  all \in Seq(C) /\ Kept(base, IdsIn(seq), all) /\ IdsIn(seq) \subseteq IdsIn(all)
<1> DEFINE n == Len(seq)
           R == IdsIn(seq)
           T == [m \in 0..n |-> {x \in Seq(C) : Kept(base, R, x) /\ \A k \in 1..m : seq[k].id \in IdsIn(x)}]
           all == FoldLeft(Placed, base, seq)
<1>1. n \in Nat /\ DOMAIN seq = 1..n /\ \A i \in 1..n : seq[i] \in C /\ seq[i].id \in R
  BY LenProperties, ElementOfSeq DEF IdsIn
<1> HIDE DEF n, R
<1>2. base \in T[0]
  <2>1. Kept(base, R, base)
    BY DEF Kept
  <2>2. 0 \in 0..n /\ \A k \in 1..0 : seq[k].id \in IdsIn(base)
    BY <1>1
  <2> QED
    BY <2>1, <2>2
<1>3. ASSUME NEW i \in 1..n, NEW x \in T[i - 1] PROVE Placed(x, seq[i]) \in T[i]
  <2>1. i \in 0..n /\ i - 1 \in 0..n
    BY <1>1
  <2>2. x \in Seq(C) /\ Kept(base, R, x) /\ \A k \in 1..(i - 1) : seq[k].id \in IdsIn(x)
    BY <2>1
  <2>3. Unique(x) /\ seq[i] \in C /\ {seq[i].id} \subseteq R
    BY <1>1, <2>2 DEF Kept
  <2>4. Kept(x, {seq[i].id}, Placed(x, seq[i])) /\ seq[i].id \in IdsIn(Placed(x, seq[i]))
    BY <2>2, <2>3, PlacedOnce
  <2>5. Kept(base, R, Placed(x, seq[i]))
    BY <2>2, <2>3, <2>4, KeptMore
  <2>6. Placed(x, seq[i]) \in Seq(C)
    BY <2>2, <2>3, PlacedIsList
  <2>7. \A k \in 1..i : seq[k].id \in IdsIn(Placed(x, seq[i]))
    <3>1. IdsIn(x) \subseteq IdsIn(Placed(x, seq[i]))
      BY <2>4 DEF Kept
    <3>2. \A k \in 1..i : k \in 1..(i - 1) \/ k = i
      BY <1>1
    <3> QED
      BY <2>2, <2>4, <3>1, <3>2
  <2> QED
    BY <2>1, <2>5, <2>6, <2>7
<1> HIDE DEF T
<1>4. all \in T[n]
  BY <1>2, <1>3, PlacedReaches DEF n
<1> HIDE DEF all
<1>5. all \in Seq(C) /\ Kept(base, R, all) /\ \A k \in 1..n : seq[k].id \in IdsIn(all)
  <2>1. n \in 0..n
    BY <1>1
  <2> QED
    BY <1>4, <2>1 DEF T
<1>6. R \subseteq IdsIn(all)
  BY <1>1, <1>5 DEF R, IdsIn
<1> QED
  BY <1>5, <1>6 DEF R, all
-----------------------------------------------------------------------------
(* The results of a round put into it, one after the other.                *)

Lists(C) == {x \in Seq(C) : Unique(x)}

\* What the ids of the round's results are, and that they are lists.
Returned == UNION {IdsIn(found[m]) : m \in DOMAIN found}
ListsFound(C) == \A m \in DOMAIN found : found[m] \in Seq(C)

LEMMA MergeIsList ==
  ASSUME NEW C, ListsFound(C), NEW x \in Lists(C), NEW c
  PROVE  MergeOf(x, c) \in Lists(C) /\ Kept(x, Returned, MergeOf(x, c))
<1>1. x \in Seq(C) /\ Unique(x)
  BY DEF Lists
<1>2. CASE c.id \notin DOMAIN found
  <2>1. MergeOf(x, c) = x
    BY <1>2 DEF MergeOf
  <2> QED
    BY <1>1, <2>1 DEF Kept, Lists
<1>3. CASE c.id \in DOMAIN found
  <2> DEFINE y == FoldLeft(Placed, x, found[c.id])
  <2>1. MergeOf(x, c) = y /\ found[c.id] \in Seq(C) /\ IdsIn(found[c.id]) \subseteq Returned
    BY <1>3 DEF MergeOf, ListsFound, Returned
  <2>2. y \in Seq(C) /\ Kept(x, IdsIn(found[c.id]), y)
    BY <1>1, <2>1, PlacedFolded
  <2> HIDE DEF y
  <2>3. Kept(x, Returned, x)
    BY <1>1 DEF Kept
  <2>4. Kept(x, Returned, y)
    BY <2>1, <2>2, <2>3, KeptMore
  <2>5. Unique(y)
    BY <2>4 DEF Kept
  <2> QED
    BY <2>1, <2>2, <2>4, <2>5 DEF Lists
<1> QED
  BY <1>2, <1>3

MergeFolding(base, seq, f) ==
  f = [s \in SUBSET (DOMAIN seq) |-> IF s = {} THEN base ELSE MergeOf(f[s \ {Max(s)}], seq[Max(s)])]

LEMMA MergeFoldLeft ==
  ASSUME NEW base, NEW seq, \E f : MergeFolding(base, seq, f)
  PROVE  \E f : MergeFolding(base, seq, f) /\ FoldLeft(MergeOf, base, seq) = f[DOMAIN seq]
<1> DEFINE f == CHOOSE f : MergeFolding(base, seq, f)
<1>1. MergeFolding(base, seq, f)
  OBVIOUS
<1>2. FoldLeft(MergeOf, base, seq) = f[DOMAIN seq]
  BY DEF FoldLeft, MapThenFoldSet, MergeFolding
<1> QED
  BY <1>1, <1>2

LEMMA MergeFolds ==
  ASSUME NEW C, ListsFound(C), NEW base \in Lists(C), NEW seq \in Seq(C)
  PROVE  \E f : MergeFolding(base, seq, f)
<1> DEFINE n == Len(seq)
           F == [p \in Lists(C) \X (1..n) |-> MergeOf(p[1], seq[p[2]])]
<1>1. n \in Nat /\ DOMAIN seq = 1..n /\ \A i \in 1..n : seq[i] \in C
  BY LenProperties, ElementOfSeq
<1> HIDE DEF n
<1>2. \A x \in Lists(C), i \in 1..n : MergeOf(x, seq[i]) \in Lists(C) /\ F[<<x, i>>] = MergeOf(x, seq[i])
  BY <1>1, MergeIsList
<1>3. F \in [Lists(C) \X (1..n) -> Lists(C)]
  BY <1>2
<1> HIDE DEF F
<1>4. PICK f : Folding(F, base, n, f)
  BY <1>1, FoldingExists
<1>5. \A s \in SUBSET (1..n) : f[s] \in Lists(C)
  BY <1>1, <1>3, <1>4, FoldingInside
<1>6. ASSUME NEW s \in SUBSET (1..n)
      PROVE  (IF s = {} THEN base ELSE F[<<f[s \ {Max(s)}], Max(s)>>])
             = (IF s = {} THEN base ELSE MergeOf(f[s \ {Max(s)}], seq[Max(s)]))
  <2>1. CASE s = {}
    BY <2>1
  <2>2. CASE s # {}
    <3>1. Max(s) \in 1..n /\ f[s \ {Max(s)}] \in Lists(C)
      BY <1>1, <1>5, <2>2, MaxIn
    <3>2. F[<<f[s \ {Max(s)}], Max(s)>>] = MergeOf(f[s \ {Max(s)}], seq[Max(s)])
      BY <1>2, <3>1
    <3> QED
      BY <3>2
  <2> QED
    BY <2>1, <2>2
<1>7. f = [s \in SUBSET (1..n) |-> IF s = {} THEN base ELSE MergeOf(f[s \ {Max(s)}], seq[Max(s)])]
  <2>1. f = [s \in SUBSET (1..n) |-> IF s = {} THEN base ELSE F[<<f[s \ {Max(s)}], Max(s)>>]]
    BY <1>4 DEF Folding
  <2>2. [s \in SUBSET (1..n) |-> IF s = {} THEN base ELSE F[<<f[s \ {Max(s)}], Max(s)>>]]
        = [s \in SUBSET (1..n) |-> IF s = {} THEN base ELSE MergeOf(f[s \ {Max(s)}], seq[Max(s)])]
    BY <1>6
  <2> QED
    BY <2>1, <2>2
<1> QED
  BY <1>1, <1>7 DEF MergeFolding

LEMMA MergeReaches ==
  ASSUME NEW C, ListsFound(C), NEW base \in Lists(C), NEW seq \in Seq(C), NEW T, base \in T[0],
         \A i \in 1..Len(seq) : \A cands \in T[i - 1] : MergeOf(cands, seq[i]) \in T[i]
  PROVE  FoldLeft(MergeOf, base, seq) \in T[Len(seq)]
<1> DEFINE n == Len(seq)
<1>1. n \in Nat /\ DOMAIN seq = 1..n
  BY LenProperties
<1>2. PICK f : MergeFolding(base, seq, f) /\ FoldLeft(MergeOf, base, seq) = f[1..n]
  BY <1>1, MergeFolds, MergeFoldLeft
<1> HIDE DEF n
<1> DEFINE A == {f[s] : s \in SUBSET (1..n)}
           F == [p \in A \X (1..n) |-> MergeOf(p[1], seq[p[2]])]
<1>3. \A s \in SUBSET (1..n), i \in 1..n : F[<<f[s], i>>] = MergeOf(f[s], seq[i])
  OBVIOUS
<1> HIDE DEF F
<1>4. Folding(F, base, n, f)
  <2>1. ASSUME NEW s \in SUBSET (1..n)
        PROVE  (IF s = {} THEN base ELSE MergeOf(f[s \ {Max(s)}], seq[Max(s)]))
               = (IF s = {} THEN base ELSE F[<<f[s \ {Max(s)}], Max(s)>>])
    <3>1. CASE s = {}
      BY <3>1
    <3>2. CASE s # {}
      <4>1. Max(s) \in 1..n /\ s \ {Max(s)} \in SUBSET (1..n)
        BY <1>1, <3>2, MaxIn
      <4>2. F[<<f[s \ {Max(s)}], Max(s)>>] = MergeOf(f[s \ {Max(s)}], seq[Max(s)])
        BY <1>3, <4>1
      <4> QED
        BY <4>2
    <3> QED
      BY <3>1, <3>2
  <2>2. f = [s \in SUBSET (1..n) |-> IF s = {} THEN base ELSE MergeOf(f[s \ {Max(s)}], seq[Max(s)])]
    BY <1>1, <1>2 DEF MergeFolding
  <2>3. [s \in SUBSET (1..n) |-> IF s = {} THEN base ELSE MergeOf(f[s \ {Max(s)}], seq[Max(s)])]
        = [s \in SUBSET (1..n) |-> IF s = {} THEN base ELSE F[<<f[s \ {Max(s)}], Max(s)>>]]
    BY <2>1
  <2>4. f = [s \in SUBSET (1..n) |-> IF s = {} THEN base ELSE F[<<f[s \ {Max(s)}], Max(s)>>]]
    BY <2>2, <2>3
  <2> QED
    BY <2>4 DEF Folding
<1>5. \A i \in 1..n : \A s \in SUBSET (1..n) : f[s] \in T[i - 1] => F[<<f[s], i>>] \in T[i]
  BY <1>3 DEF n
<1>6. f[1..n] \in T[n]
  BY <1>1, <1>4, <1>5, FoldingReaches
<1> QED
  BY <1>2, <1>6 DEF n

LEMMA MergedFolded ==
  ASSUME NEW C, ListsFound(C), candidates \in Lists(C)
  PROVE  Merged \in Lists(C) /\ Kept(candidates, Returned, Merged)
<1> DEFINE n == Len(candidates)
           K == {x \in Lists(C) : Kept(candidates, Returned, x)}
           T == [m \in 0..n |-> K]
<1>1. n \in Nat /\ candidates \in Seq(C)
  BY LenProperties DEF Lists
<1>2. candidates \in K
  BY DEF Kept, Lists
<1>3. \A x \in K : \A c : MergeOf(x, c) \in K
  <2>1. ASSUME NEW x \in K, NEW c PROVE MergeOf(x, c) \in K
    <3>1. MergeOf(x, c) \in Lists(C) /\ Kept(x, Returned, MergeOf(x, c))
      BY MergeIsList
    <3>2. Kept(candidates, Returned, MergeOf(x, c))
      BY <3>1, KeptMore
    <3> QED
      BY <3>1, <3>2
  <2> QED
    BY <2>1
<1> HIDE DEF n, K
<1>4. \A i \in 0..n : T[i] = K
  OBVIOUS
<1>5. candidates \in T[0] /\ \A i \in 1..n : \A x \in T[i - 1] : MergeOf(x, candidates[i]) \in T[i]
  <2>1. \A i \in 1..n : i \in 0..n /\ i - 1 \in 0..n
    BY <1>1
  <2>2. 0 \in 0..n
    BY <1>1
  <2> QED
    BY <1>2, <1>3, <1>4, <2>1, <2>2
<1> HIDE DEF T
<1>6. Merged \in T[n]
  BY <1>1, <1>5, MergeReaches DEF Merged, n
<1>7. Merged \in K
  BY <1>1, <1>4, <1>6
<1> QED
  BY <1>7 DEF K

-----------------------------------------------------------------------------
(* Candidates and what is decided of them.                                 *)

LEMMA SeqOver ==
  ASSUME NEW s, IsSeq(s), NEW C, \A i \in DOMAIN s : s[i] \in C
  PROVE  s \in Seq(C)
<1>1. PICK S : s \in Seq(S)
  BY DEF IsSeq
<1>2. Len(s) \in Nat /\ DOMAIN s = 1..Len(s) /\ s \in [1..Len(s) -> S]
  BY <1>1, LenProperties
<1>3. s \in [1..Len(s) -> C]
  BY <1>2
<1> QED
  BY <1>2, <1>3, SeqDef

LEMMA CandidateAt ==
  ASSUME Unique(candidates), NEW i \in DOMAIN candidates
  PROVE  Candidate(candidates[i].id) = candidates[i]
BY DEF Candidate, Unique, ToSet

LEMMA CandidateStays ==
  ASSUME Unique(candidates), NEW R, Kept(candidates, R, candidates'), NEW id \in Known, id \notin R
  PROVE  Candidate(id)' = Candidate(id) /\ id \in Known'
<1>1. PICK i \in DOMAIN candidates' : candidates'[i].id = id
  BY DEF Kept, Known, IdsIn
<1>2. PICK j \in DOMAIN candidates : candidates[j] = candidates'[i]
  BY <1>1 DEF Kept
<1>3. Candidate(id) = candidates[j]
  BY <1>1, <1>2, CandidateAt
<1>4. Candidate(id)' = candidates'[i]
  BY <1>1 DEF Candidate, Unique, ToSet, Kept
<1>5. id \in Known'
  BY <1>1 DEF Known, IdsIn
<1> QED
  BY <1>2, <1>3, <1>4, <1>5

\* Proposals, and what a verifier looks at, change nothing of it.
LEMMA WorkKeeps ==
  ASSUME TeamInv, UNCHANGED <<phase, round, crew, found, candidates, decisions, cut, saved, status>>
  PROVE  TeamInv'
<1>1. TeamTypeOK' /\ IsSeq(candidates') /\ (phase' = "investigating" => \A m \in DOMAIN found' : IsSeq(found'[m]))
  BY DEF TeamInv, TeamTypeOK, IdsIn
<1>2. CandidatesInv'
  BY DEF TeamInv, CandidatesInv, Unique, Known, IdsIn
<1>3. DecisionsInv'
  BY DEF TeamInv, DecisionsInv, Known, IdsIn
<1>4. JudgedInv'
  <2>1. Known' = Known /\ Changed' = Changed
    BY DEF Known, IdsIn, Changed
  <2>2. \A id : UpToDate(id)' <=> UpToDate(id)
    BY DEF UpToDate, Candidate
  <2> QED
    BY <2>1, <2>2 DEF TeamInv, JudgedInv
<1>5. SavedInv'
  BY DEF TeamInv, SavedInv, Candidate
<1> QED
  BY <1>1, <1>2, <1>3, <1>4, <1>5 DEF TeamInv

\* An end, or a report cut short: the candidates and their decisions stay.
LEMMA EndKeeps ==
  ASSUME TeamInv, UNCHANGED <<round, candidates, decisions>>,
         phase' \in {"loading", "ended", "reporting", "saving"}, crew' = NoCrew,
         phase' = "loading" => candidates = << >>,
         cut' \in {"no", "deadline", "refused"},
         phase' \in {"reporting", "saving"} /\ cut' # "deadline" =>
           \A id \in Known : UpToDate(id) /\ (cut' = "no" => decisions[id].verdict # "reinvestigate"),
         status' \in {"none", "awaiting", "failed", "completed", "stopped"}, SavedInv'
  PROVE  TeamInv'
<1>1. TeamTypeOK' /\ IsSeq(candidates')
  BY DEF TeamInv, TeamTypeOK, IdsIn, NoCrew
<1>2. CandidatesInv'
  BY DEF TeamInv, CandidatesInv, Unique, Known, IdsIn
<1>3. DecisionsInv'
  BY DEF TeamInv, DecisionsInv, Known, IdsIn
<1>4. JudgedInv'
  <2>1. Known' = Known
    BY DEF Known, IdsIn
  <2>2. \A id : UpToDate(id)' <=> UpToDate(id)
    BY DEF UpToDate, Candidate
  <2> QED
    BY <2>1, <2>2 DEF JudgedInv
<1> QED
  BY <1>1, <1>2, <1>3, <1>4 DEF TeamInv

LEMMA NothingSaved ==
  ASSUME TeamInv, phase # "ended"
  PROVE  \A id \in Ids : saved[id] = NoProposal
BY DEF TeamInv, SavedInv

LEMMA EarlyKeeps ==
  ASSUME TeamInv,
         \/ \E action \in {"proceed", "clarify", "block", "raise"} : Intake(action)
         \/ \E ok \in BOOLEAN : Load(ok)
         \/ \E tasks \in SUBSET Tasks : Coordinate(tasks)
  PROVE  TeamInv'
<1>1. /\ phase \in {"intake", "loading", "coordinating"} /\ candidates = << >> /\ crew = NoCrew
      /\ UNCHANGED <<round, candidates, decisions, cut, saved>> /\ SavedInv' /\ cut \in {"no", "deadline", "refused"}
      /\ status' \in {"none", "awaiting", "failed", "completed", "stopped"}
  <2>1. /\ phase \in {"intake", "loading", "coordinating"} /\ UNCHANGED <<round, candidates, decisions, cut, saved>>
        /\ status' \in {status, "awaiting", "failed"}
    BY DEF Intake, Load, Coordinate, state, Go, End
  <2>2. SavedInv'
    BY <2>1, NothingSaved DEF SavedInv
  <2> QED
    BY <2>1, <2>2 DEF TeamInv, CandidatesInv, TeamTypeOK
<1>2. Known = {} /\ IsSeq(<< >>) /\ IdsIn(<< >>) = {}
  <2>1. << >> \in Seq({})
    OBVIOUS
  <2> QED
    BY <1>1, <2>1 DEF Known, IdsIn, IsSeq
<1>3. CASE phase' \in {"loading", "ended"} /\ crew' = crew
  BY <1>1, <1>3, EndKeeps
<1>4. CASE phase' = "coordinating" /\ crew' = crew
  <2>1. TeamTypeOK'
    BY <1>1, <1>4 DEF TeamInv, TeamTypeOK, IdsIn, NoCrew
  <2>2. CandidatesInv' /\ DecisionsInv' /\ JudgedInv'
    BY <1>1, <1>4 DEF TeamInv, CandidatesInv, DecisionsInv, JudgedInv, Unique, Known, IdsIn
  <2> QED
    BY <1>1, <1>4, <2>1, <2>2 DEF TeamInv
<1>5. CASE \E tasks \in SUBSET Tasks : Coordinate(tasks) /\ tasks # {}
  <2>1. PICK tasks \in SUBSET Tasks : Coordinate(tasks) /\ tasks # {}
    BY <1>5
  <2>2. phase' = "investigating" /\ crew' = [t \in tasks |-> "working"] /\ found' = [t \in tasks |-> << >>]
    BY <2>1 DEF Coordinate, Go
  <2>3. DOMAIN found' = DOMAIN crew' /\ \A m \in DOMAIN found' : found'[m] = << >>
    BY <2>2
  <2>4. TeamTypeOK' /\ \A m \in DOMAIN found' : IsSeq(found'[m])
    BY <1>1, <1>2, <2>2, <2>3 DEF TeamInv, TeamTypeOK, IdsIn
  <2>5. CandidatesInv'
    BY <1>1, <1>2, <2>2, <2>3 DEF TeamInv, CandidatesInv, Unique, Known, IdsIn
  <2>6. DecisionsInv' /\ JudgedInv'
    BY <1>1, <1>2, <2>2 DEF TeamInv, DecisionsInv, JudgedInv, Known, IdsIn
  <2> QED
    BY <1>1, <2>4, <2>5, <2>6 DEF TeamInv
<1>6. \/ phase' \in {"loading", "ended"} /\ crew' = crew
      \/ phase' = "coordinating" /\ crew' = crew
      \/ \E tasks \in SUBSET Tasks : Coordinate(tasks) /\ tasks # {}
  BY DEF Intake, Load, Coordinate, Go, End
<1> QED
  BY <1>3, <1>4, <1>5, <1>6

-----------------------------------------------------------------------------
(* Rounds.                                                                 *)

LEMMA InvestigatedKeeps ==
  ASSUME TeamInv, NEW m \in DOMAIN crew, NEW answer, phase = "investigating" => answer \in Results(m),
         Investigated(m, answer)
  PROVE  TeamInv'
<1>1. /\ phase = "investigating" /\ crew[m] = "working" /\ crew' = [crew EXCEPT ![m] = "done"]
      /\ found' = [found EXCEPT ![m] = answer] /\ candidates' = FoldLeft(Placed, candidates, answer)
      /\ UNCHANGED <<phase, round, decisions, cut, saved, status>>
  BY DEF Investigated
<1>2. /\ IsSeq(candidates) /\ Unique(candidates) /\ Known \subseteq Ids
      /\ DOMAIN found = DOMAIN crew /\ found[m] = << >>
      /\ \A t \in DOMAIN found : IsSeq(found[t]) /\ IdsIn(found[t]) \subseteq Known
  BY <1>1 DEF TeamInv, CandidatesInv
<1>3. IsSeq(answer) /\ IdsIn(answer) \subseteq Ids
  <2> DEFINE one == {[id |-> i, by |-> <<round, m>>, owner |-> o] : i \in Ids, o \in Citable}
  <2>1. PICK n \in 0..MaxFound : answer \in [1..n -> one]
    BY <1>1 DEF Results
  <2>2. n \in Nat /\ \A c \in one : c.id \in Ids
    BY InvestigationAssumption
  <2> HIDE DEF one
  <2>3. answer \in Seq(one)
    BY <2>1, <2>2, SeqDef
  <2>4. \A i \in DOMAIN answer : answer[i].id \in Ids
    BY <2>1, <2>2
  <2> QED
    BY <2>3, <2>4 DEF IsSeq, IdsIn
<1> DEFINE C == ToSet(candidates) \cup ToSet(answer)
<1>4. candidates \in Seq(C) /\ answer \in Seq(C)
  <2>1. (\A i \in DOMAIN candidates : candidates[i] \in C) /\ \A i \in DOMAIN answer : answer[i] \in C
    BY DEF ToSet
  <2> HIDE DEF C
  <2> QED
    BY <1>2, <1>3, <2>1, SeqOver
<1> HIDE DEF C
<1>5. candidates' \in Seq(C) /\ Kept(candidates, IdsIn(answer), candidates') /\ IdsIn(answer) \subseteq Known'
  BY <1>1, <1>2, <1>4, PlacedFolded DEF Known
<1>6. Unique(candidates') /\ Known \subseteq Known' /\ Known' \subseteq Known \cup IdsIn(answer) /\ IsSeq(candidates')
  BY <1>5 DEF Kept, Known, IsSeq
<1>7. /\ DOMAIN found' = DOMAIN crew' /\ DOMAIN crew' = DOMAIN crew /\ found'[m] = answer /\ crew'[m] = "done"
      /\ \A t \in DOMAIN found : t # m => found'[t] = found[t] /\ crew'[t] = crew[t]
  BY <1>1, <1>2
<1>8. CandidatesInv'
  <2>1. \A t \in DOMAIN found' : IdsIn(found'[t]) \subseteq Known' /\ (crew'[t] = "working" => found'[t] = << >>)
    BY <1>1, <1>2, <1>5, <1>6, <1>7 DEF TeamInv, CandidatesInv
  <2>2. Known' \subseteq Ids
    BY <1>2, <1>3, <1>6
  <2> QED
    BY <1>1, <1>6, <1>7, <2>1, <2>2 DEF CandidatesInv
<1>9. DecisionsInv'
  BY <1>1, <1>6 DEF TeamInv, DecisionsInv
<1>10. JudgedInv'
  <2>1. ASSUME NEW id \in Known' PROVE id \in Changed' \/ UpToDate(id)'
    <3>1. CASE id \in IdsIn(answer)
      <4>1. m \in DOMAIN found' /\ id \in IdsIn(found'[m])
        BY <1>2, <1>7, <3>1
      <4> QED
        BY <4>1 DEF Changed
    <3>2. CASE id \notin IdsIn(answer)
      <4>1. id \in Known
        BY <1>6, <3>2
      <4>2. Candidate(id)' = Candidate(id)
        BY <1>2, <1>5, <3>2, <4>1, CandidateStays
      <4>3. CASE UpToDate(id)
        BY <1>1, <4>2, <4>3 DEF UpToDate
      <4>4. CASE id \in Ids /\ decisions[id].verdict = "reinvestigate"
        BY <1>1, <4>4 DEF Changed
      <4>5. CASE \E t \in DOMAIN found : id \in IdsIn(found[t])
        <5>1. PICK t \in DOMAIN found : id \in IdsIn(found[t])
          BY <4>5
        <5>2. t # m
          BY <1>2, <5>1 DEF IdsIn
        <5>3. t \in DOMAIN found' /\ found'[t] = found[t]
          BY <1>2, <1>7, <5>2
        <5> QED
          BY <5>1, <5>3 DEF Changed
      <4>6. id \in Changed \/ UpToDate(id)
        BY <1>1, <4>1 DEF TeamInv, JudgedInv
      <4> QED
        BY <4>3, <4>4, <4>5, <4>6 DEF Changed
    <3> QED
      BY <3>1, <3>2
  <2> QED
    BY <1>1, <2>1 DEF JudgedInv
<1>11. SavedInv'
  BY <1>1, NothingSaved DEF SavedInv
<1>12. TeamTypeOK'
  <2>1. \A t \in DOMAIN crew' : crew'[t] \in {"waiting", "working", "done"}
    BY <1>1, <1>7 DEF TeamInv, TeamTypeOK
  <2>2. IsInjective([i \in DOMAIN candidates |-> candidates[i].id])'
    BY <1>6 DEF Unique, IsInjective
  <2>3. \A id \in Ids : decisions[id]' # Undecided => id \in IdsIn(candidates)'
    BY <1>9 DEF DecisionsInv, Known
  <2> QED
    BY <1>1, <2>1, <2>2, <2>3 DEF TeamInv, TeamTypeOK
<1>13. \A t \in DOMAIN found' : IsSeq(found'[t])
  BY <1>2, <1>3, <1>7
<1> QED
  BY <1>6, <1>8, <1>9, <1>10, <1>11, <1>12, <1>13 DEF TeamInv

LEMMA GatheredKeeps ==
  ASSUME TeamInv, Gathered
  PROVE  TeamInv'
<1>1. /\ phase = "investigating" /\ candidates' \in {candidates, Merged}
      /\ UNCHANGED <<round, decisions, cut, saved, status>>
      /\ \/ candidates = << >> /\ phase' = "reporting" /\ crew' = NoCrew
         \/ candidates # << >> /\ phase' = "verifying" /\ crew' = [id \in Changed |-> "waiting"]
  BY DEF Gathered, Go
<1>2. /\ IsSeq(candidates) /\ Unique(candidates) /\ Known \subseteq Ids
      /\ \A t \in DOMAIN found : IsSeq(found[t]) /\ IdsIn(found[t]) \subseteq Known
  BY <1>1 DEF TeamInv, CandidatesInv
<1> DEFINE C == ToSet(candidates) \cup UNION {ToSet(found[t]) : t \in DOMAIN found}
<1>3. candidates \in Lists(C) /\ ListsFound(C)
  <2>1. /\ \A i \in DOMAIN candidates : candidates[i] \in C
        /\ \A t \in DOMAIN found : \A i \in DOMAIN found[t] : found[t][i] \in C
    BY DEF ToSet
  <2> HIDE DEF C
  <2>2. candidates \in Seq(C)
    BY <1>2, <2>1, SeqOver
  <2>3. \A t \in DOMAIN found : found[t] \in Seq(C)
    BY <1>2, <2>1, SeqOver
  <2> QED
    BY <1>2, <2>2, <2>3 DEF Lists, ListsFound
<1> HIDE DEF C
<1>4. candidates' \in Lists(C) /\ Kept(candidates, Returned, candidates')
  <2>1. Kept(candidates, Returned, candidates)
    BY <1>2 DEF Kept
  <2>2. Merged \in Lists(C) /\ Kept(candidates, Returned, Merged)
    BY <1>3, MergedFolded
  <2> QED
    BY <1>1, <1>3, <2>1, <2>2
<1>5. Returned \subseteq Known
  BY <1>2 DEF Returned
<1>6. Unique(candidates') /\ Known' = Known /\ IsSeq(candidates')
  BY <1>4, <1>5 DEF Kept, Known, IsSeq, Lists
<1>7. Changed \subseteq Known
  BY <1>2 DEF Changed, TeamInv, DecisionsInv, Undecided
<1>8. CandidatesInv'
  BY <1>1, <1>2, <1>6, <1>7 DEF CandidatesInv
<1>9. DecisionsInv'
  BY <1>1, <1>6 DEF TeamInv, DecisionsInv
<1>10. JudgedInv'
  <2>1. CASE candidates = << >>
    <3>1. Known = {}
      BY <2>1 DEF Known, IdsIn
    <3>2. phase' = "reporting"
      BY <1>1, <2>1
    <3> QED
      BY <1>6, <3>1, <3>2 DEF JudgedInv
  <2>2. CASE candidates # << >>
    <3>1. phase' = "verifying" /\ crew' = [id \in Changed |-> "waiting"]
      BY <1>1, <2>2
    <3>2. ASSUME NEW id \in Known' PROVE (id \in DOMAIN crew' /\ crew'[id] # "done") \/ UpToDate(id)'
      <4>1. CASE id \in Changed
        BY <3>1, <4>1
      <4>2. CASE id \notin Changed
        <5>1. id \in Known /\ UpToDate(id) /\ id \notin Returned
          BY <1>1, <1>6, <4>2 DEF TeamInv, JudgedInv, Changed, Returned
        <5>2. Candidate(id)' = Candidate(id)
          BY <1>2, <1>4, <5>1, CandidateStays
        <5> QED
          BY <1>1, <5>1, <5>2 DEF UpToDate
      <4> QED
        BY <4>1, <4>2
    <3> QED
      BY <3>1, <3>2 DEF JudgedInv
  <2> QED
    BY <2>1, <2>2
<1>11. SavedInv'
  BY <1>1, NothingSaved DEF SavedInv
<1>12. TeamTypeOK'
  <2>1. \A t \in DOMAIN crew' : crew'[t] \in {"waiting", "working", "done"}
    BY <1>1 DEF NoCrew
  <2>2. IsInjective([i \in DOMAIN candidates |-> candidates[i].id])'
    BY <1>6 DEF Unique, IsInjective
  <2>3. \A id \in Ids : decisions[id]' # Undecided => id \in IdsIn(candidates)'
    BY <1>9 DEF DecisionsInv, Known
  <2> QED
    BY <1>1, <2>1, <2>2, <2>3 DEF TeamInv, TeamTypeOK
<1> QED
  BY <1>1, <1>6, <1>8, <1>9, <1>10, <1>11, <1>12 DEF TeamInv

\* A verifier gets a place.
LEMMA TeamStartKeeps ==
  ASSUME TeamInv, NEW id \in DOMAIN crew, StartVerifier(id)
  PROVE  TeamInv'
<1>1. /\ phase = "verifying" /\ crew[id] = "waiting" /\ crew' = [crew EXCEPT ![id] = "working"]
      /\ UNCHANGED <<phase, round, found, candidates, decisions, cut, saved, status>>
  BY DEF StartVerifier
<1>2. /\ DOMAIN crew' = DOMAIN crew /\ crew'[id] = "working"
      /\ \A m \in DOMAIN crew : m # id => crew'[m] = crew[m]
  BY <1>1
<1>3. TeamTypeOK'
  <2>1. \A m \in DOMAIN crew' : crew'[m] \in {"waiting", "working", "done"}
    BY <1>2 DEF TeamInv, TeamTypeOK
  <2> QED
    BY <1>1, <2>1 DEF TeamInv, TeamTypeOK, IdsIn
<1>4. CandidatesInv' /\ DecisionsInv'
  BY <1>1, <1>2 DEF TeamInv, CandidatesInv, DecisionsInv, Unique, Known, IdsIn
<1>5. JudgedInv'
  <2>1. Known' = Known /\ \A m : UpToDate(m)' <=> UpToDate(m)
    BY <1>1 DEF Known, IdsIn, UpToDate, Candidate
  <2>2. \A m \in Known : (m \in DOMAIN crew /\ crew[m] # "done") \/ UpToDate(m)
    BY <1>1 DEF TeamInv, JudgedInv
  <2>3. \A m \in Known : (m \in DOMAIN crew' /\ crew'[m] # "done") \/ UpToDate(m)
    BY <1>2, <2>2
  <2> QED
    BY <1>1, <2>1, <2>3 DEF JudgedInv
<1>6. SavedInv'
  BY <1>1, NothingSaved DEF SavedInv
<1> QED
  BY <1>1, <1>3, <1>4, <1>5, <1>6 DEF TeamInv

\* A verifier is done with its candidate.
LEMMA DecidedKeeps ==
  ASSUME TeamInv, NEW id \in DOMAIN crew \cap Ids, NEW verdict \in Verdicts, Decided(id, DecisionOf(id, verdict)),
         verdict = "confirmed" => "read" \in work[id]
  PROVE  TeamInv'
<1> DEFINE d == DecisionOf(id, verdict)
<1>1. /\ phase = "verifying" /\ crew' = [crew EXCEPT ![id] = "done"] /\ decisions' = [decisions EXCEPT ![id] = d]
      /\ UNCHANGED <<phase, round, found, candidates, cut, saved, status>>
  BY DEF Decided
<1>2. /\ d.verdict = verdict /\ d.of = Candidate(id).by /\ d.owner = <<"verifier", round, id>>
      /\ (verdict = "confirmed" => "read" \in d.done) /\ d # Undecided
  <2>1. d.verdict = verdict /\ d.of = Candidate(id).by /\ d.owner = <<"verifier", round, id>>
        /\ (verdict = "confirmed" => "read" \in d.done)
    BY DEF DecisionOf, Verifier
  <2>2. Undecided.verdict = "none" /\ verdict # "none"
    BY DEF Undecided, Verdicts
  <2> QED
    BY <2>1, <2>2
<1> HIDE DEF d
<1>3. id \in Known /\ round \in 0..MaxRounds
  BY <1>1 DEF TeamInv, CandidatesInv, TeamTypeOK
<1>4. /\ DOMAIN crew' = DOMAIN crew /\ crew'[id] = "done" /\ \A m \in DOMAIN crew : m # id => crew'[m] = crew[m]
      /\ DOMAIN decisions' = Ids /\ decisions'[id] = d /\ \A m \in Ids : m # id => decisions'[m] = decisions[m]
      /\ Known' = Known /\ \A m : Candidate(m)' = Candidate(m)
  BY <1>1 DEF TeamInv, DecisionsInv, Known, IdsIn, Candidate
<1>5. DecisionsInv'
  <2>1. ASSUME NEW m \in Ids, decisions'[m] # Undecided
        PROVE  LET e == decisions'[m]
               IN  /\ m \in Known' /\ e.verdict \in Verdicts
                   /\ \E r \in 0..MaxRounds : e.owner = <<"verifier", r, m>>
                   /\ e.verdict = "confirmed" => "read" \in e.done
    <3>1. CASE m = id
      BY <1>2, <1>3, <1>4, <3>1
    <3>2. CASE m # id
      BY <1>4, <2>1, <3>2 DEF TeamInv, DecisionsInv
    <3> QED
      BY <3>1, <3>2
  <2> QED
    BY <1>4, <2>1 DEF DecisionsInv
<1>6. TeamTypeOK'
  <2>1. \A m \in DOMAIN crew' : crew'[m] \in {"waiting", "working", "done"}
    BY <1>4 DEF TeamInv, TeamTypeOK
  <2>2. \A m \in Ids : decisions'[m] # Undecided => m \in IdsIn(candidates')
    BY <1>5 DEF DecisionsInv, Known
  <2> QED
    BY <1>1, <2>1, <2>2 DEF TeamInv, TeamTypeOK
<1>7. CandidatesInv'
  BY <1>1, <1>4 DEF TeamInv, CandidatesInv, Unique
<1>8. JudgedInv'
  <2>1. \A m \in Known : (m \in DOMAIN crew /\ crew[m] # "done") \/ UpToDate(m)
    BY <1>1 DEF TeamInv, JudgedInv
  <2>2. UpToDate(id)'
    BY <1>2, <1>4 DEF UpToDate
  <2>3. Known \subseteq Ids
    BY DEF TeamInv, CandidatesInv
  <2>4. \A m \in Known : m # id /\ UpToDate(m) => UpToDate(m)'
    BY <1>4, <2>3 DEF UpToDate
  <2>5. \A m \in Known' : (m \in DOMAIN crew' /\ crew'[m] # "done") \/ UpToDate(m)'
    BY <1>4, <2>1, <2>2, <2>4
  <2> QED
    BY <1>1, <2>5 DEF JudgedInv
<1>9. SavedInv'
  BY <1>1, NothingSaved DEF SavedInv
<1> QED
  BY <1>1, <1>5, <1>6, <1>7, <1>8, <1>9 DEF TeamInv

LEMMA VerifiedKeeps ==
  ASSUME TeamInv, Verified
  PROVE  TeamInv'
<1>1. /\ phase = "verifying" /\ AllDone /\ UNCHANGED <<candidates, decisions, saved>>
      /\ \/ SentBack = {} /\ phase' = "reporting" /\ crew' = NoCrew /\ round' = round /\ cut' = cut
         \/ /\ phase' = "investigating" /\ round < MaxRounds /\ round' = round + 1 /\ cut' = cut
            /\ crew' = [id \in SentBack |-> "working"] /\ found' = [id \in SentBack |-> << >>]
         \/ phase' = "reporting" /\ crew' = NoCrew /\ round' = round /\ cut' = "refused"
      /\ status' = status
  BY DEF Verified, RoundsDone, NextRound, FollowupRefused, state, Go
<1>2. \A id \in Known : UpToDate(id)
  BY <1>1 DEF TeamInv, JudgedInv, AllDone
<1>3. SavedInv'
  BY <1>1, NothingSaved DEF SavedInv
<1>4. status' \in {"none", "awaiting", "failed", "completed", "stopped"} /\ cut \in {"no", "deadline", "refused"}
  BY <1>1 DEF TeamInv, TeamTypeOK
<1>5. Known \subseteq Ids
  BY DEF TeamInv, CandidatesInv
<1>6. CASE SentBack = {} /\ phase' = "reporting" /\ crew' = NoCrew /\ round' = round /\ cut' = cut
  <2>1. \A id \in Known : decisions[id].verdict # "reinvestigate"
    BY <1>5, <1>6 DEF SentBack
  <2> QED
    BY <1>1, <1>2, <1>3, <1>4, <1>6, <2>1, EndKeeps
<1>8. CASE phase' = "reporting" /\ crew' = NoCrew /\ round' = round /\ cut' = "refused"
  BY <1>1, <1>2, <1>3, <1>4, <1>8, EndKeeps
<1>7. CASE /\ phase' = "investigating" /\ round < MaxRounds /\ round' = round + 1 /\ cut' = cut
           /\ crew' = [id \in SentBack |-> "working"] /\ found' = [id \in SentBack |-> << >>]
  <2>1. Known' = Known /\ \A m : UpToDate(m)' <=> UpToDate(m)
    BY <1>1 DEF Known, IdsIn, UpToDate, Candidate
  <2>2. IdsIn(<< >>) = {} /\ IsSeq(<< >>)
    <3>1. << >> \in Seq({})
      OBVIOUS
    <3> QED
      BY <3>1 DEF IdsIn, IsSeq
  <2>3. DOMAIN crew' = DOMAIN found' /\ \A m \in DOMAIN found' : found'[m] = << >> /\ crew'[m] = "working"
    BY <1>7
  <2>4. TeamTypeOK'
    <3>1. round' \in 0..MaxRounds
      BY <1>7, InvestigationAssumption DEF TeamInv, TeamTypeOK
    <3> QED
      BY <1>1, <1>4, <1>7, <2>3, <3>1 DEF TeamInv, TeamTypeOK, IdsIn
  <2>5. CandidatesInv' /\ DecisionsInv'
    BY <1>1, <1>7, <2>1, <2>2, <2>3 DEF TeamInv, CandidatesInv, DecisionsInv, Unique
  <2>6. JudgedInv'
    BY <1>2, <1>7, <2>1 DEF JudgedInv
  <2>7. IsSeq(candidates') /\ \A m \in DOMAIN found' : IsSeq(found'[m])
    BY <1>1, <2>2, <2>3 DEF TeamInv
  <2> QED
    BY <1>3, <2>4, <2>5, <2>6, <2>7 DEF TeamInv
<1> QED
  BY <1>1, <1>6, <1>7, <1>8

-----------------------------------------------------------------------------
(* The report and the end.                                                 *)

LEMMA SavingKeeps ==
  ASSUME TeamInv, NEW n \in 0..Len(candidates), saved' = SavedUpTo(n), phase' = "ended",
         UNCHANGED <<candidates, decisions>>
  PROVE  SavedInv'
<1>1. ASSUME NEW id \in Ids, saved'[id] # NoProposal
      PROVE  LET p == saved'[id]
             IN  /\ decisions[id].verdict = "confirmed" /\ decisions[id].owner = p.by
                 /\ p.by # Candidate(id).owner /\ p.def \in decisions[id].done
  <2>1. PICK i \in 1..n : candidates[i].id = id /\ Savable(candidates[i])
    BY <1>1 DEF SavedUpTo
  <2>2. saved'[id] = [def |-> proposals[id], by |-> decisions[id].owner]
    BY <2>1 DEF SavedUpTo
  <2>3. i \in DOMAIN candidates
    <3>1. PICK S : candidates \in Seq(S)
      BY DEF TeamInv, IsSeq
    <3>2. Len(candidates) \in Nat /\ DOMAIN candidates = 1..Len(candidates)
      BY <3>1, LenProperties
    <3> QED
      BY <3>2
  <2>4. Candidate(id) = candidates[i]
    BY <2>1, <2>3, CandidateAt DEF TeamInv, CandidatesInv
  <2>5. /\ decisions[id].verdict = "confirmed" /\ decisions[id].owner # candidates[i].owner
        /\ proposals[id] \in decisions[id].done
    BY <2>1 DEF Savable, VerifiedMeasurement
  <2> QED
    BY <2>2, <2>4, <2>5
<1> QED
  BY <1>1 DEF SavedInv, Candidate

LEMMA LastKeeps ==
  ASSUME TeamInv, InvestigationTimeout \/ Report \/ (\E n \in 0..Len(candidates) : Persist(n)) \/ Stop
  PROVE  TeamInv'
<1>1. UNCHANGED <<round, candidates, decisions>> /\ phase # "ended" /\ cut' \in {"no", "deadline", "refused"}
      /\ status' \in {"none", "awaiting", "failed", "completed", "stopped"} /\ crew' = NoCrew
  <2>1. UNCHANGED <<round, candidates, decisions>> /\ phase # "ended" /\ status' \in {status, "failed", "completed", "stopped"}
        /\ (crew' = NoCrew \/ (crew' = crew /\ phase \in {"reporting", "saving"})) /\ cut' \in {cut, "deadline"}
    BY DEF InvestigationTimeout, Report, Persist, Stop, state, Go, End
  <2> QED
    BY <2>1 DEF TeamInv, TeamTypeOK
<1>2. CASE InvestigationTimeout
  <2>1. phase' = "reporting" /\ cut' = "deadline" /\ saved' = saved
    BY <1>2 DEF InvestigationTimeout, Go
  <2>2. SavedInv'
    BY <1>1, <2>1, NothingSaved DEF SavedInv
  <2> QED
    BY <1>1, <2>1, <2>2, EndKeeps
<1>3. CASE Report
  <2>1. phase = "reporting" /\ phase' = "saving" /\ cut' = cut /\ saved' = saved
    BY <1>3 DEF Report, Go
  <2>2. SavedInv'
    BY <1>1, <2>1, NothingSaved DEF SavedInv
  <2>3. cut # "deadline" => \A id \in Known : UpToDate(id) /\ (cut = "no" => decisions[id].verdict # "reinvestigate")
    BY <2>1 DEF TeamInv, JudgedInv
  <2> QED
    BY <1>1, <2>1, <2>2, <2>3, EndKeeps
<1>4. CASE \E n \in 0..Len(candidates) : Persist(n)
  <2>1. PICK n \in 0..Len(candidates) : Persist(n)
    BY <1>4
  <2>2. saved' = SavedUpTo(n) /\ phase' = "ended"
    BY <2>1 DEF Persist, End
  <2>3. SavedInv'
    BY <1>1, <2>2, SavingKeeps
  <2> QED
    BY <1>1, <2>2, <2>3, EndKeeps
<1>5. CASE Stop
  <2>1. phase' = "ended" /\ saved' \in {SavedUpTo(Len(candidates)), saved}
    BY <1>5 DEF Stop, End
  <2>2. SavedInv'
    <3>1. CASE saved' = saved
      BY <1>1, <3>1, NothingSaved DEF SavedInv
    <3>2. CASE saved' = SavedUpTo(Len(candidates))
      <4>1. PICK S : candidates \in Seq(S)
        BY DEF TeamInv, IsSeq
      <4>2. Len(candidates) \in 0..Len(candidates)
        BY <4>1, LenProperties
      <4> QED
        BY <1>1, <2>1, <3>2, <4>2, SavingKeeps
    <3> QED
      BY <2>1, <3>1, <3>2
  <2> QED
    BY <1>1, <2>1, <2>2, EndKeeps
<1> QED
  BY <1>2, <1>3, <1>4, <1>5

-----------------------------------------------------------------------------
(* The invariant and what follows from it.                                 *)

LEMMA TeamBegins ==
  ASSUME TeamInit
  PROVE  TeamInv
<1>1. << >> \in Seq({}) /\ DOMAIN << >> = {} /\ IsSeq(<< >>) /\ IdsIn(<< >>) = {}
  <2>1. << >> \in Seq({})
    OBVIOUS
  <2> QED
    BY <2>1 DEF IsSeq, IdsIn
<1>2. DOMAIN NoCrew = {} /\ 0 \in 0..MaxRounds
  BY InvestigationAssumption DEF NoCrew
<1>3. TeamTypeOK
  BY <1>1, <1>2 DEF TeamInit, TeamTypeOK, IsInjective
<1>4. CandidatesInv /\ DecisionsInv /\ JudgedInv /\ SavedInv
  BY <1>1 DEF TeamInit, CandidatesInv, DecisionsInv, JudgedInv, SavedInv, Unique, Known
<1> QED
  BY <1>1, <1>3, <1>4 DEF TeamInv, TeamInit

LEMMA TeamStep ==
  ASSUME TeamInv, [TeamNext]_teamVars
  PROVE  TeamInv'
<1>1. CASE \/ \E action \in {"proceed", "clarify", "block", "raise"} : Intake(action)
           \/ \E ok \in BOOLEAN : Load(ok)
           \/ \E tasks \in SUBSET Tasks : Coordinate(tasks)
  BY <1>1, EarlyKeeps
<1>2. CASE Investigating
  <2>1. PICK m \in DOMAIN crew :
          \/ \E id \in Ids, def \in Defs : Propose(m, id, def)
          \/ phase = "investigating" /\ \E answer \in Results(m) : Investigated(m, answer)
    BY <1>2 DEF Investigating
  <2>2. CASE \E id \in Ids, def \in Defs : Propose(m, id, def)
    BY <2>2, WorkKeeps DEF Propose
  <2>3. CASE phase = "investigating" /\ \E answer \in Results(m) : Investigated(m, answer)
    BY <2>3, InvestigatedKeeps
  <2> QED
    BY <2>1, <2>2, <2>3
<1>3. CASE Verifying
  <2>1. PICK id \in DOMAIN crew \cap Ids :
          \/ StartVerifier(id)
          \/ \E what \in Defs \cup {"read"} : VerifierLooks(id, what)
          \/ \E def \in Defs : VerifierProposes(id, def)
          \/ phase = "verifying" /\
               \E verdict \in {"confirmed", "candidate", "rejected", "reinvestigate"} : Judge(id, verdict)
          \/ phase = "verifying" /\ VerifierFails(id)
    BY <1>3 DEF Verifying
  <2>2. CASE StartVerifier(id)
    BY <2>2, TeamStartKeeps
  <2>3. CASE \E what \in Defs \cup {"read"} : VerifierLooks(id, what)
    BY <2>3, WorkKeeps DEF VerifierLooks
  <2>4. CASE \E def \in Defs : VerifierProposes(id, def)
    BY <2>4, WorkKeeps DEF VerifierProposes
  <2>5. CASE \E verdict \in {"confirmed", "candidate", "rejected", "reinvestigate"} : Judge(id, verdict)
    <3>1. PICK verdict \in Verdicts : Judge(id, verdict)
      BY <2>5 DEF Verdicts
    <3>2. Decided(id, DecisionOf(id, verdict)) /\ (verdict = "confirmed" => "read" \in work[id])
      BY <3>1 DEF Judge, Independent
    <3> QED
      BY <3>2, DecidedKeeps
  <2>6. CASE VerifierFails(id)
    <3>1. Decided(id, DecisionOf(id, "candidate")) /\ "candidate" \in Verdicts /\ "candidate" # "confirmed"
      BY <2>6 DEF VerifierFails, Unfinished, Verdicts
    <3> QED
      BY <3>1, DecidedKeeps
  <2> QED
    BY <2>1, <2>2, <2>3, <2>4, <2>5, <2>6
<1>4. CASE UNCHANGED teamVars
  BY <1>4, WorkKeeps DEF teamVars, state
<1> QED
  BY <1>1, <1>2, <1>3, <1>4, GatheredKeeps, VerifiedKeeps, LastKeeps DEF TeamNext

\* The invariant of an investigation, in every state it can reach.
THEOREM TeamInvariant == TeamSpec => []TeamInv
<1>1. TeamInit => TeamInv
  BY TeamBegins
<1>2. TeamInv /\ [TeamNext]_teamVars => TeamInv'
  BY TeamStep
<1> QED
  BY <1>1, <1>2, PTL DEF TeamSpec

LEMMA BackedFollows ==
  ASSUME TeamInv
  PROVE  ProposalsBacked
<1>1. ASSUME NEW id \in Ids, saved[id] # NoProposal
      PROVE  LET p == saved[id]
             IN  /\ decisions[id].verdict = "confirmed" /\ decisions[id].owner = p.by
                 /\ p.by[1] = "verifier" /\ p.by[3] = id /\ p.by # Candidate(id).owner
                 /\ {"read", p.def} \subseteq decisions[id].done
  <2>1. /\ decisions[id].verdict = "confirmed" /\ decisions[id].owner = saved[id].by
        /\ saved[id].by # Candidate(id).owner /\ saved[id].def \in decisions[id].done
    BY <1>1 DEF TeamInv, SavedInv
  <2>2. decisions[id] # Undecided
    BY <2>1 DEF Undecided
  <2>3. /\ \E r \in 0..MaxRounds : decisions[id].owner = <<"verifier", r, id>>
        /\ "read" \in decisions[id].done
    BY <2>1, <2>2 DEF TeamInv, DecisionsInv
  <2>4. saved[id].by[1] = "verifier" /\ saved[id].by[3] = id
    BY <2>1, <2>3
  <2> QED
    BY <2>1, <2>3, <2>4
<1> QED
  BY <1>1 DEF TeamInv, ProposalsBacked

LEMMA ReportedFollows ==
  ASSUME TeamInv
  PROVE  ReportedAsVerified
<1>1. ASSUME phase = "saving", NEW i \in DOMAIN candidates
      PROVE  LET c == candidates[i]
                 d == decisions[c.id]
             IN  /\ d.verdict = "confirmed" => "read" \in d.done
                 /\ cut # "deadline" => d # Undecided /\ d.of = c.by
                 /\ cut = "no" => d.verdict # "reinvestigate"
  <2> DEFINE id == candidates[i].id
  <2>1. id \in Known /\ id \in Ids /\ Candidate(id) = candidates[i]
    BY CandidateAt DEF TeamInv, CandidatesInv, Known, IdsIn
  <2> HIDE DEF id
  <2>2. decisions[id].verdict = "confirmed" => "read" \in decisions[id].done
    BY <2>1 DEF TeamInv, DecisionsInv, Undecided
  <2>3. cut # "deadline" => UpToDate(id) /\ (cut = "no" => decisions[id].verdict # "reinvestigate")
    BY <1>1, <2>1 DEF TeamInv, JudgedInv
  <2>4. cut # "deadline" => decisions[id] # Undecided /\ decisions[id].of = candidates[i].by
    BY <2>1, <2>3 DEF UpToDate
  <2> QED
    BY <2>2, <2>3, <2>4 DEF id
<1> QED
  BY <1>1 DEF ReportedAsVerified

\* However roles answer and propose, and whenever a deadline, a failing store
\* or the end of the Run cuts it short: a saved Proposal is one that a verifier
\* of this very candidate confirmed, who is not the author of its cohort, with
\* a query of its own and a measurement of this definition
\* (SignalWorkbench.persist, verified_measurement, verify_candidate).
THEOREM ProposalsAreBacked == TeamSpec => []ProposalsBacked
<1>1. TeamInv => ProposalsBacked
  BY BackedFollows
<1> QED
  BY <1>1, TeamInvariant, PTL

\* What is reported was verified: a confirmation on evidence of the verifier's
\* own and, if no deadline cut the rounds short, every candidate in the version
\* that is listed; and one still to be investigated again is reported only with
\* the limitation that the rounds were cut short (InvestigationRunner.run).
THEOREM ReportsAreVerified == TeamSpec => []ReportedAsVerified
<1>1. TeamInv => ReportedAsVerified
  BY ReportedFollows
<1> QED
  BY <1>1, TeamInvariant, PTL
=============================================================================
