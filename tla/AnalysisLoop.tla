---------------------------- MODULE AnalysisLoop ----------------------------
(***************************************************************************)
(* One generic analysis: AnalysisLoop.run (agent/analysis_loop.py) asks    *)
(* the model for a Goal, a Plan, a Note and the next Step after every      *)
(* Step, and a report; PrimitiveExecutor (analytics/executor.py) computes  *)
(* each Step's Fact in a thread; CustomerSignalPack (packs/                *)
(* customer_signal.py) runs the loop as a task of its own, the pump, and   *)
(* hands its events through a queue to the PackKernel.                     *)
(*                                                                         *)
(* The model is arbitrary: it answers anything of the sets the constants   *)
(* name, or fails.  Each step is the code between two awaits that really   *)
(* suspend: model calls, the executor's thread, the queue's get and the    *)
(* kernel's commit.                                                        *)
(***************************************************************************)
EXTENDS PlanRules

CONSTANTS
  Goals,               \* Goal decisions, of kind "goal", "clarification" or "unsupported"
  FirstPlans(_),       \* FirstPlans(goal): drafts of the Plan
  Revisions(_),        \* Revisions(plan): drafts of a revised Plan
  NoteDrafts(_, _, _), \* NoteDrafts(fact, facts, revision)
  ReportDrafts(_, _),  \* ReportDrafts(goal, notes)
  Values,              \* what a primitive may compute
  EventCounts,         \* how many events a Step's sources may hold
  MaxInput,            \* max_events of the scope
  MaxAhead             \* bound: events in the queue when another one is put

VARIABLES
  pc,         \* where the pump's coroutine stands
  goal, plan, completed, current, draft, report,
  attempt,    \* Plans that were refused
  facts, notes,
  expired,    \* the Run's deadline has passed
  stopped,    \* budget.cancel() was called
  worker,     \* where the executor's thread stands
  result,     \* what it returned or raised
  emitted,    \* the events the loop has put into the queue
  taken,      \* how many of them the Pack has got
  pump,       \* the task: "running" or, once it put _DONE, "done"
  ending,     \* the status the loop returned, "none" if it did not
  pack,       \* the generator: "open", "closing", "closed"
  outcome,    \* the outcome it yielded
  cancels     \* cancellations of the pump that are on their way

model == <<goal, plan, completed, current, draft, report, attempt, facts, notes>>
thread == <<expired, stopped, worker, result>>
queue == <<emitted, taken>>
ends == <<pump, ending>>
consumer == <<pack, outcome, cancels>>
vars == <<pc, model, thread, queue, ends, consumer>>

NoGoal == [kind |-> "none"]
NoStep == "none"
NoPlan == [goal |-> NoStep, revision |-> -1, steps |-> << >>]
NoNote == [step |-> NoStep, claims |-> << >>]
NoReport == [goal |-> NoStep, claims |-> {}, actions |-> {}]
Stages == {"goal", "plan", "note", "select", "report"}  \* the loop waits for the model
Working == {"queued", "loading", "handling", "publishing"}

Init ==
  /\ pc = "goal"
  /\ goal = NoGoal /\ plan = NoPlan
  /\ completed = {} /\ current = NoStep /\ draft = NoNote /\ report = NoReport
  /\ attempt = 0 /\ facts = << >> /\ notes = << >>
  /\ expired = FALSE /\ stopped = FALSE
  /\ worker = "idle" /\ result = [kind |-> "none"]
  /\ emitted = << >> /\ taken = 0
  /\ pump = "running" /\ ending = "none"
  /\ pack = "open" /\ outcome = "none" /\ cancels = 0

\* The queue has no limit; MaxAhead bounds how far the pump runs ahead of the
\* kernel's commits.
Emit(kinds) ==
  /\ pack = "open" => Len(emitted) - taken < MaxAhead
  /\ emitted' = emitted \o kinds

\* Mutant of Finally: _DONE is put when the loop returns, not when it raises.
NoFinally == pc' = "ended" /\ UNCHANGED pump

\* The pump leaves its try statement.
Finally == pc' = "ended" /\ pump' = "done"

\* The loop returns an outcome and the pump puts _DONE.
Return(status) == pc' = "ended" /\ pump' = "done" /\ ending' = status

\* The handler of every exception: an error event and a failed outcome.
Fail == Emit(<<"error">>) /\ Return("failed")

\* The loop goes on to wait elsewhere.
GoOn(where) == pc' = where /\ UNCHANGED ends

-----------------------------------------------------------------------------
(* The model's answers.                                                    *)

\* create_goal is answered.
GoalDecided(d) ==
  /\ pc = "goal"
  /\ goal' = IF d.kind = "goal" /\ GoalValid(d) THEN d ELSE goal
  /\ CASE d.kind = "clarification" -> Emit(<<"asked">>) /\ Return("awaiting")
       [] d.kind = "unsupported" -> Emit(<<"unsupported", "error">>) /\ Return("failed")
       [] OTHER -> IF GoalValid(d) THEN Emit(<<"goal">>) /\ GoOn("plan") ELSE Fail
  /\ UNCHANGED <<plan, completed, current, draft, report, attempt, facts, notes, thread, taken, consumer>>

Repairable == attempt = 0

\* create_plan is answered: a refused Plan is asked for once more.
PlanDrafted(p) ==
  /\ pc = "plan"
  /\ IF FirstPlanValid(p, goal)
       THEN /\ plan' = p /\ current' = p.steps[1].id
            /\ Emit(<<"plan">>) /\ GoOn("step") /\ UNCHANGED attempt
       ELSE /\ attempt' = attempt + 1 /\ UNCHANGED <<plan, current>>
            /\ IF Repairable THEN UNCHANGED <<pc, emitted, ends>> ELSE Fail
  /\ UNCHANGED <<goal, completed, draft, report, facts, notes, thread, taken, consumer>>

Remaining == IdsOf(plan) \ (completed \cup {current})

\* What follows the choice of the next Step: the Note, the Step's end and the
\* revised Plan, if any; then the next Step, or the report.
WriteNote(d, next, newPlan) ==
  IF NoteValid(d, Last(facts), facts, next, plan.revision)
    THEN /\ notes' = Append(notes, NoteOf(d, next, plan.revision))
         /\ completed' = completed \cup {current}
         /\ plan' = IF newPlan = NoPlan THEN plan ELSE newPlan
         /\ current' = IF next = NoStep THEN current ELSE next
         /\ Emit(<<"note", "activity">> \o (IF newPlan = NoPlan THEN << >> ELSE <<"revised">>)
                 \o (IF next = NoStep THEN <<"activity">> ELSE << >>))
         /\ GoOn(IF next = NoStep THEN "report" ELSE "step")
    ELSE Fail /\ UNCHANGED <<notes, completed, plan, current>>

\* create_note is answered; the model is asked for the next Step only if the
\* server does not stop and a Step remains.
NoteDrafted(d) ==
  /\ pc = "note"
  /\ IF StopsAt(StepOf(plan, current), Last(facts)) \/ Remaining = {}
       THEN WriteNote(d, NoStep, NoPlan) /\ UNCHANGED draft
       ELSE draft' = d /\ GoOn("select") /\ UNCHANGED <<notes, completed, plan, current, emitted>>
  /\ UNCHANGED <<goal, report, attempt, facts, thread, taken, consumer>>

\* The choices of select_next that the loop accepts.
SelectionValid(s) ==
  LET done == completed \cup {current}
  IN  CASE s.kind = "stop" -> s.next = NoStep
        [] s.kind = "continue" -> Ready(plan, s.next, done)
        [] s.kind = "revise" -> /\ RevisionValid(plan, s.plan, done) /\ InScope(s.plan, goal)
                                /\ Ready(s.plan, s.next, done)

\* select_next is answered.
Selected(s) ==
  /\ pc = "select"
  /\ IF SelectionValid(s)
       THEN WriteNote(draft, s.next, s.plan)
       ELSE Fail /\ UNCHANGED <<notes, completed, plan, current>>
  /\ draft' = NoNote
  /\ UNCHANGED <<goal, report, attempt, facts, thread, taken, consumer>>

\* create_report is answered.
ReportDrafted(d) ==
  /\ pc = "report"
  /\ IF ReportValid(goal, facts, notes, d)
       THEN report' = d /\ Emit(<<"report">>) /\ Return("completed")
       ELSE Fail /\ UNCHANGED report
  /\ UNCHANGED <<goal, plan, completed, current, draft, attempt, facts, notes, thread, taken, consumer>>

\* A model call raises: a timeout, a provider's error, an answer that is no
\* document of its schema.  That a first call is repeated with another model
\* when the provider does not know the first is part of the call.
ModelFails ==
  /\ pc \in Stages
  /\ Fail
  /\ UNCHANGED <<model, thread, taken, consumer>>

-----------------------------------------------------------------------------
(* Steps and their threads.                                                *)

\* A Step starts: its Fact is computed in a thread.
StartStep ==
  /\ pc = "step"
  /\ IF Ready(plan, current, completed)
       THEN /\ Emit(<<"activity">>) /\ GoOn("executing")
            /\ worker' = "queued" /\ result' = [kind |-> "none"]
       ELSE Fail /\ UNCHANGED <<worker, result>>
  /\ UNCHANGED <<model, expired, stopped, taken, consumer>>

\* The thread goes on, or ends with what it returns or raises.
Thread(where) == worker' = where /\ UNCHANGED result
Raise(kind) == worker' = "done" /\ result' = [kind |-> kind]
ThreadOnly == UNCHANGED <<pc, model, expired, stopped, queue, ends, consumer>>

\* budget.checkpoint() and the deadline of the Step, which may be sooner.
Checked(next) ==
  IF stopped THEN Raise("cancelled") ELSE IF expired THEN Raise("timeout") ELSE next

FactOf(id) == CHOOSE f \in ToSet(facts) : f.step = id

\* _resolve_dependencies, _restrict_scope, _validate_dependency_provenance.
DependenciesHold(step) ==
  /\ Cardinality(step.needs) \in Arity[step.primitive]
  /\ step.needs \subseteq {f.step : f \in ToSet(facts)}
  /\ step.sources \subseteq goal.sources
  /\ \A id \in step.needs : FactOf(id).sources \subseteq step.sources

\* execute() up to the events.
ThreadBegins ==
  /\ worker = "queued"
  /\ Checked(IF DependenciesHold(StepOf(plan, current)) THEN Thread("loading") ELSE Raise("error"))
  /\ ThreadOnly

\* _load_complete_events.
ThreadLoads ==
  /\ worker = "loading"
  /\ \E n \in EventCounts :
       Checked(CASE n > MaxInput -> Raise("error") [] n = 0 -> Raise("nodata")
                 [] OTHER -> Thread("handling"))
  /\ ThreadOnly

\* The primitive's handler and the checks of its payload.
ThreadHandles ==
  /\ worker = "handling"
  /\ \/ Checked(Thread("publishing"))
     \/ Raise("error")
  /\ ThreadOnly

\* build_fact.
ThreadReturns ==
  /\ worker = "publishing"
  /\ LET step == StepOf(plan, current)
     IN  \E v \in Values :
           Checked(/\ worker' = "done"
                   /\ result' = [kind |-> "fact",
                                 fact |-> [step |-> step.id, primitive |-> step.primitive,
                                           sources |-> step.sources, inputs |-> step.needs,
                                           value |-> v]])
  /\ ThreadOnly

\* The loop gets the Fact, or the exception.  Without data the outcome is
\* degraded and holds no Fact, whatever Steps came before.
StepComputed ==
  /\ pc = "executing" /\ worker = "done"
  /\ worker' = "idle"
  /\ CASE result.kind = "fact" /\ FactBinds(StepOf(plan, current), result.fact) ->
            facts' = Append(facts, result.fact) /\ Emit(<<"fact">>) /\ GoOn("note")
       [] result.kind = "nodata" -> Emit(<<"error">>) /\ Return("degraded") /\ UNCHANGED facts
       [] OTHER -> Fail /\ UNCHANGED facts
  /\ UNCHANGED <<goal, plan, completed, current, draft, report, attempt, notes,
                 expired, stopped, result, taken, consumer>>

\* The Run's deadline passes; only threads look at it.
DeadlinePasses ==
  /\ ~expired /\ worker \in Working
  /\ expired' = TRUE
  /\ UNCHANGED <<pc, model, stopped, worker, result, queue, ends, consumer>>

-----------------------------------------------------------------------------
(* The Pack's generator and the task it runs the loop in.                  *)

\* Mutant of StopBudget: only the loop's own handler stops the budget.
StopBudgetLater == UNCHANGED stopped

\* budget.cancel().
StopBudget == stopped' = TRUE

\* The pump is cancelled.  In execute_async it stops the budget and waits for
\* the thread, which is shielded; a second time it leaves the thread behind.
CancelArrives ==
  /\ cancels > 0 /\ pump = "running"
  /\ cancels' = cancels - 1
  /\ IF pc = "executing"
       THEN StopBudget /\ pc' = "draining" /\ UNCHANGED ends
       ELSE stopped' = TRUE /\ Finally /\ UNCHANGED ending
  /\ UNCHANGED <<model, expired, worker, result, queue, pack, outcome>>

\* The thread has ended, the cancellation goes on.
Drained ==
  /\ pc = "draining" /\ worker = "done"
  /\ Finally /\ stopped' = TRUE
  /\ UNCHANGED <<model, expired, worker, result, queue, ending, consumer>>

\* What the Pack makes of an event: errors are kept for the outcome, what has
\* no emission is dropped.
IsEmission(kind) == kind \notin {"error", "unsupported"}

\* execute() takes the next event; the kernel commits its emission.
Consume ==
  /\ pack = "open" /\ taken < Len(emitted)
  /\ taken' = taken + 1
  /\ UNCHANGED <<pc, model, thread, emitted, ends, consumer>>

\* Mutant of DoneTaken: the outcome is awaited beside the queue.
DoneSeen == pump = "done"

\* _DONE comes after the events put before it.
DoneTaken == pump = "done" /\ taken = Len(emitted)

\* _DONE is taken: the outcome follows.
PackEnds ==
  /\ pack = "open" /\ DoneTaken
  /\ pack' = "closed"
  /\ outcome' = ending
  /\ UNCHANGED <<pc, model, thread, queue, ends, cancels>>

\* The kernel gives up (an append failed, a timeout, a shutdown) and closes the
\* generator, which cancels the pump and waits for it.
KernelCloses ==
  /\ pack = "open"
  /\ pack' = "closing"
  /\ cancels' = IF pump = "running" THEN 1 ELSE 0
  /\ UNCHANGED <<pc, model, thread, queue, ends, outcome>>

\* A shutdown on top of a timeout: gather passes the cancellation on.
CancelledAgain ==
  /\ pack = "closing" /\ pump = "running" /\ cancels = 0
  /\ cancels' = 1
  /\ UNCHANGED <<pc, model, thread, queue, ends, pack, outcome>>

PackClosed ==
  /\ pack = "closing" /\ pump = "done"
  /\ pack' = "closed" /\ cancels' = 0
  /\ UNCHANGED <<pc, model, thread, queue, ends, outcome>>

Answered ==
  \/ \E d \in Goals : GoalDecided(d)
  \/ pc = "plan" /\ \E p \in FirstPlans(goal) : PlanDrafted(p)
  \/ pc = "note" /\ \E d \in NoteDrafts(Last(facts), facts, plan.revision) : NoteDrafted(d)
  \/ pc = "select" /\
       \/ Selected([kind |-> "stop", next |-> NoStep, plan |-> NoPlan])
       \/ \E id \in IdsOf(plan) : Selected([kind |-> "continue", next |-> id, plan |-> NoPlan])
       \/ \E p \in Revisions(plan) : \E id \in IdsOf(p) :
            Selected([kind |-> "revise", next |-> id, plan |-> p])
  \/ pc = "report" /\ \E d \in ReportDrafts(goal, notes) : ReportDrafted(d)
  \/ ModelFails

Threads == ThreadBegins \/ ThreadLoads \/ ThreadHandles \/ ThreadReturns
Steps == StartStep \/ StepComputed \/ CancelArrives \/ Drained
Generator == Consume \/ PackEnds \/ PackClosed

Next ==
  \/ Answered \/ Threads \/ Steps \/ Generator
  \/ DeadlinePasses \/ KernelCloses \/ CancelledAgain

Spec == Init /\ [][Next]_vars

\* Every model call ends (the provider call has a timeout, the fixture answers
\* at once), threads run, tasks that can go on are scheduled.  The deadline,
\* the kernel's end and a second cancellation need not come.
FairSpec ==
  Spec /\ WF_vars(Answered) /\ WF_vars(Threads) /\ WF_vars(Steps) /\ WF_vars(Generator)

-----------------------------------------------------------------------------
(* Properties.                                                             *)

\* Every variable holds a value the code can give it.
TypeOK ==
  /\ pc \in Stages \cup {"step", "executing", "draining", "ended"}
  /\ attempt \in 0..2
  /\ completed \subseteq IdsOf(plan) /\ current \in IdsOf(plan) \cup {NoStep}
  /\ worker \in Working \cup {"idle", "done"}
  /\ result.kind \in {"none", "fact", "nodata", "error", "cancelled", "timeout"}
  /\ taken \in 0..Len(emitted)
  /\ pump \in {"running", "done"} /\ pack \in {"open", "closing", "closed"}
  /\ ending \in {"none", "awaiting", "failed", "degraded", "completed"}
  /\ outcome \in {"none", "awaiting", "failed", "degraded", "completed"}

\* Whatever the model answers, the Facts of a Run are those of distinct Steps
\* of the Plan in force, in an order in which each one's inputs came before it,
\* within the Goal's sources, and at most MaxSteps: a revision never changes
\* what has been computed (validate_plan_revision, _select_ready_step).
PlanHonoured ==
  /\ TypeOK /\ Len(facts) <= MaxSteps
  /\ \A i \in DOMAIN facts :
       /\ facts[i].step \in IdsOf(plan) /\ FactBinds(StepOf(plan, facts[i].step), facts[i])
       /\ facts[i].sources \subseteq goal.sources
       /\ facts[i].inputs \subseteq {facts[j].step : j \in 1..(i - 1)}
  /\ \A i, j \in DOMAIN facts : facts[i].step = facts[j].step => i = j
  /\ completed \subseteq {facts[i].step : i \in DOMAIN facts}

\* Every Claim a Note publishes is true of a Fact computed by then and names the
\* Plan in force then; a report selects Claims that exactly one Note made, and
\* its actions rest on what it selects (claim_validator, report_composer).
ReportGrounded ==
  /\ \A i \in DOMAIN notes : \A claim \in ToSet(notes[i].claims) :
       /\ \E j \in 1..i : /\ \A ref \in claim.refs : ref.fact = facts[j].step
                          /\ ClaimTrueOf(claim, facts[j])
       /\ \A ref \in claim.refs : ref.revision = notes[i].revision
  /\ \A claim \in report.claims :
       \E i \in DOMAIN notes : \A j \in DOMAIN notes : claim \in ToSet(notes[j].claims) <=> i = j
  /\ \A action \in report.actions :
       /\ action.claims \subseteq report.claims
       /\ action.facts \subseteq {facts[i].step : i \in DOMAIN facts}

\* What the kernel wants to have seen before an emission of this kind.
Wants(kind) ==
  CASE kind \in {"plan"} -> "goal" [] kind \in {"revised", "fact"} -> "plan"
    [] kind = "note" -> "fact" [] kind = "report" -> "note" [] OTHER -> kind

\* The emissions handed to the kernel keep its contract, and the outcome comes
\* after all of them: a completed analysis has its report, one that waits has
\* asked, one that failed has said why (CustomerSignalPack.execute).
ContractKept ==
  LET seen == SubSeq(emitted, 1, taken)
  IN  /\ \A i \in DOMAIN seen : IsEmission(seen[i]) => \E j \in 1..i : seen[j] = Wants(seen[i])
      /\ outcome = "completed" => "report" \in ToSet(seen)
      /\ outcome = "awaiting" => "asked" \in ToSet(seen)
      /\ outcome \in {"failed", "degraded"} => "error" \in ToSet(seen)
      /\ ("report" \in ToSet(seen) \/ "asked" \in ToSet(seen)) => "error" \notin ToSet(seen)

\* Once the analysis is being cancelled, a thread that still computes has been
\* told to stop: at its next checkpoint it raises (execute_async).
StopsWork == pc \in {"draining", "ended"} /\ worker \in Working => stopped

\* Both: what the kernel is handed, and what is stopped when it stops.
ByContract == ContractKept /\ StopsWork

\* Every analysis ends: the generator is closed, the pump is done and no thread
\* works for it any more, whatever the model answers and whoever cancels.
AnalysisEnds == <>[](pack = "closed" /\ pump = "done" /\ worker \notin Working)
=============================================================================
