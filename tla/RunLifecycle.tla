---------------------------- MODULE RunLifecycle ----------------------------
(***************************************************************************)
(* The life of a generic Analysis Run: RunCoordinator (runtime/            *)
(* coordinator.py) starts one task per Run, the task runs the PackKernel   *)
(* (packs/kernel.py) over the Pack's emissions, every batch is committed   *)
(* to the EventJournal first, then projected to wire events in the         *)
(* RunStore (runtime/run_store.py) that clients stream, and a snapshot     *)
(* Artifact is checkpointed to disk.  After a stop the next process        *)
(* rebuilds its RunStore from Artifacts and journal.                       *)
(*                                                                         *)
(* Grain: the code between two awaits that really suspend is one step.     *)
(* The RunStore's and the publisher's awaits never do, so a publication,   *)
(* its checkpoint and what follows up to the next journal call or Pack     *)
(* emission happen together.  The journal is the log that EventJournal     *)
(* implements: a write commits in its worker thread, at a time of its own, *)
(* before the coroutine that asked for it goes on.                         *)
(***************************************************************************)
EXTENDS Naturals, Sequences, SequencesExt

CONSTANTS
  Runs,        \* run ids
  Emissions,   \* kinds of event a Pack may emit
  MaxEvents,   \* bound: a Pack emits nothing more to a journal this long
  MaxAnswers,  \* bound: clarification answers accepted per Run
  MaxFaults,   \* bound: journal calls that fail
  MaxStops,    \* bound: shutdowns and crashes
  DiskMayFail  \* whether saving an Artifact may fail

Work == {"goal", "plan", "revised", "fact", "note", "report", "activity", "asked"}
Ends == {"completed", "degraded", "failed"}
Kinds == Work \cup Ends \cup {"opened", "awaiting", "answered", "resumed"}

ASSUME LifecycleAssumption ==
  /\ Emissions \subseteq Work
  /\ MaxEvents \in Nat /\ MaxAnswers \in Nat /\ MaxFaults \in Nat /\ MaxStops \in Nat
  /\ DiskMayFail \in BOOLEAN

VARIABLES
  journal,    \* journal[r]: kinds of the committed Canonical Run Events
  artifact,   \* artifact[r]: status in the saved snapshot, "none" without a file
  process,    \* "up", "closing" or "down"
  status,     \* RunStore: status[r], "none" for an unknown Run
  wire,       \* RunStore: wire[r], the wire events streamed to clients
  task,       \* task[r]: where the Run's task is, "none" if it never had one
  cancelled,  \* cancelled[r]: the task was cancelled and has not noticed
  expected,   \* kernel: expected_sequence
  batch,      \* kernel: the drafts of the journal call under way
  reply,      \* what the journal's worker answered to it, "none" so far
  reloaded,   \* kernel: the call is _append's second, with latest_sequence
  answers,    \* answers accepted per Run
  faults,     \* journal failures so far
  stops       \* shutdowns and crashes so far

durable == <<journal, artifact>>
store == <<status, wire>>
kernel == <<expected, batch, reply, reloaded>>
counters == <<answers, faults, stops>>
vars == <<durable, process, store, task, cancelled, kernel, counters>>

Idle == {"none", "done"}
Writing == {"creating", "resuming", "appending", "failing", "committing"}
Tasks == Idle \cup Writing \cup {"spawned", "respawned", "reading", "executing", "finishing"}
Statuses == {"none", "queued", "running", "awaiting_clarification"} \cup Ends

Init ==
  /\ journal = [r \in Runs |-> << >>]
  /\ artifact = [r \in Runs |-> "none"]
  /\ process = "up"
  /\ status = [r \in Runs |-> "none"]
  /\ wire = [r \in Runs |-> << >>]
  /\ task = [r \in Runs |-> "none"]
  /\ cancelled = [r \in Runs |-> FALSE]
  /\ expected = [r \in Runs |-> 0]
  /\ batch = [r \in Runs |-> << >>]
  /\ reply = [r \in Runs |-> "none"]
  /\ reloaded = [r \in Runs |-> FALSE]
  /\ answers = [r \in Runs |-> 0]
  /\ faults = 0
  /\ stops = 0

-----------------------------------------------------------------------------
(* Projection, checkpoint and the journal.                                 *)

\* wire_events_for: the wire events of one Canonical Run Event.  The done event
\* is written by the status it carries.
WireEvents(kind) ==
  CASE kind = "opened" -> <<"run_started">>
    [] kind = "asked" -> <<"clarification_required">>
    [] kind = "failed" -> <<"error", "failed">>
    [] kind \in {"awaiting", "answered", "resumed"} -> << >>
    [] OTHER -> <<kind>>

Projection(kinds) == FlattenSeq([i \in 1..Len(kinds) |-> WireEvents(kinds[i])])
Done == Ends

\* The status of the store once a task's outcome is recorded.
StatusAfter(kind) == IF kind = "awaiting" THEN "awaiting_clarification" ELSE kind

\* _checkpoint: ArtifactStore.save replaces the file or, when the directory
\* cannot be written, fails without a trace.
Saved(s) == {s} \cup (IF DiskMayFail THEN {artifact} ELSE {})

\* publish(): the committed events reach the wire, then a checkpoint.
Publish(r, kinds) ==
  /\ wire' = [wire EXCEPT ![r] = @ \o Projection(kinds)]
  /\ artifact' \in Saved([artifact EXCEPT ![r] = status[r]])

\* The task enters a journal call.
Submit(r, where, kinds, at) ==
  /\ task' = [task EXCEPT ![r] = where]
  /\ batch' = [batch EXCEPT ![r] = kinds]
  /\ expected' = [expected EXCEPT ![r] = at]
  /\ reply' = [reply EXCEPT ![r] = "none"]
  /\ reloaded' = [reloaded EXCEPT ![r] = FALSE]

\* The task has come to its end.
Ended(r) ==
  /\ task' = [task EXCEPT ![r] = "done"]
  /\ cancelled' = [cancelled EXCEPT ![r] = FALSE]

Closed(r) == journal[r] # << >> /\ Last(journal[r]) \in Ends

AtExpected(r) == Len(journal[r]) = expected[r]

\* The worker thread of a journal call commits the batch or refuses it.
Commit(r) ==
  /\ task[r] \in Writing
  /\ reply[r] = "none"
  /\ LET verdict == IF Closed(r) THEN "terminal" ELSE IF AtExpected(r) THEN "ok" ELSE "conflict"
     IN  /\ reply' = [reply EXCEPT ![r] = verdict]
         /\ journal' = IF verdict = "ok" THEN [journal EXCEPT ![r] = @ \o batch[r]] ELSE journal
  /\ UNCHANGED <<artifact, process, store, task, cancelled, expected, batch, reloaded,
                 counters>>

\* The journal raises: a busy or full database file.
WriteFails(r) ==
  /\ task[r] \in Writing
  /\ reply[r] = "none"
  /\ faults < MaxFaults
  /\ faults' = faults + 1
  /\ reply' = [reply EXCEPT ![r] = "error"]
  /\ UNCHANGED <<durable, process, store, task, cancelled, expected, batch, reloaded,
                 answers, stops>>

-----------------------------------------------------------------------------
(* Requests.                                                               *)

\* POST /api/runs: RunCoordinator.create_run.
CreateRun(r) ==
  /\ process = "up"
  /\ status[r] = "none" /\ task[r] = "none"
  /\ status' = [status EXCEPT ![r] = "queued"]
  /\ artifact' \in Saved([artifact EXCEPT ![r] = "queued"])
  /\ task' = [task EXCEPT ![r] = "spawned"]
  /\ UNCHANGED <<journal, process, wire, cancelled, kernel, counters>>

\* POST /api/runs/{run_id}/clarification; anything else is answered 409.
AnswerClarification(r) ==
  /\ process = "up"
  /\ status[r] = "awaiting_clarification"
  /\ answers[r] < MaxAnswers
  /\ answers' = [answers EXCEPT ![r] = @ + 1]
  /\ status' = [status EXCEPT ![r] = "running"]
  /\ artifact' \in Saved([artifact EXCEPT ![r] = "running"])
  /\ task' = [task EXCEPT ![r] = "respawned"]
  /\ UNCHANGED <<journal, process, wire, cancelled, kernel, faults, stops>>

-----------------------------------------------------------------------------
(* The task of a Run: _execute_generic and PackKernel.run.                 *)

Proceeds(r, where) == task[r] = where /\ ~cancelled[r]

\* The first step of a new Run's task: mark_running, then journal.create.
Start(r) ==
  /\ Proceeds(r, "spawned")
  /\ status' = [status EXCEPT ![r] = "running"]
  /\ Submit(r, "creating", <<"opened">>, 0)
  /\ UNCHANGED <<durable, process, wire, cancelled, counters>>

\* The first step of a resumed Run's task: it begins to read the journal.
StartResume(r) ==
  /\ Proceeds(r, "respawned")
  /\ task' = [task EXCEPT ![r] = "reading"]
  /\ UNCHANGED <<durable, process, store, cancelled, kernel, counters>>

\* Mutant of ResumeAt: expected_sequence as a new Run has it.
ResumeAtOpening(r) == 1

\* last_sequence, after the events were observed.
ResumeAt(r) == Len(journal[r])

\* read() and last_sequence() are back, the resumption is appended.
ReadHistory(r) ==
  /\ Proceeds(r, "reading")
  /\ Submit(r, "resuming", <<"answered", "resumed">>, ResumeAt(r))
  /\ UNCHANGED <<durable, process, store, cancelled, counters>>

\* A journal call went through: its events are published, the Pack goes on.
Proceed(r) ==
  /\ \E where \in {"creating", "resuming", "appending"} : Proceeds(r, where)
  /\ reply[r] = "ok"
  /\ Publish(r, batch[r])
  /\ task' = [task EXCEPT ![r] = "executing"]
  /\ expected' = [expected EXCEPT ![r] = @ + Len(batch[r])]
  /\ UNCHANGED <<journal, process, status, cancelled, batch, reply, reloaded, counters>>

\* _Progress: the events this task has observed, by reading or by committing.
Observed(r) == ToSet(SubSeq(journal[r], 1, expected[r]))

\* interaction_requested: the last interaction observed is a question.
InteractionRequested(r) ==
  \E i \in 1..expected[r] :
    /\ journal[r][i] = "asked"
    /\ \A j \in (i + 1)..expected[r] : journal[r][j] # "answered"

\* Mutant of Requires: a Fact needs no Plan.
RequiresNoPlan(kind) == CASE kind = "plan" -> {"goal"} [] kind = "report" -> {"fact"} [] OTHER -> {}

\* _drafts_for: what must have been observed before an emission.
Requires(kind) ==
  CASE kind = "plan" -> {"goal"}
    [] kind \in {"revised", "fact"} -> {"plan"}
    [] kind \in {"note", "report"} -> {"fact"}
    [] OTHER -> {}

\* The Pack yields an emission: append it, or fail on a contract violation.
PackEmits(r) ==
  /\ Proceeds(r, "executing")
  /\ Len(journal[r]) < MaxEvents
  /\ \E kind \in Emissions :
       IF Requires(kind) \subseteq Observed(r)
         THEN Submit(r, "appending", <<kind>>, expected[r])
         ELSE Submit(r, "failing", <<"failed">>, expected[r])
  /\ UNCHANGED <<durable, process, store, cancelled, counters>>

\* _commit_outcome: an outcome that keeps the contract.
Keeps(r, end) ==
  /\ end = "completed" => "report" \in Observed(r)
  /\ end = "awaiting" => InteractionRequested(r)

\* The Pack yields its outcome, or raises a domain error, which is a failed
\* one: _commit_outcome, shielded from cancellation, commits it or its failure.
PackEnds(r) ==
  /\ Proceeds(r, "executing")
  /\ \E end \in Ends \cup {"awaiting"} :
       Submit(r, "committing", IF Keeps(r, end) THEN <<end>> ELSE <<"failed">>, expected[r])
  /\ UNCHANGED <<durable, process, store, cancelled, counters>>

\* The Pack raises anything else, or stops without an outcome.
PackBreaks(r) ==
  /\ Proceeds(r, "executing")
  /\ Submit(r, "failing", <<"failed">>, expected[r])
  /\ UNCHANGED <<durable, process, store, cancelled, counters>>

\* An append that was to go on is refused or raises: _terminal_failure.
Fail(r) ==
  /\ \E where \in {"resuming", "appending"} : Proceeds(r, where)
  /\ reply[r] \notin {"none", "ok"}
  /\ Submit(r, "failing", <<"failed">>, expected[r])
  /\ UNCHANGED <<durable, process, store, cancelled, counters>>

\* _append with reload_on_conflict: the second call expects latest_sequence.
Reload(r) ==
  /\ Proceeds(r, "failing") \/ task[r] = "committing"
  /\ reply[r] = "conflict" /\ ~reloaded[r]
  /\ expected' = [expected EXCEPT ![r] = Len(journal[r])]
  /\ reply' = [reply EXCEPT ![r] = "none"]
  /\ reloaded' = [reloaded EXCEPT ![r] = TRUE]
  /\ UNCHANGED <<durable, process, store, task, cancelled, batch, counters>>

\* run.failed is committed: published, and the coordinator marks the Run.
Failed(r) ==
  /\ Proceeds(r, "failing")
  /\ reply[r] = "ok"
  /\ wire' = [wire EXCEPT ![r] = @ \o Projection(batch[r])]
  /\ status' = [status EXCEPT ![r] = "failed"]
  /\ artifact' \in Saved([artifact EXCEPT ![r] = "failed"])
  /\ Ended(r)
  /\ UNCHANGED <<journal, process, kernel, counters>>

\* The outcome is committed: the inner task publishes it, whatever was
\* cancelled meanwhile.  The coordinator's task has not gone on yet.
Outcome(r) ==
  /\ task[r] = "committing"
  /\ reply[r] = "ok"
  /\ Publish(r, batch[r])
  /\ task' = [task EXCEPT ![r] = "finishing"]
  /\ UNCHANGED <<journal, process, status, cancelled, kernel, counters>>

\* mark_awaiting, mark_generic_terminal or mark_failed, and the checkpoint.
Finish(r) ==
  /\ task[r] = "finishing"
  /\ status' = [status EXCEPT ![r] = StatusAfter(batch[r][1])]
  /\ artifact' \in Saved([artifact EXCEPT ![r] = StatusAfter(batch[r][1])])
  /\ Ended(r)
  /\ UNCHANGED <<journal, process, wire, kernel, counters>>

\* _finalize_generic_failure: the coordinator ends the Run without the journal.
Finalize(r) ==
  /\ wire' = [wire EXCEPT ![r] = @ \o <<"error", "failed">>]
  /\ status' = [status EXCEPT ![r] = "failed"]
  /\ artifact' \in Saved([artifact EXCEPT ![r] = "failed"])
  /\ Ended(r)

\* An exception leaves the kernel: create() or a terminal append failed.
Escape(r) ==
  /\ \/ Proceeds(r, "creating") /\ reply[r] \notin {"none", "ok"}
     \/ /\ Proceeds(r, "failing") \/ task[r] = "committing"
        /\ reply[r] \notin {"none", "ok"}
        /\ reply[r] = "conflict" => reloaded[r]
  /\ Finalize(r)
  /\ UNCHANGED <<journal, process, kernel, counters>>

\* A read of the journal fails before the kernel has begun to append.
ReadFails(r) ==
  /\ Proceeds(r, "reading")
  /\ faults < MaxFaults
  /\ faults' = faults + 1
  /\ Finalize(r)
  /\ UNCHANGED <<journal, process, kernel, answers, stops>>

\* CancelledError reaches the task where it waits.  A journal call whose worker
\* never started is withdrawn, one that was answered has its answer dropped.
CancelArrives(r) ==
  /\ cancelled[r]
  /\ \/ /\ task[r] \in {"spawned", "respawned"}
        /\ Ended(r)
        /\ UNCHANGED <<artifact, store, kernel>>
     \/ /\ task[r] \in {"creating", "reading", "failing"}
        /\ Finalize(r)
        /\ UNCHANGED kernel
     \/ /\ task[r] \in {"resuming", "appending", "executing"}
        /\ Submit(r, "failing", <<"failed">>, expected[r])
        /\ cancelled' = [cancelled EXCEPT ![r] = FALSE]
        /\ UNCHANGED <<artifact, store>>
  /\ UNCHANGED <<journal, process, counters>>

-----------------------------------------------------------------------------
(* Shutdown, crash, restart.                                               *)

\* RunCoordinator.close: no new Runs or answers, every task is cancelled once.
Close ==
  /\ process = "up"
  /\ stops < MaxStops
  /\ stops' = stops + 1
  /\ process' = "closing"
  /\ cancelled' = [r \in Runs |-> task[r] \notin Idle]
  /\ UNCHANGED <<durable, store, task, kernel, answers, faults>>

\* The memory of the process is gone.
MemoryLost ==
  /\ process' = "down"
  /\ task' = [r \in Runs |-> "none"]
  /\ cancelled' = [r \in Runs |-> FALSE]
  /\ batch' = [r \in Runs |-> << >>]
  /\ expected' = [r \in Runs |-> 0]
  /\ reply' = [r \in Runs |-> "none"]
  /\ reloaded' = [r \in Runs |-> FALSE]

\* Mutant of Abandoned: the status is not looked at.
AbandonedAny(r) == task[r] = "done"

\* A task of this process was cancelled before its first step.
Abandoned(r) == task[r] = "done" /\ status[r] \in {"queued", "running"}

\* All tasks are done: close() fails the Runs that are left, the process exits.
Exit ==
  /\ process = "closing"
  /\ \A r \in Runs : task[r] \in Idle
  /\ status' = [r \in Runs |-> IF Abandoned(r) THEN "failed" ELSE status[r]]
  /\ wire' = [r \in Runs |-> IF Abandoned(r) THEN wire[r] \o <<"error", "failed">> ELSE wire[r]]
  /\ artifact' \in Saved([r \in Runs |-> IF Abandoned(r) THEN "failed" ELSE artifact[r]])
  /\ MemoryLost
  /\ UNCHANGED <<journal, counters>>

Crash ==
  /\ process # "down"
  /\ stops < MaxStops
  /\ stops' = stops + 1
  /\ MemoryLost
  /\ UNCHANGED <<durable, store, answers, faults>>

\* Mutant of Refold: done events are passed over.
RefoldLastOnly(events) ==
  IF events # << >> /\ Last(events) = "clarification_required" THEN "awaiting_clarification"
  ELSE "failed"

\* _refold_restored_state: how the wire history left the Run.
Refold(events) ==
  IF ToSet(events) \cap Done # {} THEN CHOOSE s \in ToSet(events) \cap Done : TRUE
  ELSE IF events # << >> /\ Last(events) = "clarification_required" THEN "awaiting_clarification"
  ELSE "failed"

\* Mutants of Restored: the journal is replayed for the stream only; every
\* status is refolded, settled or not.
RestoredAsSaved(r) == artifact[r]
RestoredAnew(r) ==
  IF journal[r] # << >> THEN Refold(Projection(journal[r])) ELSE artifact[r]

\* restore_artifact, then restore_wire_events for the Runs the journal knows:
\* the status is refolded unless the Artifact has one that is settled.
Restored(r) ==
  IF journal[r] # << >> /\ artifact[r] \in {"none", "queued", "running"}
  THEN Refold(Projection(journal[r])) ELSE artifact[r]

\* Mutant of Replayed: a settled Run gets no history back.
ReplayedUnlessSettled(r) ==
  IF artifact[r] \in {"none", "queued", "running"} THEN Projection(journal[r]) ELSE << >>

\* restore_events: the wire history that a client's cursor refers to.
Replayed(r) == Projection(journal[r])

\* The next process starts, before it serves a request.
Restart ==
  /\ process = "down"
  /\ process' = "up"
  /\ status' = [r \in Runs |-> Restored(r)]
  /\ wire' = [r \in Runs |-> Replayed(r)]
  /\ UNCHANGED <<durable, task, cancelled, kernel, counters>>

-----------------------------------------------------------------------------
Request(r) == CreateRun(r) \/ AnswerClarification(r)
Pack(r) == PackEmits(r) \/ PackEnds(r) \/ PackBreaks(r)
Worker(r) == Commit(r) \/ WriteFails(r)
TaskStep(r) ==
  \/ Start(r) \/ StartResume(r) \/ ReadHistory(r) \/ ReadFails(r) \/ Proceed(r)
  \/ Fail(r) \/ Reload(r) \/ Failed(r) \/ Outcome(r) \/ Finish(r) \/ Escape(r)
  \/ CancelArrives(r)

Next ==
  \/ \E r \in Runs : Request(r) \/ Pack(r) \/ Worker(r) \/ TaskStep(r)
  \/ Close \/ Exit \/ Crash \/ Restart

\* The event loop and the thread pool run what is ready, and a Pack comes to an
\* end: its loops have budgets.  Nobody has to ask, answer, stop or start.
Fairness ==
  /\ \A r \in Runs : WF_vars(TaskStep(r)) /\ WF_vars(Worker(r)) /\ WF_vars(Pack(r))
  /\ WF_vars(Exit)

Spec == Init /\ [][Next]_vars
FairSpec == Spec /\ Fairness
-----------------------------------------------------------------------------
(* Properties.                                                             *)

\* Every variable has its type.
TypeOK ==
  /\ journal \in [Runs -> Seq(Kinds)]
  /\ artifact \in [Runs -> Statuses]
  /\ process \in {"up", "closing", "down"}
  /\ status \in [Runs -> Statuses]
  /\ DOMAIN wire = Runs
  /\ task \in [Runs -> Tasks]
  /\ cancelled \in [Runs -> BOOLEAN]
  /\ expected \in [Runs -> Nat]
  /\ batch \in [Runs -> Seq(Kinds)]
  /\ reply \in [Runs -> {"none", "ok", "conflict", "terminal", "error"}]
  /\ reloaded \in [Runs -> BOOLEAN]
  /\ answers \in [Runs -> 0..MaxAnswers]
  /\ faults \in 0..MaxFaults
  /\ stops \in 0..MaxStops

\* The history of a Run keeps the Pack contract, across resumptions, conflicts,
\* cancellations and restarts: nothing follows the end, no report without a
\* Fact nor Fact without a Plan before it, a completed Run has its report.
HistoryLegal ==
  \A r \in Runs : \A i \in 1..Len(journal[r]) :
    LET before == ToSet(SubSeq(journal[r], 1, i - 1))
    IN  /\ journal[r][i] = "opened" <=> i = 1
        /\ journal[r][i] \in {"fact", "revised"} => {"goal", "plan"} \subseteq before
        /\ journal[r][i] \in {"note", "report"} => "fact" \in before
        /\ journal[r][i] = "completed" => "report" \in before
        /\ journal[r][i] \in {"awaiting", "answered"} => "asked" \in before
        /\ journal[r][i] \in Ends => i = Len(journal[r])

\* Only the run.failed of a cancelled Run meets a journal that moved on without
\* it: no emission, resumption or outcome is refused for its sequence.
OwnTurn == \A r \in Runs : reply[r] = "conflict" => task[r] = "failing"

\* Both: the kernel's appends make a legal history, each in its own turn.
LegalHistory == TypeOK /\ HistoryLegal /\ OwnTurn

\* A Run at rest has the status its journal gives it: how it ended, and when it
\* has not, it waits for an answer to a question it asked or was interrupted.
StatusAsJournal ==
  \A r \in Runs : process = "up" /\ task[r] \in Idle /\ journal[r] # << >> =>
    IF Closed(r) THEN status[r] = Last(journal[r])
    ELSE \/ status[r] = "failed"
         \/ status[r] = "awaiting_clarification" /\ "asked" \in ToSet(journal[r])

\* What clients have been sent is the projection of committed events, in order,
\* up to the error and done with which the coordinator gives a Run up; nothing
\* committed is missing from the stream of a Run at rest.
StreamProjected ==
  \A r \in Runs : \E n \in 0..Len(journal[r]) :
    LET sent == Projection(SubSeq(journal[r], 1, n))
    IN  \/ wire[r] = sent /\ (task[r] \in Idle /\ process = "up" => n = Len(journal[r]))
        \/ wire[r] = sent \o <<"error", "failed">>

\* No client waits for more after a done, so nothing is ever sent after it and
\* a Run that waits for an answer has none.
DoneIsLast ==
  \A r \in Runs : \A i \in 1..Len(wire[r]) : wire[r][i] \in Done =>
    i = Len(wire[r]) /\ status[r] # "awaiting_clarification"

\* Both: clients are told the committed history, and its end last.
StreamIsHistory == StreamProjected /\ DoneIsLast

\* A Run the journal knows is never left queued or running with nobody at work
\* on it, however its process ended.
Attended ==
  \A r \in Runs : process = "up" /\ journal[r] # << >> /\ status[r] \in {"queued", "running"}
    => task[r] \notin Idle

\* Both: status, task and journal of a Run agree whenever nobody works on it.
StatusFollowsJournal == StatusAsJournal /\ Attended

\* A status shown to clients moves only as the API promises, over stops too.
Phase == INSTANCE RunPhases WITH
  phase <- [r \in Runs |->
    CASE status[r] = "none" -> "absent"
      [] status[r] \in {"queued", "running"} -> "working"
      [] status[r] = "awaiting_clarification" -> "asking"
      [] OTHER -> status[r]]

ImplementsRunPhases == Phase!PhaseSpec

\* As long as the process is not stopped, a Run that is worked on ends or asks.
RunsSettle ==
  \A r \in Runs :
    status[r] \in {"queued", "running"} /\ journal[r] # << >>
      ~> status[r] \in {"awaiting_clarification"} \cup Ends \/ process = "down"

-----------------------------------------------------------------------------
(* What the documentation says and the code does not do.                   *)

\* run_store.py: a Run whose process stopped does not stay a zombie.
NoZombie ==
  \A r \in Runs : process = "up" /\ status[r] \in {"queued", "running"} => task[r] \notin Idle

\* CONTEXT.md: the status is what the events, applied in order, make it.
AwaitsItsQuestion ==
  \A r \in Runs : process = "up" /\ status[r] = "awaiting_clarification" =>
    \E i \in 1..Len(journal[r]) :
      /\ journal[r][i] = "asked"
      /\ \A j \in (i + 1)..Len(journal[r]) : journal[r][j] # "answered"

\* run_store.py: a snapshot that never saw the terminal state is reconciled.
TerminalReconciled ==
  \A r \in Runs : process = "up" /\ task[r] \in Idle /\ Closed(r) =>
    status[r] = Last(journal[r])
=============================================================================
