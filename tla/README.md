# A formal model of Customer Signal

Customer Signal answers analysis questions about customer events. A FastAPI process accepts a
question as an *Analysis Run*, executes it through an *Analysis Pack*, records every step in an
event journal, streams the steps to browsers over SSE and keeps a snapshot *Artifact* per Run.
The analysis itself is planned, executed and reported by models under the server's validation, over
bounded reads of sources; an *Investigation* lets models explore a frozen data space and propose
signals. Beside the Runs it tracks registered *signals* day by day and raises alerts.

This directory holds TLA+ models of the backend's core, the TLC runs that check them on small
instances, and TLAPS proofs of what matters most for every instance. Paths below are relative to
`src/backend/src/customer_signal/`.

## 1. Inventory

### The system's parts

| part | state | operations | talks to |
|---|---|---|---|
| EventJournal (`journal/sqlite.py`, contract in `journal/journal.py`) | SQLite file: one row per Run, one per event; per process a connection, an `asyncio.Lock`, a condition | `create`, `append` (compare-and-swap on the sequence), `read`, `tail` | PackKernel, RunCoordinator, restart |
| PackKernel (`packs/kernel.py`) | per execution: expected sequence, what was observed of the Run | `run`: commit each emission, then notify; end with an outcome or `run.failed` | journal, Pack, coordinator's `publish` |
| CustomerSignalPack (`packs/customer_signal.py`) | outcomes by Run, a queue per execution | turns an analysis loop's events into emissions | kernel, loops |
| RunCoordinator (`runtime/coordinator.py`) | one task per Run, `_closing` | `create_run`, `answer_clarification`, `_execute_generic`, `close` | kernel, RunStore, ArtifactStore |
| RunStore (`runtime/run_store.py`, `runtime/wire_projection.py`) | per Run: status, wire events, folded state, event-id offset | status changes, append, stream, restore and refold | API, coordinator |
| ArtifactStore (`runtime/artifact_store.py`) | a JSON file per Run | atomic save, list | coordinator, restart |
| API (`api.py`) | the objects above | start (seed, restore), requests, streams, shutdown | all |
| AnalysisLoop (`agent/`) | one analysis: goal, plan, budgets, Facts, Notes | plan, execute in a thread, note, revise, report | models, executor |
| Analytics (`analytics/`, `domain/facts.py`) | none | ten primitives, the executor with its contracts, the fixed risk analysis | sources, repository |
| Sources and data (`onboarding/`, `synthetic/`, `data/`) | a managed DuckDB file with its WAL, lock marker and backup; mapped tables | pages, bounded loads, identities, evidence, snapshot tokens, publication | executor, exploration |
| Investigation (`investigation/`) | candidates, decisions, proposals of one investigation | gate, load, coordinate, investigate, verify, report, save | models, workbench |
| Exploration (`exploration/`) | a reader with source tokens, stored results, a ledger of calls | inspect, summarise, sequences, evidence, pages, report | sources |
| Signals (`signals/`) | SQLite: signals, measurements, schedules, daily runs, rules, alert state and feed, fast-forward requests; a lock file per signal | register, measure, tick, fast-forward, reset, replace rules, poll | API, scheduler thread |
| Frontend (`src/frontend/`) | reducer state, cursor, alert cursor | reconnect, apply events, poll | API |
| Presentation, observability, seeding generators | data | rendering, tracing, generation | |

### What is hard in it, and what makes each part correct

* **Journal.** A write runs in a thread while its coroutine may be cancelled; several processes
  share the file; tails wait on a condition that other processes cannot notify. Correct means:
  contiguous, append-only, batches atomic, nothing after a terminal event, answers that are true,
  readers that see committed events only, tails that end.
* **Kernel, coordinator, store and streams.** Three records of one Run (journal, in-memory status
  and stream, Artifact file) are written one after the other, with shutdown, journal failures and
  crashes between any two writes, while clients lose and take up their streams. Correct means: the
  journal keeps the Pack contract across resumptions; status and stream are what the journal makes
  them once the Run is at rest; a client that comes back misses nothing and sees nothing twice; a
  Run ends once; nobody is left waiting.
* **Restart.** Artifacts and journal disagree about an interrupted Run. Correct means: whatever
  the journal knows is reconciled.
* **Analysis.** Model answers are arbitrary, a thread computes, a deadline and two kinds of
  cancellation may come at any await. Correct means: only validated plans run, every published
  Claim is true of a Fact, the emissions keep the kernel's contract, everything ends and no thread
  goes on unasked.
* **Investigation.** Roles work side by side on shared candidates that are replaced, sent back and
  judged under a deadline. Correct means: what is reported was judged as reported; what is saved
  was confirmed independently and measured.
* **Exploration.** Sources change and fail during and between queries. Correct means: a result is
  of one snapshot and says truly whether it is complete; a report rests on such results only.
* **Data.** One-pass computations at their boundaries, bounded reads, contracts that may drop what
  was computed; files replaced under readers and writers. Correct means: the result is what its
  definition says, or the Step fails; the database is never lost.
* **Signals.** A day's measurement and its bookkeeping are two transactions; ticks of several
  processes, fast-forwards, resets and rule edits meet. Correct means: every day once, in order;
  alerts on rising edges only; a retried request repeats nothing.

`PROJECT.json` lists every component with its status and the hazards at their lines.

## 2. Modules

| module | models |
|---|---|
| `RunLog` | what the journal promises: calls take effect at most once, in one step, extending a log that is well formed |
| `EventJournal` | `SQLiteEventJournal` in several processes: coroutines, lock, worker threads, transactions, readers, cancellation, crash |
| `EventJournalProofs` | its theorems, the implementation of `RunLog` among them |
| `RunPhases` | what the API promises of a Run's status |
| `RunLifecycle` | coordinator, kernel, store, artifacts, shutdown, crash, restart |
| `RunStream` | extends `RunLifecycle` by the SSE streams and their clients |
| `RunLifecycleProofs` | theorems of both: the journal of a Run, status and stream beside it, and what its clients have |
| `DailyLedger` | what daily tracking promises of a signal: a cursor and the result of each day |
| `SignalTracking` | signals, schedules, daily runs, lock files, scheduler threads, fast-forward, reset |
| `SignalTrackingProofs` | its theorems: ticks, fast-forwards, and the implementation of `DailyLedger` |
| `SignalAlerts` | rules, evaluation of measurements, the event feed and its cursors |
| `SignalAlertsProofs` | its theorems |
| `PlanRules` | the validators of Goals, Plans, Claims and Notes, and the report's composition |
| `FixtureModel` | the scripted model of the fixture mode |
| `AnalysisLoop` | the loop, the executor's thread and budget, the Pack's pump and queue |
| `Investigation` | runner, investigators, verifiers, workbench |
| `ModelProofs` | theorems of both: `AnalysisLoop` with the answers of `FixtureModel`, and `Investigation` |
| `ExplorationQueries`, `SourcePages` | what the exploration Tools compute, and what they accept from a source |
| `Exploration` | an agent's session: scans, barriers, results, pages, ledger, report |
| `ExplorationProofs` | its theorems |
| `CustomerEvents` | events of customers and their order |
| `Facts`, `Primitives` | payload contracts and Facts; the ten primitives and the executor |
| `JourneyRisk` | the fixed risk analysis over the repository |
| `SourceAdapters` | mapped tables, the managed database as a source, the registry |
| `DatabasePublication` | seeding, a foreign writer, crash and power loss, snapshot tokens |
| `ExplorationRules`, `AnalyticsRules`, `RiskRules`, `SourceRules` | independent definitions of what those computations mean |
| `DataRules` | the composition of the four and of `DatabasePublication` |
| `RulesProofs` | lemmas about the rules of `ExplorationRules` |
| `DataProofs` | theorems of `DataRules`, those of `DatabasePublication` among them |
| `MC...` | TLC instances |

### EventJournal

`key[r]` is the row of `journal_runs`, `table[r]` the rows of `journal_events` by sequence;
`txn[p]` and `staged[p]` are the transaction of process `p`'s connection. A call has a coroutine
(`pc`: ready, locking, working, settling, notifying, then returned, cancelled or lost) and a
worker thread (`job`: queued, begun, inserting, done, dead). `Submit` is `create`/`append` up to
the lock, `AcquireLock` and `Settle` are `_write`, `Notify` is `_notify`; `Begin`, `BeginFails`,
`Check`, `Insert`, `Commit`, `RollBack` are the statements of `_create_sync` and `_append_sync`.
`Cancel` is `asyncio`'s cancellation at whatever await the coroutine stands: the first one is
absorbed by `asyncio.shield` and the handler's second await, a further one is not. Readers step
through `Fetch`, `Yield`, `CheckTerminal` and `Poll`. A reader uses the connection of its process,
so it *would* see that connection's uncommitted rows (`Visible`): that it never does is a theorem
about the lock, not an assumption. `Crash` loses a process; SQLite rolls its transaction back.
Event bodies are reduced to their kind and the call that wrote them. `validate_batch` is modelled
by what it rejects.

### RunLifecycle and RunStream

The journal is here the log that EventJournal was shown to implement: a submitted call commits or
is refused in one step of its own (`Commit`), or raises (`WriteFails`), before the coroutine goes
on. One step is the code between two awaits that really suspend; the conditions of the RunStore
are never contended, so its methods are atomic, and publication, checkpoint and what follows are
one step.

`task[r]` says at which await the Run's task stands: `creating`, `reading`, `resuming`,
`appending`, `failing` and `committing` are journal calls, `executing` waits for the Pack,
`finishing` stands between the shielded inner task and the coordinator. `expected` is the kernel's
`expected_sequence`, `batch` the drafts of the call under way, `reply` its answer. The Pack is
arbitrary: any emission of `Emissions`, any outcome, an exception, at any time (`PackEmits`,
`PackEnds`, `PackBreaks`); `Requires` and `Keeps` are the checks of `_drafts_for` and
`_commit_outcome`. What the kernel has observed is a prefix of the journal, so `_Progress` needs
no variable. `Close`, `CancelArrives` and `Exit` are a shutdown, `Crash` and `Restart` the other
way down and up, `Restored` and `Replayed` the reconciliation at start. With `DiskMayFail` every
save of an Artifact may fail on its own (`Saved`).

Event kinds are `goal`, `plan`, `revised`, `fact`, `note`, `report`, `activity`, `asked` for the
artifact, activity and interaction events, and the lifecycle kinds. Wire events carry the same
names; a `done` is written by the status it carries.

`RunStream` adds a stream per client: `Connect` validates the Last-Event-ID (`Acceptable`), `Look`
takes what the store has, `Yield` hands out one event, other tasks running in between, and the
stream waits on the condition that a publication or a final status notifies. `offset` and the
saved last id are how ids survive a restart.

### SignalTracking

`status`, `enabled`, `next`, `meas`, `runs`, `plan`, `answer` and `resets` are the tables, by
signal or request; `lock` and `ffLock` are the lock files, and `act` is what each thread is doing.
Threads belong to any number of processes: they share nothing but the file and the locks, so a
process is not in the model, and its death is the death of some of its threads (`Dies`), which is
more than can happen. Workers step through `Tick` (the due list), `PassOver` or `TakeDay` (lock,
look again, start the day), `MeasureDay`, `FinishDay`: the three transactions of `execute_day` are
three steps. A fast-forward is `StartForward`, then per item `SkipItem` or `StartItem`,
`MeasureBaseline`, and per day `ReuseDay`, `DropDay`, `StartDay`, `MeasureDay`, `FinishDay` or
`BlockDay`, then `EndItem`, `AnswerForward`. `Reset` is one step: what it does before its one
transaction changes nothing and is protected by the locks. Registration takes no lock
(`Register`); requests about a signal that is busy are refused, so they have no action.

Taking the locks of a request is one step: they are taken without waiting, and a request that
meets a busy one gives back what it has and fails. A measurement is its window and whether it
succeeded. Times count half days so that a registration's window may end off midnight; the clock
itself strikes midnights only. `paused` stands for `archived`. Workers and items take signals in
any order, which includes the code's.

`DailyLedger` is the abstraction: a cursor per signal and a result per day, with the steps a user
can account for. The mapping hides running rows, locks, threads and requests.

### SignalAlerts

One signal, one transaction per step. `AddMeasurement` is `add_measurement` with
`evaluate_measurement` in it, and `Evaluate` follows its order: baseline, comparability, and per
rule the last end judged, the value, the comparison, the event, the state. `Replace` is
`replace_rules` with its revision check and its three early ends; `opened` is what an editor loaded
before. `Poll` is one call of `events`. Measurements come in any order and any number of times,
because that is what SignalTracking, manual measurements and fast-forwards amount to.
`log` and `known` are history variables for the properties and nothing reads them.

### PlanRules, FixtureModel and AnalysisLoop

A Plan is a sequence of Steps, a Fact the record of the Step it came from, a Claim its references
and its relation to one Fact. The model is arbitrary: `GoalDecided`, `PlanDrafted`, `NoteDrafted`,
`Selected` and `ReportDrafted` take any draft of sets the constants name, `ModelFails` raises.
`Thread...` are the executor's checkpoints (`ThreadBegins`, `ThreadLoads`, `ThreadHandles`,
`ThreadReturns`), at each of which a budget that was stopped or expired raises; `StopBudget` is the
callback that tells it. The pump puts events into a queue (`Emit`), the Pack's generator takes them
(`Consume`), the kernel may close it at any time (`KernelCloses`), which cancels the pump, which may
be cancelled again. `FixtureModel` answers as `GenericFixtureModel` does; `FixtureAccepted` says that
the validators accept every script of it.

### Investigation

`crew` are the roles being gathered: investigators by task, verifiers by candidate. A role's step is
what it does between two awaits; a model may answer anything its contract allows, and a candidate may
cite a query of any role that has run (`Citable`). `MergeOf` and `Merged` are the intake of a round's
results into the candidates, `Precheck`, `Judge` and `VerifierFails` the life of a decision, `Persist`
the saving of the Proposals. `Verified` is the end of a round: the report (`RoundsDone`), another round
for what was sent back (`NextRound`), or the report at once because the question of a follow-up Task
is longer than a Task admits (`FollowupRefused`; the prefix of `runner.py:507` before a text that may
have 1000 characters already, `contracts.py:54,57`, for a field of 1000, `contracts.py:24`). A deadline
may fire at any await when the runner was given deadlines. `cut` says whether a deadline or a refused
Task cut the rounds short: both leave a limitation in the report, and what was sent back stays open.

### Exploration, ExplorationQueries, SourcePages

`Exploration` is one agent's session. A source changes (`Change`) or fails (`Interrupt`) at any step.
A call is `Ask`, `Begin`, then per page `AssertToken`, `Load`, `Recheck`, `Consume`, and `Certify`
or `GiveUp`; `ReadPage` and `PageFindsChange` read what was stored, `Submit` is the report. A token
check over all sources is one step: versions only move forward, so a check that began before a
change and ended after it equals one at its end. Evidence may be asked of any result that was observed:
of a summary, a funnel, the values of a field, of evidence itself (`Asks`, `Selections`; of a catalog it
is evidence of nobody), for at most three of its customers. A report keeps the ledger it was checked
against, so that `ReportGrounded` can follow evidence asked of evidence back to a scan that met the
customer first. `ExplorationQueries` holds what a scan computes from
the events it is handed one at a time, as folds, and `SourcePages` what it accepts from a source.

### Facts, Primitives, JourneyRisk, SourceAdapters

These are pure: a primitive is a function of the Step's context, `Execute` runs one Step with all
its contracts and ends in a Fact or an error. Facts of other sources, times or versions than those of
the Step are refused before its events are looked at (`InputsCurrent`), Facts of customers or evidence
outside of them after that (`InputsInScope`). Texts are numbers in their order, calendars the set of
the starts of their buckets, weights integers, averages rounded down. `SourceAdapters` follows both
kinds of adapter through pages (`EventPage`, `IdentityPage`), bounded loads (`LoadEvents`,
`LoadIdentities`), the registry's checks (`CheckedEvents`, `RegistryEvents`, `RegistryIdentities`),
the executor's probe for completeness (`CompleteEvents`) and evidence (`ProvidedEvidence`,
`RegistryEvidence`).

`AnalyticsRules`, `RiskRules`, `SourceRules` and `ExplorationRules` state what the results mean by
quantification over the events, without order, state or folds, and draw the cases.

### DatabasePublication

A file is its inode. `seeder[s].at` is the next system call of seeder `s`; `disk` is the directory as
processes see it and `durable` as it was last synced. `CreateLock` to `Release` are the calls of
`_publish_database` in order, `Raises` the way into its handler, `Restore` the rollback, `Fail` an
error of any call, `Kill` and `PowerLoss` the crashes. `OpenWriter`, `Commit`, `CloseWriter` are a
DuckDB connection that ignores the marker: it writes a WAL beside whatever is called the database.
`StatBefore`, `ReadMain`, `ReadWal`, `StatAfter` are `snapshot_token`. A read-only opening in
`is_database_ready` fails while a writer has the file (`Readable`), and a changed database may or may
not have the rows it wants.

## 3. Runs

Every passing run is exhaustive for its bounds. `CHECK_DEADLOCK FALSE` throughout: calls end,
Runs end, nobody has to ask again, and a drawn case stays as it is.

| run | checks | instance |
|---|---|---|
| `journal_writers` | TypeOK, LogSound, AnswersAtomic, ImplementsRunLog | two processes, two creates with different keys, a two-event batch, a terminal append, an invalid one; one cancellation each, one crash |
| `journal_readers` | DeliversCommitted, TailEndsAtTerminal, and fair: NobodyWaits | a tail and a read beside a create, a batch, and a terminal append of the other process; one cancellation each |
| `run_life` | LegalHistory, StatusFollowsJournal, StreamIsHistory, ImplementsRunPhases, and fair: RunsSettle | one Run through two answers, two journal failures, two stops |
| `run_stream` | ClientsFollow, and fair: StreamsEnd | a client of a Run that asks twice, with any number of lost connections, one stop and restart, saves that fail |
| `analysis_loop` | PlanHonoured, ReportGrounded, ByContract, FixtureAccepted, and fair: AnalysisEnds | two sources, plans, revisions, notes and reports the validators accept and some they refuse; a deadline, a closing kernel, a second cancellation |
| `investigation` | ProposalsBacked, ReportedAsVerified, and fair: RunEnds | two tasks, two candidate ids, two definitions, a round of reinvestigation or a follow-up that is refused, a deadline, a stop |
| `exploration` | SnapshotRead, ReportGrounded, and fair: CallsReturn | the catalogs, then three queries of a script, two sources of which one changes, two failures, pages of one |
| `data_rules` | ResultsAsDefined, InputsAsDefined, FactsAsDefined, GenerationSafe | see below |
| `tracking_schedule` | TypeOK, RunsBacked, CursorHeld, ImplementsDailyLedger | two workers, a fast-forward of two days, manual measurements, a user who switches and moves the schedule, a fault |
| `tracking_forward` | ForwardSound, RequestsReplay, and fair: CatchesUp | two fast-forwards beside a worker, a reset, pauses, a fault; baselines off midnight |
| `alerts` | EventsAreEntries, FeedInOrder, OnlyNews, StateForRules | a rule on a relative change, four measurements of three days in any order, two edits, a reset, a poller with pages of one event |
| `run_zombie` | NoZombie, **violated** | see section 5 |

Several properties are conjunctions of named parts: `LogSound` is Contiguous and ClosedByTerminal;
`AnswersAtomic` is BatchAtomic (a batch is all or nothing, right after the sequence it expected) and
HonestAnswers; `NobodyWaits` is CallsEnd and TailsEnd; `LegalHistory` is the type invariant, the Pack
contract over resumptions and OwnTurn (one task writes for a Run at a time); `StatusFollowsJournal`
is StatusAsJournal and Attended (a Run that is worked on has a task); `StreamIsHistory` is
StreamProjected and DoneIsLast; `ForwardSound` is HonestResults (an answer says what was done) and
PlansCurrent; `OnlyNews` is ForwardOnly and HistoryNotReplayed; `ByContract` is ContractKept and
StopsWork. The first property of a module without `TypeOK` in its run carries it.

`data_rules` draws one case of one kind, or is one history of the publication:

* *ResultsAsDefined*: every timeline of up to four events under repetition, sequence, funnel and
  summary queries, of all customers or of a cohort, is what its definition says; so are the
  vocabulary, the views of a field and the evidence around an anchor.
* *InputsAsDefined*: what is accepted of chains of two event pages and pairs of identity graphs is in
  one order, repeats nothing and gives each event one customer; representatives are as many and as
  varied as can be; a mapped table makes a manifest that takes all its rows and shows no personal
  field, or no source.
* *FactsAsDefined*: the pages of a mapped table and of the database are accepted, whole and in order;
  whatever the executor loads is all there is in scope or an error, except where the managed database
  cuts a load at 100 rows (`LoadsComplete`; section 5); evidence is the record of an event the caller was
  given. Steps chained over the Facts of earlier Steps publish what their primitive means for the events
  of their sources; a Fact is refused where the Step does not cover its sources, and only there; a legal
  Step fails only in the ways section 5 names; the customers at risk, their signals, scores, buckets and
  journeys are those of the policy.
* *GenerationSafe*: one publication at a time; a backup is never on the disk without the marker; no
  WAL loses the main it was written for, unless it came after the last look or was of a generation
  taken back; what a seeder is told is so; a token is of a main and WAL that were there together.

### Bounds

* Journal: one Run is enough for the per-Run properties (calls on different Runs share only the
  lock and the write lock, and two calls on one Run contend for both); two processes, because
  the lock is per process and the write lock per file; a batch of more than one event so that it
  can be half inserted; a create with a second key; one cancellation per call is what
  `RunCoordinator.close` can cause.
* Lifecycle: a Pack stops emitting when the journal has `MaxEvents` events. 6 suffices to reach a
  completed Run and 7 to reach one that was resumed and needs what it had committed before.
  Two stops allow a crash after a shutdown and a restart interrupted again; two faults allow a
  failed append followed by a failed `run.failed`. Runs do not interact except through the
  process that stops them all, so one is enough. `RunLife.cfg` has a directory that can be written
  (`DiskMayFail = FALSE`): with failing saves `ImplementsRunPhases` and `StatusFollowsJournal` do
  not hold (section 5); `RunStream.cfg` has failing saves.
* Streams: clients do not see each other, so one is enough; `Connect` and `Drop` are unbounded.
  Four events hold an opening, a question, its answer and an end. Two answers are needed for a
  stale snapshot: one that could not be saved after the first answer waits for an answer that the
  journal has, and takes another one although the journal may be over.
* Analysis: Plans of 3 or 4 Steps (3 to 6 in the code: the fourth is the one a revision may add);
  `EventCounts` has a count over, at and below `MaxInput`, and none; two events ahead in the queue
  let the Pack fall behind the loop by more than one.
* Investigation: two candidates, so that one may be replaced while the other is judged; one verifier
  at a time (with more, the state space no longer fits the time); one round of reinvestigation
  (`MaxRounds`), since the rounds do not count. The code has no such bound: `while followups`
  (`runner.py:498`) goes on as long as verifiers send something back, which a test wants
  (`tests/test_investigation_runner.py:270`), and the API sets no deadline (`api.py:242-267`).
  `RunEnds` therefore says: the Run ends, or a verifier of the last round that is followed has answered
  and sent its candidate back (`BeyondBound`). Deadlines are on, and may fire at any moment or never.
* Exploration: the script fixes which queries may be asked as the n-th: the two catalogs a report
  needs, a summary or a field's values of one source, a funnel or evidence, and evidence or a summary of
  a cohort, so that evidence of evidence is reached, of complete and of partial results. Two customers
  are fewer than the three a selection may have. A source that changes a second time adds nothing,
  because the first change invalidates the reader for good.
* Data: short timelines reach every boundary because each rule looks at two neighbouring events or
  at one and its start; limits of 2 and 3 stand for 100 and 10,000 so that they are met. Timelines
  of two sources or two customers have up to three events, of one up to four.
* Publication: two seeders of which one is an API that starts; one failing call, one commit, one
  reading of a token. (With two commits the state space is seven times as large and the property
  holds too.) Power loss loses what was changed since the last sync of the directory; a commit of
  DuckDB syncs its directory as well.
* Tracking: three tracked days (`Horizon` 6 half days) let a fast-forward of two days start before,
  at or after the cursor. The locks, tables and workers' steps are per signal, so one signal shows
  every race on it. One fault is one crash or failed day anywhere.
* Alerts: three consecutive days are the fewest with an order to get wrong twice; four
  measurements let a rule be entered, left by a reset and entered again, or one be repeated; pages
  of one event make every feed longer than a page. Rules do not influence each other except
  through the editor.

### Fairness

`EventJournal!Fairness`: the event loop runs every ready coroutine, the thread pool every
submitted job, and a started iteration is pulled on. A worker that waits for the database's write
lock either gets it or fails with the busy timeout, which is why weak fairness of `Worker` is
enough. `RunLifecycle!Fairness`: the same for tasks and journal workers, and a Pack comes to an
end because its loops have budgets; `RunStream` adds that a connected stream is pulled on.
`AnalysisLoop!FairSpec`: a model answers or fails (the client has a timeout), threads and coroutines
go on. `Investigation!FairTeamSpec`: the roles come to an end (without deadlines nothing in the code
bounds their tool loops) and the runner goes on; that a follow-up Task is refused is not assumed.
`Exploration!Spec`: a call that was begun goes on. `SignalTracking!Fairness`: the scheduler polls for
ever (`DailyScheduler.run`), and a thread goes on with what it has begun; nothing is assumed of the
outcome of a measurement. Nowhere is a request, cancellation, crash, restart or midnight assumed.

## 4. Proofs

All proofs are checked by TLAPS for every value of the constants: any number of Runs, processes,
calls, readers, signals, threads, requests, days, Steps, sources, candidates, rounds, measurements,
rules, pollers, seeders, faults and crashes, with the assumptions the modules name
(`ConstantsAssumption`, `TrackingAssumption`, `AlertsAssumption`, `PublicationAssumption`, ...), which
say what kind of thing a constant is. `ExplorationAssumption` says in addition that a source lists its
events in the one global order (`validate_event_page` refuses a page that does not) and that sources
share none (the key of an event holds its source). Theorems that need more have it as a hypothesis:

| hypothesis | of | what it says, and why |
|---|---|---|
| `MaxCancels <= 1` | `DeliveryCommitted`, `TailsEndWithTheirRun` | no call is cancelled twice; a second cancellation breaks them (section 5), and `RunCoordinator.close` cancels once |
| `~DiskMayFail` | `StatusFollows`, `StreamFollows`, `StatusImplementsPhases` | Artifacts can be saved; with failing saves a restart takes a stale status (section 5). `HistoryIsLegal` and `ClientsAreTold` do not need it |
| `Drafted` | the theorems of `AnalysisLoop` | what a model drafts is a document of its schema: a Goal decision is of one of three kinds, the Steps of a Plan are a list |
| `ScriptServed` | `FixtureIsAccepted` | what the script of the fixture is written for: its sources support the primitives it uses, `topic` and `outcome` are canonical fields, and Plans of three and of four Steps are within the limits; the run's instance satisfies it |

### The inductive invariants

None of the invariants is inductive alone. What has to be added is what makes the code work:

* `EventJournalProofs`: the state of a worker inside its transaction has to be known. `JournalInv`
  adds `ThreadInv` (a thread past `Begin` owns its connection's transaction, and only one
  transaction is open on the file) and `StagedInv` (what is staged is exactly the first rows of
  that call's batch, above everything committed, and the Run has not ended). Given these, `Commit`
  extends a contiguous open log by a contiguous batch: `LogIsSound`, `NothingRewritten`.
  `AtomicInv` adds what is known of a call that has its answer, or will be given one by its thread:
  `AnswersStayTrue`. `LockInv` says that a connection inside a transaction has its lock taken by that
  transaction's caller, which is what the shield buys; readers, which take the lock, then see
  `table` itself: `DeliveryCommitted`, `TailsEndWithTheirRun`. `JournalImplementsRunLog` reads the
  committed rows as a sequence and the calls with committed rows as effective: `Commit` is
  `TakeEffect`, every other action stutters.
* `RunLifecycleProofs`: `KernelInv` relates each place where a Run's task can stand to its journal:
  what the kernel expects, which drafts are under way, which ending is due, and that a Run without a
  task has none. It yields `HistoryIsLegal`: the checks of `_drafts_for` see a prefix of the history
  of *this* execution, yet the contract holds over all resumptions.
  `LifeInv` adds, per place, what status, Artifact and wire events are while they
  lag behind the journal (`Following`), and how a restart makes up for it: `StatusFollows`,
  `StreamFollows`, and, with every step mapped to a step of `RunPhases` or a stutter,
  `StatusImplementsPhases`. The wire events are a projection of the history by a fold;
  `ProjectionAppend` and `ProjectionConcat` say how it grows.
  `StreamInv` is about the clients, and has to do without all that, because snapshots may fail to be
  saved. Its `SentInv` keeps of `LifeInv` what the store itself knows: at every place of a task the
  wire events are the projection of the first events of the journal, as many as the place says, or
  that and the two events of a Run that was given up. `Unheard` says that a Run the journal does not
  know has told nothing a client could miss, so that the ids a restart keeps for it are those of a
  stream at its end. `Still` says when nothing more is to come, which a later snapshot cannot take
  back, and `Tells` relates a client's cursor and events to the store while the process is up, and to
  the journal always: `ClientsAreTold`. The hard steps are the end of a stream (`SettledIsAll`: a
  settled status means that all of the journal was handed out, or that the client has an error) and a
  restart, where a stale status meets a projection of the whole journal.
* `SignalTrackingProofs`: `TrackingInv` says what makes the flocks work: a thread that works on a
  signal holds its lock and the signal is registered (`Owns`), a fast-forward holds the locks
  of all its items to its end (`OwnsItems`), a scheduler's day is the cursor's (`AtCursor`). The
  cursor of a registered signal is then only moved under its lock, or while nobody has it; the one
  writer without a lock, registration, moves it for new signals only. `Placed` and `PlansSound`
  keep every day worked on inside the tables' domain. `BackedInv` adds that a thread between
  `add_measurement` and `finish` has its row in the history, which a reset cannot archive because it
  needs that signal's lock. `HonestInv` adds, for the one fast-forward under way, the day it has come
  to in each item (`Upto`), and that a reset leaves a success to plan from (`Restarted`):
  `FastForwardsAreSound`, `RepetitionsReplay`. `TrackingImplementsLedger` maps `FinishDay` to `Work`,
  `DropDay` to `Retract`, `Register` of a new signal and `SetSchedule` to `Place`, `Reset` to
  `StartOver`, every other action to a stutter.
* `SignalAlertsProofs`: `AlertsInv` says that the state row of a rule has passed everything it judged
  in its era (`Logged`) and everything there was when it was chosen (`Passes`), and remembers how the
  log left the rule (`Remembers`). A second event about a measurement, or one about an old one, would
  need a row that forgot: `StateIsThere`, `OneEventPerEntry`, `EventsAreNews`, `PollersGetAll`.
* `DataProofs`, of the publication: the marker says too little. `PubInv` adds that who owns it is alone with a
  backup (`Alone`), has none when it releases it (`NoneOfItsOwn`), has one when it goes back to it
  (`HasOne`), and links the main that was synced (`Anchored`, `Rooted`). `KeptInv` says per system
  call where each main and its WAL are, on the disk as seen and as synced (`Stage`,
  `WalPlaced`, `Counted`); `TokenInv` what a token's parts were read from. Together: `GenerationIsSafe`.
  `PublicationOfAll` says that it holds as well beside whatever else `DataSpec` draws.
* `DataProofs`, of what is read: a case is drawn in one step and stays, so `ResultsAsDefined` and
  `InputsAsDefined` are inductive as soon as they hold of every case that may be drawn. That is what
  `RulesProofs` shows (`QueriesHold`, `ChainHolds`, `EdgesHold`, `SpreadHolds`), for timelines, pages
  and queries of any length, and `AdapterHolds` for any table. Each computation is a fold or a
  recursive function, each definition a formula over all events at once. The proofs give a fold's
  states an invariant over the prefix it has read: the open runs of every key and the rows reported
  so far (repetition), for every step the first position that completes it (sequence, funnel), the
  groups and what each of them counted (summary), the nodes reached from each node (identity graphs).
  `ResultsAreSound`, `PagesAreSound`, `InputsAreSound`.
* `ModelProofs`, of the loop: `LoopInv` says that what was computed is known by the Steps that are done,
  which a revision leaves where they are (`PlanInv`), that Facts and Notes are made in turns
  (`TurnInv`), what the events in the queue say of where the loop is (`EmitInv`), and that the one
  that ends an analysis is the last (`EndInv`): `PlanIsHonoured`, `ReportIsGrounded`,
  `KeepsTheContract`. `StartsInv` adds what a first Plan and a report start from; with it the
  validators accept each answer of the scripted model, whichever Goal it serves and whatever its
  Steps found (`FixtureIsAccepted`).
* `ModelProofs`, of the investigation: `TeamInv` says that every id is listed once (`CandidatesInv`), that a
  decision names its verifier and what it read (`DecisionsInv`), that a candidate is judged again or
  its decision is about the version that is listed (`JudgedInv`), and what saving checked
  (`SavedInv`): `ProposalsAreBacked`, `ReportsAreVerified`. The hard step is the end of a round,
  which folds the results of all investigators into the list: `PlacedFolded` and `MergedFolded`
  prove that such a fold keeps ids unique and touches only ids of these results.
* `ExplorationProofs`: `ExploreInv` says of a scan under way what was read of each source: what is up
  to its cursor is consumed or waits in the order of the source (`Streams`), a page that was just
  loaded is the next one *if the source is still what it was prepared to be*, which is what reading
  the token again settles (`PageInv`), and what was consumed are the first events of all its sources,
  wholly those of a source that is done (`Consumed`). `Recheck` turns a page into a head of its
  stream; `Consume` keeps the order because the smallest head is smaller than all that is not read
  yet. A result inherits this (`ResultInv`), and that evidence was asked for customers of the
  result that authorises it, each of whom some scan that is not of evidence has met (`AskSound`, `Met`;
  `AnchoredAreMet` passes this on from a result of evidence to the evidence that is asked of it):
  `ScansAreSnapshots`, `ExplorationsAreGrounded`. No theorem depends on how often a source changes or a
  call fails.

Each of these invariants also holds in TLC on the instance of the run that checks its theorems'
properties.

### Induction

The library's induction theorems take an operator as a parameter, which the installed provers cannot
instantiate. Where a proof needs induction it is made over a *set* of numbers, from the
well-foundedness of the order of `Nat` (`SetInduction` in `RunLifecycleProofs`,
`ModelProofs`, `ExplorationProofs` and `RulesProofs`): enough for properties of one fold over any
sequence, and for the order of any finite set (`InOrderIs`).

A recursive function satisfies its own equation only if some function does, which the library says
with operators as parameters. `RulesProofs` builds that function instead: the set of the lengths (or
the sizes of finite sets) up to which there is one contains zero and, with each, the next
(`FoldExists`, `SeqInduction`), and a fold is then the last of a trace of states, each made of the one
before and the next element (`FoldTrace`). Every fold of the models that a theorem is about is brought
to such a trace.

### Assumptions on the data

The theorems hold for every value of the constants that keeps these, which TLC evaluates too:

* `TimelinesAssumption`: the events of a timeline are in the global order, which is what a scan hands
  out (`ScansAreSnapshots`), and have numbers for times, sources, ids and actions, which stand for
  values the code compares.
* `QueriesAssumption`, `PredicatesAssumption`: fields are described, counts are positive and a sequence
  has steps: `Field(ge=1)` and `min_length=1` of `exploration/tool_contracts.py` and its validators.
* `MeasuresAssumption`: what a summary measures is a number or missing.
* `ChainsAssumption`, `EdgesAssumption`: keys are comparable, and the key of an edge stands for its
  ends and its link; there are finitely many edges.
* `AdaptersAssumption`: a registered manifest keeps `require_consistent_internal_field_policy`; a
  mapping names a field once, and its measures are numeric (`onboarding/spec.py`); a moment that was
  parsed is a number.

### Model-checked only

* Every liveness property (`NobodyWaits`, `RunsSettle`, `StreamsEnd`, `AnalysisEnds`, `RunEnds`,
  `CallsReturn`, `CatchesUp`): fairness and ENABLED are out of the proof system's reach.
* `FactsAsDefined`: ten primitives, the fixed analysis and the pages of a whole registry, each against
  its definition. Nothing in them is out of reach in principle, but each primitive is a proof of the
  size of one of the queries' (sorts, buckets and scores beside the folds), and it is all or nothing:
  a chain of Steps is sound only if each of them is.

## 5. Disagreements between code and documentation

`run_zombie` - `restore_events` promises that an interrupted Run does not stay a zombie
(`runtime/run_store.py:271`); a crash between `create_run`'s checkpoint and the commit of
`run.opened` leaves a queued Run that no start ever touches.

Noted while modelling, without a run of their own:

*Runs*

* `src/CONTEXT.md:11` derives a Run's status from its events; a Run interrupted after its answer was
  committed is restored as waiting for that answer (`AwaitsItsQuestion` of `RunLifecycle` states it).
* A Run that ended while its Artifact could not be saved is restored as awaiting an answer, although
  the journal holds its end (`TerminalReconciled`): only queued and running Artifacts are refolded.
* `_write` promises that "a cancelled caller still waits" for its transaction
  (`journal/sqlite.py:102`), but a second cancellation ends the wait and gives the lock back.
  `MaxCancels = 2` in `JournalReaders.cfg` shows a tail that is given rows which are not committed;
  the application cancels a task once, and `DeliveryCommitted` has `MaxCancels <= 1` as hypothesis.
* `_finalize_generic_failure` streams an error and a done that the journal never sees, while
  `src/CONTEXT.md:21` says that events reach a stream after their commit. The model keeps these two
  as a tail of the stream that is not its history until the next start (`StreamIsHistory`).
* An append that was cancelled after its commit is never published by that process. After an error
  the ids of a Run's wire events may therefore differ in the next process: a client cut between error
  and done may get a gap, a repetition or a refusal of its Last-Event-ID. `ClientsFollow` is about
  what comes before an error.
* A Run the journal does not know comes back with an empty history and an offset; a client that had
  not seen its `done` never does. A Run given up without the journal whose Artifact could not be saved
  may come back as waiting although its clients were told `done`.
* `done` is on the wire before the store's status is terminal; `StreamsEnd` says that it becomes so.

*Tracking*

* `src/docs/api-endpoints.md:316` says a failed day is saved and the next one is run. A fast-forward
  deletes the row of such a day before it tries it again (`signals/fast_forward.py:184`); if the day
  is still without data the request is blocked and the schedule, past that day, never lists it again
  (`FailedDaysListed`).
* `tick` keeps the running row of a day that raised "for crash recovery"
  (`signals/scheduling.py:278`). A manual measurement of the following day lets a fast-forward
  start after the interrupted one and carry the cursor past it; the row then stays `running`.

*Analysis and investigation*

* A Run without data drops the Facts it had emitted in its outcome; the executor refuses Plans the
  validator accepts, when a Step's sources do not cover those of the Facts it takes (`InputsCurrent`);
  two Notes with one and the same Claim each pass, and the report then fails.
* `_selected_model` of the Gemini model is shared by concurrent Runs. A second cancellation leaves the
  executor's thread behind, with its budget cancelled.
* With a deadline a follow-up can replace a confirmed candidate and leave the old decision on the
  new version; what `Persist` checks keeps a Proposal from resting on it (`ProposalsBacked`).
  Follow-up investigators may propose for any candidate. A verifier's question that a follow-up Task has
  no room for ends all rounds with the report, although the contract of a decision admits it
  (`contracts.py:54`): the limitation that is added speaks of verification. A cancelled role's query
  goes on in its thread while the data space is closed; one that is cancelled while it is loaded is
  never closed. Proposals may be saved although the Run is then cancelled.

*Exploration*

* After a change of a source the error calls itself transient and tells the agent to start again, but
  that reader can never succeed. The greedy match of a sequence misses a later start that would fit
  the span; `1`, `True` and `1.0` are one group; an earlier anchor of a customer is overwritten by a
  later group; the values view shows a missing rate of a prefix; a cohort of a partial result may
  restrict a complete summary; the report does not check the source tokens again. Evidence may be cited
  with evidence alone: the scan that met its customer first may be partial, and need not be cited.

*Analytics and sources*

* `match_sequence` whose matches are none while customers started to sign up, with the sign-up
  metrics expected, is refused by "zero-result payload canonical metrics must have value 0": the Step
  fails exactly when nobody completes (`OnlyStarted` of `AnalyticsRules` names this exception, as
  `Foreign` and `Turned` do the others).
* A grouping by a field of a source outside the Step is refused by one primitive and lost at the
  Fact's contract by another. Counts cut by rows or evidence are published as if complete. `not in`
  selects events that do not have the field, `!=` does not. The minimum of no values is 0.
* The adapter of the managed database returns at most 100 rows (`synthetic/adapter.py:93`), so with
  `max_input_events` of 100 or more a source with more events in scope gives a Fact of a part of
  them, against "without publishing partial data"; the demonstration data stay below it. Exactly
  10,000 events of a source are an error.
* The executor loads each source over a connection of its own and without a snapshot token, and
  `AnalyticsService` counts over one and lists over another: a publication in between mixes two
  generations.

*Publication*

* The WAL the last look finds may belong to the new main: the rollback then puts the old main beside
  it and that commit is lost. A failed sync of the directory when the marker is created leaves the
  marker though nothing was changed; one after the backup is gone reports an error though the new
  generation is there. Without a previous main the error says that one will be restored. A process
  that starts between the replacement and the rollback takes the generation that is then withdrawn.
  A killed seeder leaves its marker, and every later seeding is refused until somebody removes it.
* The first look for a WAL is redundant with the ones after it. The token needs the change time in
  the state of the files: a replacement that is taken back gives the old inode, size and content.

## 6. Not modelled, and the plan

Left out of the modelled components: the legacy Run path; `close()`, `last_sequence()` and
`list_run_ids()` of the journal; `PackDegraded`, which no registered Pack raises; wire events that
fail validation; the content of Artifacts; a request id reused with another input (refused, without
effect); the archives a reset writes; the upgrade of legacy recommendations; the unit of a metric and
the overflow of a change; the parsing of literals and identifiers of Facts; cursors and opaque
references of exploration as texts; the SQL of the investigation's data space, its activity stream
and audit file; the proposal of a mapping in onboarding.

Not modelled at all, and why: the calls to language models (arbitrary answers in the models), the
in-memory journal (a test double), the registry of Packs and a second, stateless Pack, formats and
renderers of finished Runs, presentation (pure projections whose point is wording and layout),
tracing, the generators of demonstration data (sequential programs run by hand), build files and
documents. The frontend's reducer and its alert polling share no state with the backend beyond the
streams and cursors that `RunStream` and `SignalAlerts` have.

Every other invariant and refinement the runs check is a theorem. Next: the
parts of `FactsAsDefined` one by one, the pages and loads of the registry first, then the primitives.
