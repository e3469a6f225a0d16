--------------------------- MODULE SignalTracking ---------------------------
(***************************************************************************)
(* Daily tracking of registered signals: the SQLite registry (signals/     *)
(* store.py), the schedules, daily runs and per-signal lock files          *)
(* (signals/scheduling.py), fast-forward (signals/fast_forward.py) and its *)
(* reset (signals/fast_forward_reset.py), with the requests of             *)
(* signals/api.py that touch them.                                         *)
(*                                                                         *)
(* Workers are scheduler threads, clients are request threads, of any      *)
(* number of processes on one database.  One step is one transaction; the  *)
(* flock of a signal is taken and given back with the transaction next to  *)
(* it, because what it protects is read under it.                          *)
(*                                                                         *)
(* A measurement is its window and whether it succeeded; what was measured *)
(* is the business of SignalAlerts.  Times count half days, so that a      *)
(* window may end off midnight.                                            *)
(***************************************************************************)
EXTENDS Naturals, FiniteSets

CONSTANTS
  Signals,     \* signal ids
  Workers,     \* scheduler threads
  Clients,     \* threads that serve requests
  Requests,    \* request ids of fast-forwards
  Selection,   \* Selection[q]: its signal_ids, {} when omitted
  DaysOf,      \* DaysOf[q]: its days
  Resets,      \* request ids of resets
  Windows,     \* windows of registrations, <<start, end>>
  Remeasured,  \* windows of manual measurements
  Statuses,    \* tracking statuses a user may set
  Switches,    \* values of enabled a user may set
  Placements,  \* values of next_run_at a user may set
  Horizon,     \* bound: the last instant of the model
  MaxFaults,   \* bound: crashes and failed calls
  None         \* no signal, no request, nobody

VARIABLES
  status,     \* signals: status[s], "none" before registration
  enabled,    \* signal_schedules.enabled
  next,       \* signal_schedules.next_run_at
  meas,       \* signal_measurements: the set of rows of s
  runs,       \* signal_daily_runs: runs[s][d], status of the row with end d
  plan,       \* signal_fast_forwards: the planned items of a request
  answer,     \* signal_fast_forwards.response
  resets,     \* signal_fast_forward_resets
  lock,       \* who holds the lock file of s
  ffLock,     \* who holds the lock file "fast-forward"
  act,        \* what each thread is doing
  clock,
  faults,
  since       \* history: start of the last reset of s, 0 without one

tables == <<status, enabled, next, meas, runs>>
requests == <<plan, answer, resets>>
locks == <<lock, ffLock>>
vars == <<tables, requests, locks, act, clock, faults, since>>

Threads == Workers \cup Clients

Day == 2
Midnight(t) == t % Day = 0
NextMidnight(t) == t - (t % Day) + Day
DayEnds == {t \in Day..Horizon : Midnight(t)}

ASSUME TrackingAssumption ==
  /\ Workers \cap Clients = {}
  /\ Horizon \in Nat /\ MaxFaults \in Nat
  /\ \A w \in Windows \cup Remeasured : w \in (0..Horizon) \X (0..Horizon) /\ w[1] < w[2]
  /\ Statuses \subseteq {"active", "paused"} /\ Switches \subseteq BOOLEAN
  /\ \A n \in Placements : n \in Nat \ {0} /\ Midnight(n)
  /\ Selection \in [Requests -> SUBSET Signals]
  /\ DaysOf \in [Requests -> Nat \ {0}]
  /\ None \notin Threads /\ None \notin Signals /\ None \notin Requests

Measured(w, st) == [start |-> w[1], end |-> w[2], status |-> st]
DayWindow(d) == <<d - Day, d>>
Later(a, b) == IF a >= b THEN a ELSE b

RunStates == {"none", "running", "success", "unavailable"}
NoRuns == [d \in DayEnds |-> "none"]
Completed(row) == row \in {"success", "unavailable"}

NoAnswer == [s \in {} |-> "none"]
NoPlan == [s \in {} |-> "none"]
Idle == [pc |-> "idle", todo |-> {}, seen |-> 0, signal |-> None, end |-> 0,
         got |-> "none", request |-> None, results |-> NoAnswer]

Init ==
  /\ status = [s \in Signals |-> "none"]
  /\ enabled = [s \in Signals |-> FALSE]
  /\ next = [s \in Signals |-> 0]
  /\ meas = [s \in Signals |-> {}]
  /\ runs = [s \in Signals |-> NoRuns]
  /\ plan = [q \in Requests |-> NoPlan]
  /\ answer = [q \in Requests |-> NoAnswer]
  /\ resets = {}
  /\ lock = [s \in Signals |-> None]
  /\ ffLock = None
  /\ act = [a \in Threads |-> Idle]
  /\ clock = 0
  /\ faults = 0
  /\ since = [s \in Signals |-> 0]

-----------------------------------------------------------------------------
(* The registry and the requests about one signal.                         *)

Registered == {s \in Signals : status[s] # "none"}
Tracked(s) == status[s] = "active" /\ enabled[s]

\* Mutant of LockFree: the request does not look at the lock.
LockIgnored(s) == TRUE

LockFree(s) == lock[s] = None

\* Mutant of Saved: failed measurements are not kept.
SavedIfSuccess(s, w, st) ==
  IF st = "success" THEN [meas EXCEPT ![s] = @ \cup {Measured(w, st)}] ELSE meas

\* _insert_measurement: a row, unless the history has it.
Saved(s, w, st) == [meas EXCEPT ![s] = @ \cup {Measured(w, st)}]

\* register_with_measurement, register_definition_with_measurement: the
\* measurement is added to a signal that exists; the schedule only if missing.
Register(s, w) ==
  /\ meas' = Saved(s, w, "success")
  /\ IF s \in Registered
     THEN UNCHANGED <<status, enabled, next>>
     ELSE /\ status' = [status EXCEPT ![s] = "active"]
          /\ enabled' = [enabled EXCEPT ![s] = TRUE]
          /\ next' = [next EXCEPT ![s] = NextMidnight(clock)]
  /\ UNCHANGED <<runs, requests, locks, act, clock, faults, since>>

\* PATCH status; "paused" stands for "archived" as well.
SetStatus(s, st) ==
  /\ s \in Registered /\ LockFree(s)
  /\ status' = [status EXCEPT ![s] = st]
  /\ UNCHANGED <<enabled, next, meas, runs, requests, locks, act, clock, faults, since>>

\* ScheduleStore.update; an omitted next_run_at keeps the current one.
SetSchedule(s, on, at) ==
  /\ s \in Registered /\ LockFree(s)
  /\ enabled' = [enabled EXCEPT ![s] = on]
  /\ next' = [next EXCEPT ![s] = at]
  /\ UNCHANGED <<status, meas, runs, requests, locks, act, clock, faults, since>>

\* POST measurements: SignalService.measure under the signal's lock.
StartManual(a, s, w) ==
  /\ act[a].pc = "idle" /\ s \in Registered /\ LockFree(s)
  /\ lock' = [lock EXCEPT ![s] = a]
  /\ act' = [act EXCEPT ![a] = [Idle EXCEPT !.pc = "manual", !.signal = s,
                                            !.seen = w[1], !.end = w[2]]]
  /\ UNCHANGED <<tables, requests, ffLock, clock, faults, since>>

ManualMeasure(a, st) ==
  LET s == act[a].signal
      w == <<act[a].seen, act[a].end>> IN
  /\ act[a].pc = "manual"
  /\ meas' = Saved(s, w, st)
  /\ lock' = [lock EXCEPT ![s] = None]
  /\ act' = [act EXCEPT ![a] = Idle]
  /\ UNCHANGED <<status, enabled, next, runs, requests, ffLock, clock, faults, since>>

-----------------------------------------------------------------------------
(* DailyScheduler.                                                         *)

\* Mutant of Started: the row has the status of the schedule's request.
StartedPending(s, d) == [runs EXCEPT ![s][d] = IF @ = "none" THEN "pending" ELSE @]

\* start(): INSERT OR IGNORE, the row of an earlier attempt stays.
Started(s, d) == [runs EXCEPT ![s][d] = IF @ = "none" THEN "running" ELSE @]

\* Mutant of CursorAfter: the assignment without its MAX.
CursorMoved(s, d) == d + Day

\* finish(): next_run_at = MAX(next_run_at, end + DAY).
CursorAfter(s, d) == Later(next[s], d + Day)

Due(t) == {s \in Registered : enabled[s] /\ next[s] <= t}

\* Mutant of Runnable: a day that has a row is taken for someone else's.
RunnableIfFresh(s, t) == Tracked(s) /\ next[s] <= t /\ runs[s][next[s]] = "none"

\* What tick() asks again once it holds the lock.
Runnable(s, t) == Tracked(s) /\ next[s] <= t

\* tick(): the due list is read once, without locks.
Tick(a) ==
  /\ act[a].pc = "idle" /\ Due(clock) # {}
  /\ act' = [act EXCEPT ![a] = [Idle EXCEPT !.pc = "ticking", !.todo = Due(clock), !.seen = clock]]
  /\ UNCHANGED <<tables, requests, locks, clock, faults, since>>

\* The next signal of the list is busy, or no longer to be run.
PassOver(a, s) ==
  /\ act[a].pc = "ticking" /\ s \in act[a].todo
  /\ ~LockFree(s) \/ ~Runnable(s, act[a].seen)
  /\ act' = [act EXCEPT ![a].todo = @ \ {s}]
  /\ UNCHANGED <<tables, requests, locks, clock, faults, since>>

\* The lock is taken, the schedule read again, the day started.
TakeDay(a, s) ==
  /\ act[a].pc = "ticking" /\ s \in act[a].todo
  /\ LockFree(s) /\ Runnable(s, act[a].seen)
  /\ lock' = [lock EXCEPT ![s] = a]
  /\ runs' = Started(s, next[s])
  /\ act' = [act EXCEPT ![a] = [act[a] EXCEPT !.pc = "measuring", !.todo = @ \ {s},
                                              !.signal = s, !.end = next[s]]]
  /\ UNCHANGED <<status, enabled, next, meas, requests, ffLock, clock, faults, since>>

EndTick(a) ==
  /\ act[a].pc = "ticking" /\ act[a].todo = {}
  /\ act' = [act EXCEPT ![a] = Idle]
  /\ UNCHANGED <<tables, requests, locks, clock, faults, since>>

\* execute_day: add_measurement commits the measurement, success or not...
MeasureDay(a, st) ==
  LET s == act[a].signal IN
  /\ act[a].pc = "measuring"
  /\ a \in Workers \/ st = "success"
  /\ meas' = Saved(s, DayWindow(act[a].end), st)
  /\ act' = [act EXCEPT ![a].pc = "recording", ![a].got = st]
  /\ UNCHANGED <<status, enabled, next, runs, requests, locks, clock, faults, since>>

\* Fast-forward: the day counts in daily_results, the next one follows.
DayDone(job, d) ==
  [job EXCEPT !.pc = "days", !.end = d + Day, !.got = "none", !.results[job.signal].days = @ \cup {d}]

\* ...and finish() records it on the daily run, a transaction later.
FinishDay(a) ==
  LET s == act[a].signal
      d == act[a].end IN
  /\ act[a].pc = "recording" /\ runs[s][d] # "none"
  /\ runs' = [runs EXCEPT ![s][d] = act[a].got]
  /\ next' = [next EXCEPT ![s] = CursorAfter(s, d)]
  /\ IF a \in Workers
     THEN /\ lock' = [lock EXCEPT ![s] = None]
          /\ act' = [act EXCEPT ![a] = [Idle EXCEPT !.pc = "ticking", !.todo = act[a].todo,
                                                    !.seen = act[a].seen]]
     ELSE /\ act' = [act EXCEPT ![a] = DayDone(@, d)]
          /\ UNCHANGED lock
  /\ UNCHANGED <<status, enabled, meas, requests, ffLock, clock, faults, since>>

-----------------------------------------------------------------------------
(* FastForwardService.                                                     *)

Successes(s) == {m \in meas[s] : m.status = "success"}
LastSuccess(s) == CHOOSE t \in {m.end : m \in Successes(s)} : \A m \in Successes(s) : m.end <= t

\* _plan: from the end of the last successful measurement, up to the midnight
\* when it ends within a day.
PlanStart(s) ==
  LET latest == LastSuccess(s)
      midnight == NextMidnight(latest) - Day IN
  IF latest = midnight THEN latest ELSE midnight + Day

Item(s, days) ==
  IF ~Tracked(s) \/ Successes(s) = {}
  THEN [status |-> "skipped", start |-> 0, end |-> 0]
  ELSE [status |-> "completed", start |-> PlanStart(s), end |-> PlanStart(s) + days * Day]

Chosen(q) == IF Selection[q] = {} THEN Registered ELSE Selection[q]

\* Mutant of Planned: a request without an answer is planned anew.
PlannedAgain(q) == [s \in Chosen(q) |-> Item(s, DaysOf[q])]

\* The saved plan of a request that was interrupted, or a new one.
Planned(q) == IF plan[q] # NoPlan THEN plan[q] ELSE [s \in Chosen(q) |-> Item(s, DaysOf[q])]

\* run(): every lock, or 409 and nothing; the plan is saved before any work.
\* A request that has its answer changes nothing.
StartForward(a, q) ==
  LET items == Planned(q)
      ids == DOMAIN items IN
  /\ act[a].pc = "idle" /\ ffLock = None /\ answer[q] = NoAnswer
  /\ ids # {} /\ ids \subseteq Registered /\ \A s \in ids : LockFree(s)
  /\ \A s \in ids : items[s].end <= Horizon
  /\ ffLock' = a
  /\ lock' = [s \in Signals |-> IF s \in ids THEN a ELSE lock[s]]
  /\ plan' = [plan EXCEPT ![q] = items]
  /\ act' = [act EXCEPT ![a] = [Idle EXCEPT !.pc = "items", !.request = q,
                !.results = [s \in ids |-> [status |-> "pending", days |-> {}]]]]
  /\ UNCHANGED <<tables, answer, resets, clock, faults, since>>

Result(a, s) == act[a].results[s]
ItemOf(a) == plan[act[a].request][act[a].signal]

\* The job of a, once it is done with its current item.
ItemDone(job, s, st) ==
  [job EXCEPT !.pc = "items", !.signal = None, !.end = 0, !.got = "none", !.results[s].status = st]

\* _execute: an item planned as skipped, or whose signal is no longer tracked.
SkipItem(a, s) ==
  /\ act[a].pc = "items" /\ s \in DOMAIN act[a].results /\ Result(a, s).status = "pending"
  /\ plan[act[a].request][s].status = "skipped" \/ ~Tracked(s)
  /\ act' = [act EXCEPT ![a] = ItemDone(@, s, "skipped")]
  /\ UNCHANGED <<tables, requests, locks, clock, faults, since>>

\* _execute and _baseline: the day before the plan is measured if it was not.
StartItem(a, s) ==
  LET item == plan[act[a].request][s] IN
  /\ act[a].pc = "items" /\ s \in DOMAIN act[a].results /\ Result(a, s).status = "pending"
  /\ item.status = "completed" /\ Tracked(s)
  /\ act' = [act EXCEPT ![a] = [@ EXCEPT !.signal = s, !.end = item.start + Day,
       !.pc = IF Measured(DayWindow(item.start), "success") \in meas[s] THEN "days" ELSE "baseline"]]
  /\ UNCHANGED <<tables, requests, locks, clock, faults, since>>

\* The baseline is saved when it succeeds and done without when it does not.
MeasureBaseline(a, st) ==
  LET s == act[a].signal IN
  /\ act[a].pc = "baseline"
  /\ meas' = IF st = "success" THEN Saved(s, DayWindow(ItemOf(a).start), st) ELSE meas
  /\ act' = [act EXCEPT ![a].pc = "days"]
  /\ UNCHANGED <<status, enabled, next, runs, requests, locks, clock, faults, since>>

\* Mutant of Reusable: any day with a row is taken for done.
ReusableRow(row) == row # "none"

\* completed_day: only a success is taken as it is.
Reusable(row) == row = "success"

ReuseDay(a) ==
  LET s == act[a].signal
      d == act[a].end IN
  /\ act[a].pc = "days" /\ d <= ItemOf(a).end /\ Reusable(runs[s][d])
  /\ act' = [act EXCEPT ![a] = DayDone(@, d)]
  /\ UNCHANGED <<tables, requests, locks, clock, faults, since>>

\* A completed day that is no success loses its row, to be tried again.
DropDay(a) ==
  LET s == act[a].signal
      d == act[a].end IN
  /\ act[a].pc = "days" /\ d <= ItemOf(a).end /\ ~Reusable(runs[s][d]) /\ Completed(runs[s][d])
  /\ runs' = [runs EXCEPT ![s][d] = "none"]
  /\ UNCHANGED <<status, enabled, next, meas, requests, locks, act, clock, faults, since>>

StartDay(a) ==
  LET s == act[a].signal
      d == act[a].end IN
  /\ act[a].pc = "days" /\ d <= ItemOf(a).end /\ ~Reusable(runs[s][d]) /\ ~Completed(runs[s][d])
  /\ runs' = Started(s, d)
  /\ act' = [act EXCEPT ![a].pc = "measuring"]
  /\ UNCHANGED <<status, enabled, next, meas, requests, locks, clock, faults, since>>

\* require_success: nothing is saved of a day that cannot be measured, its
\* running row is deleted and the item is blocked.
BlockDay(a) ==
  LET s == act[a].signal
      d == act[a].end IN
  /\ act[a].pc = "measuring" /\ a \in Clients
  /\ runs' = [runs EXCEPT ![s][d] = IF @ = "running" THEN "none" ELSE @]
  /\ act' = [act EXCEPT ![a] = ItemDone(@, s, "blocked")]
  /\ UNCHANGED <<status, enabled, next, meas, requests, locks, clock, faults, since>>

EndItem(a) ==
  /\ act[a].pc = "days" /\ act[a].end > ItemOf(a).end
  /\ act' = [act EXCEPT ![a] = ItemDone(@, @.signal, "completed")]
  /\ UNCHANGED <<tables, requests, locks, clock, faults, since>>

Unlocked(a) == [s \in Signals |-> IF lock[s] = a THEN None ELSE lock[s]]

\* The response is saved and the locks are given back.
AnswerForward(a) ==
  /\ act[a].pc = "items" /\ \A s \in DOMAIN act[a].results : Result(a, s).status # "pending"
  /\ answer' = [answer EXCEPT ![act[a].request] = act[a].results]
  /\ lock' = Unlocked(a)
  /\ ffLock' = None
  /\ act' = [act EXCEPT ![a] = Idle]
  /\ UNCHANGED <<tables, plan, resets, clock, faults, since>>

-----------------------------------------------------------------------------
(* FastForwardResetService.                                                *)

\* Mutant of Ended: interrupted plans stay.
EndedNever(q, ss) == plan[q]

\* Plans that were saved without a response end for the signals of a reset.
Ended(q, ss) ==
  IF answer[q] # NoAnswer THEN plan[q]
  ELSE [s \in DOMAIN plan[q] |->
         IF s \in ss THEN [plan[q][s] EXCEPT !.status = "skipped"] ELSE plan[q][s]]

\* run(): all locks, all signals tracked, every baseline measured beforehand;
\* then one transaction.
Reset(q, ss, start) ==
  /\ ffLock = None /\ q \notin resets /\ ss # {}
  /\ \A s \in ss : LockFree(s) /\ s \in Registered /\ Tracked(s)
  /\ runs' = [s \in Signals |-> IF s \in ss THEN NoRuns ELSE runs[s]]
  /\ meas' = [s \in Signals |-> IF s \in ss THEN {Measured(DayWindow(start), "success")} ELSE meas[s]]
  /\ next' = [s \in Signals |-> IF s \in ss THEN Later(NextMidnight(clock), start + Day) ELSE next[s]]
  /\ plan' = [r \in Requests |-> Ended(r, ss)]
  /\ resets' = resets \cup {q}
  /\ since' = [s \in Signals |-> IF s \in ss THEN start ELSE since[s]]
  /\ UNCHANGED <<status, enabled, answer, locks, act, clock, faults>>

-----------------------------------------------------------------------------
(* Time and failures.                                                      *)

\* The clock strikes midnight; nothing here distinguishes the times of a day.
TimePasses ==
  /\ clock + Day <= Horizon
  /\ clock' = clock + Day
  /\ UNCHANGED <<tables, requests, locks, act, faults, since>>

\* The process of a dies, or its request raises: the OS or the with statement
\* gives the locks back, the rows stay as they are.
Dies(a) ==
  /\ act[a].pc # "idle" /\ faults < MaxFaults
  /\ faults' = faults + 1
  /\ lock' = Unlocked(a)
  /\ ffLock' = IF ffLock = a THEN None ELSE ffLock
  /\ act' = [act EXCEPT ![a] = Idle]
  /\ UNCHANGED <<tables, requests, clock, since>>

\* tick() logs what a day raised and goes on with the next signal.
DayFails(a) ==
  /\ a \in Workers /\ act[a].pc \in {"measuring", "recording"} /\ faults < MaxFaults
  /\ faults' = faults + 1
  /\ lock' = Unlocked(a)
  /\ act' = [act EXCEPT ![a] = [Idle EXCEPT !.pc = "ticking", !.todo = act[a].todo, !.seen = act[a].seen]]
  /\ UNCHANGED <<tables, requests, ffLock, clock, since>>

Outcomes == {"success", "unavailable"}

WorkerStep(a) ==
  \/ Tick(a) \/ EndTick(a) \/ FinishDay(a) \/ DayFails(a) \/ Dies(a)
  \/ \E s \in Signals : PassOver(a, s) \/ TakeDay(a, s)
  \/ \E st \in Outcomes : MeasureDay(a, st)

ClientStep(a) ==
  \/ \E s \in Signals : SkipItem(a, s) \/ StartItem(a, s) \/ \E w \in Remeasured : StartManual(a, s, w)
  \/ \E q \in Requests : StartForward(a, q)
  \/ \E st \in Outcomes : ManualMeasure(a, st) \/ MeasureBaseline(a, st) \/ MeasureDay(a, st)
  \/ ReuseDay(a) \/ DropDay(a) \/ StartDay(a) \/ FinishDay(a) \/ BlockDay(a) \/ EndItem(a)
  \/ AnswerForward(a) \/ Dies(a)

RequestStep ==
  \/ \E s \in Signals, w \in Windows : Register(s, w)
  \/ \E s \in Signals, st \in Statuses : SetStatus(s, st)
  \/ \E s \in Signals, on \in Switches : \E n \in Placements \cup {next[s]} : SetSchedule(s, on, n)
  \/ \E q \in Resets, ss \in SUBSET Signals, d \in DayEnds : Reset(q, ss, d)

Next ==
  \/ \E a \in Workers : WorkerStep(a)
  \/ \E a \in Clients : ClientStep(a)
  \/ RequestStep
  \/ TimePasses

Spec == Init /\ [][Next]_vars

\* Threads go on with what they have begun; the scheduler polls.
Fairness ==
  /\ \A a \in Workers :
       /\ WF_vars(Tick(a)) /\ WF_vars(EndTick(a)) /\ WF_vars(FinishDay(a))
       /\ WF_vars(\E st \in Outcomes : MeasureDay(a, st))
       /\ \A s \in Signals : WF_vars(PassOver(a, s) \/ TakeDay(a, s))
  /\ \A a \in Clients : WF_vars(act[a].pc # "idle" /\ ClientStep(a))

FairSpec == Spec /\ Fairness

-----------------------------------------------------------------------------
(* Properties.                                                             *)

Jobs == {"idle", "ticking", "measuring", "recording", "manual", "items", "baseline", "days"}
Items == [status : {"completed", "skipped"}, start : Nat, end : Nat]
Results == [status : {"pending", "completed", "skipped", "blocked"}, days : SUBSET DayEnds]

\* The values the tables, the lock files and the threads' jobs take.
TypeOK ==
  /\ status \in [Signals -> {"none", "active", "paused"}]
  /\ enabled \in [Signals -> BOOLEAN]
  /\ next \in [Signals -> Nat]
  /\ \A s \in Signals : \A m \in meas[s] : m.start < m.end /\ m.status \in Outcomes
  /\ runs \in [Signals -> [DayEnds -> RunStates]]
  /\ \A q \in Requests :
       /\ DOMAIN plan[q] \subseteq Signals /\ \A s \in DOMAIN plan[q] : plan[q][s] \in Items
       /\ DOMAIN answer[q] \subseteq Signals /\ \A s \in DOMAIN answer[q] : answer[q][s] \in Results
  /\ resets \subseteq Resets
  /\ lock \in [Signals -> Threads \cup {None}] /\ ffLock \in Clients \cup {None}
  /\ \A a \in Threads : act[a].pc \in Jobs /\ act[a].signal \in Signals \cup {None}
  /\ clock \in 0..Horizon /\ faults \in 0..MaxFaults /\ since \in [Signals -> Nat]

\* A daily run that is completed has its measurement in the active history,
\* with the run's window and outcome: whatever crashes between the measurement
\* and finish(), is re-run, taken back or archived, the two tables agree.
RunsBacked ==
  \A s \in Signals, d \in DayEnds :
    Completed(runs[s][d]) => Measured(DayWindow(d), runs[s][d]) \in meas[s]

\* The day a scheduler works on is the one the cursor is at, until it records
\* it: no second worker, fast-forward or user has moved on meanwhile, so no day
\* is worked twice by two threads and none is passed over by a tick.
CursorHeld ==
  \A a \in Workers :
    act[a].pc \in {"measuring", "recording"} => act[a].end = next[act[a].signal]

\* What a fast-forward is about to answer is true of the tables: daily_results
\* are consecutive successful days from the planned start, all of them for a
\* completed item, up to a day without success for a blocked one.
HonestResults ==
  \A a \in Clients : act[a].request # None =>
    \A s \in DOMAIN act[a].results :
      LET r == Result(a, s)
          item == plan[act[a].request][s]
          reached == item.start + Day * Cardinality(r.days) IN
      /\ r.days = {d \in DayEnds : item.start < d /\ d <= reached}
      /\ \A d \in r.days : runs[s][d] = "success"
      /\ r.status = "completed" => reached = item.end
      /\ r.status = "blocked" => reached < item.end /\ runs[s][reached + Day] # "success"

\* Retrying a fast-forward from before a reset never undoes it: what is still
\* to be worked on a request was planned from the last restart on.
PlansCurrent ==
  \A q \in Requests : answer[q] = NoAnswer =>
    \A s \in DOMAIN plan[q] : plan[q][s].status = "completed" => plan[q][s].start >= since[s]

\* Both: what a fast-forward does and says holds of the history in force.
ForwardSound == HonestResults /\ PlansCurrent

\* A request id means one piece of work for ever: its days are those planned
\* first, and an answer given once is the answer to every repetition.
RequestsReplay ==
  [][\A q \in Requests : plan[q] # NoPlan =>
       /\ DOMAIN plan'[q] = DOMAIN plan[q]
       /\ \A s \in DOMAIN plan[q] :
            plan'[q][s].start = plan[q][s].start /\ plan'[q][s].end = plan[q][s].end
       /\ answer[q] # NoAnswer => answer'[q] = answer[q] /\ plan'[q] = plan[q]]_vars

\* Tracking is the ledger a user is promised: days are recorded one at a time,
\* recording never moves the cursor back, and nothing is lost but failed days
\* that are tried again.
Ledger == INSTANCE DailyLedger WITH
  Ends <- DayEnds, Length <- Day, cursor <- next,
  result <- [s \in Signals |-> [d \in DayEnds |-> IF Completed(runs[s][d]) THEN runs[s][d] ELSE "none"]]

ImplementsDailyLedger == Ledger!LedgerSpec

\* A signal that stays tracked is caught up: a day that is due does not stay
\* the next one, through crashes, failed days and competing workers.
CatchesUp ==
  \A s \in Signals, d \in DayEnds :
    (next[s] = d /\ clock >= d) ~> (next[s] # d \/ ~Tracked(s))

\* The documented list of daily results keeps a failed day (docs/api-endpoints.md,
\* a failed period is saved and the next day goes on): with no manual
\* measurements, a day measured as unavailable and passed has its daily run.
FailedDaysListed ==
  Remeasured = {} =>
    \A s \in Signals : LockFree(s) =>
      \A m \in meas[s] : m.status = "unavailable" /\ m.end < next[s] => runs[s][m.end] # "none"
=============================================================================
