------------------------ MODULE SignalTrackingProofs ------------------------
(***************************************************************************)
(* Theorems about SignalTracking for any number of signals, threads,       *)
(* requests and days: its types, that the day a scheduler works on is the  *)
(* one its signal's cursor is at, that completed days have their           *)
(* measurements, that fast-forwards say what is so and repeat nothing, and *)
(* that it implements DailyLedger.                                         *)
(*                                                                         *)
(* None is inductive alone: what a thread does is only safe because it     *)
(* holds the lock of every signal it works on (Owns, OwnsItems), because   *)
(* registered signals have a cursor at a midnight (Placed), and because    *)
(* plans end within the days there are (PlansSound).                       *)
(***************************************************************************)
EXTENDS SignalTracking, Integers, FiniteSetTheorems, WellFoundedInduction, TLAPS

Answers == UNION {[ss -> Results] : ss \in SUBSET Signals}
Plans == UNION {[ss -> Items] : ss \in SUBSET Signals}

JobRecords ==
  [pc : Jobs, todo : SUBSET Signals, seen : Nat, signal : Signals \cup {None}, end : Nat,
   got : {"none"} \cup Outcomes, request : Requests \cup {None}, results : Answers]

Rows == [start : Int, end : 0..Horizon, status : Outcomes]

\* The variables' types, as sets of functions.
Typed ==
  /\ status \in [Signals -> {"none", "active", "paused"}]
  /\ enabled \in [Signals -> BOOLEAN]
  /\ next \in [Signals -> Nat]
  /\ meas \in [Signals -> SUBSET Rows]
  /\ \A s \in Signals : \A m \in meas[s] : m.start < m.end
  /\ runs \in [Signals -> [DayEnds -> RunStates]]
  /\ plan \in [Requests -> Plans]
  /\ answer \in [Requests -> Answers]
  /\ resets \subseteq Resets
  /\ lock \in [Signals -> Threads \cup {None}]
  /\ ffLock \in Clients \cup {None}
  /\ act \in [Threads -> JobRecords]
  /\ clock \in 0..Horizon
  /\ faults \in 0..MaxFaults
  /\ since \in [Signals -> Nat]

\* A registered signal has a cursor, and it is at a midnight.
Placed == \A s \in Signals : status[s] # "none" => next[s] > 0 /\ Midnight(next[s])

\* Plans are made of whole days and end within the days there are.
PlansSound ==
  \A q \in Requests : \A s \in DOMAIN plan[q] :
    Midnight(plan[q][s].start) /\ plan[q][s].start <= plan[q][s].end /\ plan[q][s].end <= Horizon

\* The jobs of a fast-forward, and those that work on one signal.
Forwarding == {"items", "baseline", "days", "measuring", "recording"}
OnSignal == {"manual", "baseline", "days", "measuring", "recording"}
OnDay == {"measuring", "recording"}

\* A thread that works on a signal holds its lock, the signal is registered,
\* and the day, outcome and window it has in hand are such.
Owns(b) ==
  /\ act[b].pc \in OnSignal =>
       /\ act[b].signal \in Signals /\ lock[act[b].signal] = b
       /\ status[act[b].signal] # "none"
  /\ act[b].pc \in OnDay => act[b].end \in DayEnds
  /\ act[b].pc = "recording" => act[b].got \in Outcomes
  /\ act[b].pc = "manual" => act[b].seen < act[b].end /\ act[b].end <= Horizon

\* A scheduler thread is at the cursor of the signal it works on.
AtCursor(b) ==
  b \in Workers =>
    /\ act[b].pc \in {"idle", "ticking", "measuring", "recording"}
    /\ act[b].seen <= Horizon
    /\ act[b].pc \in OnDay => act[b].end = next[act[b].signal]

\* A fast-forward holds the locks of all its items, to its end.
OwnsItems(b) ==
  b \in Clients =>
    /\ act[b].pc # "ticking"
    /\ act[b].pc \in Forwarding =>
         /\ act[b].request \in Requests
         /\ DOMAIN act[b].results \subseteq DOMAIN plan[act[b].request]
         /\ \A s \in DOMAIN act[b].results : lock[s] = b /\ status[s] # "none"
         /\ act[b].pc # "items" => act[b].signal \in DOMAIN act[b].results
    /\ act[b].pc \in {"baseline", "days"} => act[b].end > 0 /\ Midnight(act[b].end)

TrackingInv ==
  /\ Typed /\ Placed /\ PlansSound
  /\ \A b \in Threads : Owns(b) /\ AtCursor(b) /\ OwnsItems(b)

-----------------------------------------------------------------------------
(* What the operators of a step return.                                    *)

\* A non-empty set of bounded naturals has a greatest element.
LEMMA GreatestExists ==
  ASSUME NEW H \in Nat, NEW S \in SUBSET (0..H), S # {}
  PROVE  \E t \in S : \A u \in S : u <= t
<1> DEFINE R == OpToRel(<, Nat)
           T == {H - u : u \in S}
<1>1. T \subseteq Nat /\ T # {}
  <2>1. \A u \in S : u \in 0..H /\ H - u \in Nat
    OBVIOUS
  <2>2. T \subseteq Nat
    BY <2>1
  <2>3. PICK u \in S : TRUE
    OBVIOUS
  <2>4. H - u \in T
    BY <2>3
  <2>. QED BY <2>2, <2>4
<1>2. PICK x \in T : \A y \in T : <<y, x>> \notin R
  <2>. HIDE DEF T, R
  <2>1. IsWellFoundedOn(R, Nat)
    BY NatLessThanWellFounded DEF R
  <2>. QED BY <1>1, <2>1, WFMin
<1>3. \A y \in T : ~(y < x)
  BY <1>1, <1>2 DEF OpToRel
<1>4. PICK t \in S : x = H - t
  OBVIOUS
<1>5. ASSUME NEW u \in S PROVE u <= t
  <2>1. H - u \in T
    OBVIOUS
  <2>2. ~(H - u < x)
    BY <1>3, <2>1
  <2>. QED BY <1>4, <2>2
<1>. QED BY <1>5

\* A midnight, or the one after, is where _plan starts.
LEMMA MidnightFacts ==
  ASSUME NEW t \in Nat
  PROVE  /\ NextMidnight(t) \in Nat /\ NextMidnight(t) > t /\ Midnight(NextMidnight(t))
         /\ Midnight(t) => Midnight(t + Day)
BY SMT DEF NextMidnight, Midnight, Day

\* What is known of the records of jobs and items.
LEMMA IdleType == Idle \in JobRecords
<1>1. NoAnswer \in Answers
  <2>1. NoAnswer \in [{} -> Results]
    BY DEF NoAnswer
  <2>. QED BY <2>1 DEF Answers
<1>. QED BY <1>1 DEF Idle, JobRecords, Jobs

LEMMA ResultsSet ==
  ASSUME NEW rs \in Answers, NEW s \in DOMAIN rs, NEW r \in Results
  PROVE  /\ [rs EXCEPT ![s] = r] \in Answers
         /\ DOMAIN [rs EXCEPT ![s] = r] = DOMAIN rs
         /\ s \in Signals /\ rs[s] \in Results
<1>1. PICK ss \in SUBSET Signals : rs \in [ss -> Results]
  BY DEF Answers
<1>2. [rs EXCEPT ![s] = r] \in [ss -> Results]
  BY <1>1
<1>. QED BY <1>1, <1>2 DEF Answers

LEMMA ItemDoneType ==
  ASSUME NEW job \in JobRecords, NEW s \in DOMAIN job.results,
         NEW st \in {"completed", "skipped", "blocked"}
  PROVE  /\ ItemDone(job, s, st) \in JobRecords
         /\ ItemDone(job, s, st).pc = "items"
         /\ ItemDone(job, s, st).request = job.request
         /\ DOMAIN ItemDone(job, s, st).results = DOMAIN job.results
<1> DEFINE r == [job.results[s] EXCEPT !.status = st]
           rs == [job.results EXCEPT ![s] = r]
<1>1. job.results \in Answers
  BY DEF JobRecords
<1>2. job.results[s] \in Results
  <2>1. \A r0 \in Results : job.results[s] \in Results
    BY <1>1, ResultsSet
  <2>2. [status |-> "pending", days |-> {}] \in Results
    BY DEF Results
  <2>. QED BY <2>1, <2>2
<1>3. r \in Results
  BY <1>2 DEF Results
<1>4. rs \in Answers /\ DOMAIN rs = DOMAIN job.results
  BY <1>1, <1>3, ResultsSet
<1>5. ItemDone(job, s, st) = [job EXCEPT !.pc = "items", !.signal = None, !.end = 0,
                                         !.got = "none", !.results = rs]
  BY DEF ItemDone, JobRecords
<1>. HIDE DEF r, rs
<1>6. ItemDone(job, s, st) \in JobRecords
  <2>1. ItemDone(job, s, st) =
          [pc |-> "items", todo |-> job.todo, seen |-> job.seen, signal |-> None, end |-> 0,
           got |-> "none", request |-> job.request, results |-> rs]
    BY <1>5 DEF JobRecords
  <2>2. /\ job.todo \in SUBSET Signals /\ job.seen \in Nat
        /\ job.request \in Requests \cup {None}
    BY DEF JobRecords
  <2>. QED BY <1>4, <2>1, <2>2 DEF JobRecords, Jobs
<1>7. /\ ItemDone(job, s, st).pc = "items"
      /\ ItemDone(job, s, st).request = job.request
      /\ ItemDone(job, s, st).results = rs
  BY <1>5 DEF JobRecords
<1>. QED BY <1>4, <1>6, <1>7

LEMMA DayDoneType ==
  ASSUME NEW job \in JobRecords, job.signal \in DOMAIN job.results, NEW d \in DayEnds
  PROVE  /\ DayDone(job, d) \in JobRecords
         /\ DayDone(job, d).pc = "days"
         /\ DayDone(job, d).signal = job.signal
         /\ DayDone(job, d).request = job.request
         /\ DayDone(job, d).end = d + Day
         /\ DOMAIN DayDone(job, d).results = DOMAIN job.results
<1> DEFINE s == job.signal
           r == [job.results[s] EXCEPT !.days = @ \cup {d}]
           rs == [job.results EXCEPT ![s] = r]
<1>1. job.results \in Answers
  BY DEF JobRecords
<1>2. job.results[s] \in Results
  <2>1. \A r0 \in Results : job.results[s] \in Results
    BY <1>1, ResultsSet
  <2>2. [status |-> "pending", days |-> {}] \in Results
    BY DEF Results
  <2>. QED BY <2>1, <2>2
<1>3. r \in Results
  BY <1>2 DEF Results
<1>4. rs \in Answers /\ DOMAIN rs = DOMAIN job.results
  BY <1>1, <1>3, ResultsSet
<1>5. DayDone(job, d) = [job EXCEPT !.pc = "days", !.end = d + Day, !.got = "none", !.results = rs]
  BY DEF DayDone, JobRecords
<1>6. d + Day \in Nat
  BY TrackingAssumption DEF DayEnds, Day
<1>. HIDE DEF rs
<1>. QED BY <1>4, <1>5, <1>6 DEF JobRecords, Jobs

\* The threads that a step is not of keep what is known of them, if it leaves
\* their locks, the cursors under them, registrations and plans.
LEMMA OthersKeep ==
  ASSUME TrackingInv, NEW b \in Threads, act'[b] = act[b],
         \A s \in Signals : lock[s] = b => lock'[s] = b,
         \A s \in Signals : lock[s] = b /\ status[s] # "none" => next'[s] = next[s],
         \A s \in Signals : status[s] # "none" => status'[s] # "none",
         \A q \in Requests : DOMAIN plan[q] \subseteq DOMAIN plan'[q]
  PROVE  Owns(b)' /\ AtCursor(b)' /\ OwnsItems(b)'
<1>. Owns(b) /\ AtCursor(b) /\ OwnsItems(b) /\ act[b] \in JobRecords
  BY DEF TrackingInv, Typed
<1>1. Owns(b)'
  BY DEF Owns, OnSignal, OnDay
<1>2. AtCursor(b)'
  BY DEF AtCursor, Owns, OnDay, OnSignal
<1>3. OwnsItems(b)'
  <2>1. act[b].results \in Answers
    BY DEF JobRecords
  <2>2. \A s \in DOMAIN act[b].results : s \in Signals
    BY <2>1 DEF Answers
  <2>. QED BY <2>2 DEF OwnsItems, Forwarding
<1>. QED BY <1>1, <1>2, <1>3

\* A step of thread a: what it leaves to the other threads and what it has to
\* see to itself.
LEMMA StepOf ==
  ASSUME TrackingInv, NEW a \in Threads, NEW job \in JobRecords,
         act' = [act EXCEPT ![a] = job],
         \A s \in Signals : lock[s] \notin {a, None} => lock'[s] = lock[s] /\ next'[s] = next[s],
         \A s \in Signals : status[s] # "none" => status'[s] # "none",
         \A q \in Requests : DOMAIN plan[q] \subseteq DOMAIN plan'[q],
         Owns(a)', AtCursor(a)', OwnsItems(a)'
  PROVE  /\ act' \in [Threads -> JobRecords]
         /\ \A b \in Threads : Owns(b)' /\ AtCursor(b)' /\ OwnsItems(b)'
<1>. act \in [Threads -> JobRecords]
  BY DEF TrackingInv, Typed
<1>1. ASSUME NEW b \in Threads, b # a PROVE Owns(b)' /\ AtCursor(b)' /\ OwnsItems(b)'
  <2>1. act'[b] = act[b]
    BY <1>1
  <2>2. \A s \in Signals : lock[s] = b => lock'[s] = b /\ next'[s] = next[s]
    BY <1>1, TrackingAssumption
  <2>. QED BY <2>1, <2>2, OthersKeep
<1>. QED BY <1>1

\* Nobody's step.
LEMMA StepOfNobody ==
  ASSUME TrackingInv, act' = act,
         \A s \in Signals : lock[s] # None => lock'[s] = lock[s],
         \A s \in Signals : lock[s] # None /\ status[s] # "none" => next'[s] = next[s],
         \A s \in Signals : status[s] # "none" => status'[s] # "none",
         \A q \in Requests : DOMAIN plan[q] \subseteq DOMAIN plan'[q]
  PROVE  \A b \in Threads : Owns(b)' /\ AtCursor(b)' /\ OwnsItems(b)'
<1>1. ASSUME NEW b \in Threads PROVE Owns(b)' /\ AtCursor(b)' /\ OwnsItems(b)'
  <2>2. \A s \in Signals : lock[s] = b => lock[s] # None
    BY <1>1, TrackingAssumption
  <2>. QED BY <2>2, OthersKeep
<1>. QED BY <1>1

\* The rest of the invariant, when tables, plans and answers stay.
LEMMA TablesStay ==
  ASSUME TrackingInv, UNCHANGED <<tables, plan, answer, resets, since>>
  PROVE  /\ status' \in [Signals -> {"none", "active", "paused"}]
         /\ enabled' \in [Signals -> BOOLEAN]
         /\ next' \in [Signals -> Nat]
         /\ meas' \in [Signals -> SUBSET Rows]
         /\ \A s \in Signals : \A m \in meas'[s] : m.start < m.end
         /\ runs' \in [Signals -> [DayEnds -> RunStates]]
         /\ plan' \in [Requests -> Plans] /\ answer' \in [Requests -> Answers]
         /\ resets' \subseteq Resets /\ since' \in [Signals -> Nat]
         /\ Placed' /\ PlansSound'
BY DEF TrackingInv, Typed, Placed, PlansSound, tables

-----------------------------------------------------------------------------
(* The scheduler's steps.                                                  *)

LEMMA TickKeeps == ASSUME TrackingInv, NEW a \in Workers, Tick(a) PROVE TrackingInv'
<1>. a \in Threads
  BY DEF Threads
<1> DEFINE job == [Idle EXCEPT !.pc = "ticking", !.todo = Due(clock), !.seen = clock]
<1>1. job \in JobRecords
  <2>1. Due(clock) \in SUBSET Signals /\ clock \in Nat
    BY DEF TrackingInv, Typed, Due, Registered
  <2>. QED BY <2>1, IdleType DEF Idle, JobRecords, Jobs
<1>2. act' = [act EXCEPT ![a] = job]
  BY DEF Tick
<1>3. act'[a] = job /\ job.pc = "ticking" /\ job.seen <= Horizon
  BY <1>2, TrackingAssumption DEF TrackingInv, Typed, Idle
<1>4. Owns(a)' /\ AtCursor(a)' /\ OwnsItems(a)'
  BY <1>3, TrackingAssumption DEF Owns, AtCursor, OwnsItems, OnSignal, OnDay, Forwarding
<1>. HIDE DEF job
<1>5. /\ act' \in [Threads -> JobRecords]
      /\ \A b \in Threads : Owns(b)' /\ AtCursor(b)' /\ OwnsItems(b)'
  BY <1>1, <1>2, <1>4, StepOf DEF Tick, tables, requests, locks
<1>. QED BY <1>5, TablesStay DEF TrackingInv, Typed, Tick, tables, requests, locks

LEMMA PassOverKeeps ==
  ASSUME TrackingInv, NEW a \in Workers, NEW s \in Signals, PassOver(a, s) PROVE TrackingInv'
<1>. a \in Threads /\ act[a] \in JobRecords
  BY DEF Threads, TrackingInv, Typed
<1> DEFINE job == [act[a] EXCEPT !.todo = @ \ {s}]
<1>1. job \in JobRecords
  BY DEF JobRecords
<1>2. act' = [act EXCEPT ![a] = job]
  BY DEF PassOver
<1>3. act'[a] = job /\ job.pc = "ticking" /\ job.seen <= Horizon
  BY <1>2 DEF TrackingInv, Typed, JobRecords, PassOver, AtCursor
<1>4. Owns(a)' /\ AtCursor(a)' /\ OwnsItems(a)'
  BY <1>3, TrackingAssumption DEF Owns, AtCursor, OwnsItems, OnSignal, OnDay, Forwarding
<1>. HIDE DEF job
<1>5. /\ act' \in [Threads -> JobRecords]
      /\ \A b \in Threads : Owns(b)' /\ AtCursor(b)' /\ OwnsItems(b)'
  BY <1>1, <1>2, <1>4, StepOf DEF PassOver, tables, requests, locks
<1>. QED BY <1>5, TablesStay DEF TrackingInv, Typed, PassOver, tables, requests, locks

LEMMA EndTickKeeps == ASSUME TrackingInv, NEW a \in Workers, EndTick(a) PROVE TrackingInv'
<1>. a \in Threads
  BY DEF Threads
<1>2. act' = [act EXCEPT ![a] = Idle]
  BY DEF EndTick
<1>3. act'[a] = Idle /\ Idle.pc = "idle" /\ Idle.seen <= Horizon
  BY <1>2, TrackingAssumption DEF TrackingInv, Typed, Idle
<1>4. Owns(a)' /\ AtCursor(a)' /\ OwnsItems(a)'
  BY <1>3, TrackingAssumption DEF Owns, AtCursor, OwnsItems, OnSignal, OnDay, Forwarding
<1>5. /\ act' \in [Threads -> JobRecords]
      /\ \A b \in Threads : Owns(b)' /\ AtCursor(b)' /\ OwnsItems(b)'
  BY IdleType, <1>2, <1>4, StepOf DEF EndTick, tables, requests, locks
<1>. QED BY <1>5, TablesStay DEF TrackingInv, Typed, EndTick, tables, requests, locks

LEMMA JobParts ==
  ASSUME NEW job \in JobRecords
  PROVE  /\ job.pc \in Jobs /\ job.todo \in SUBSET Signals /\ job.seen \in Nat
         /\ job.signal \in Signals \cup {None} /\ job.end \in Nat
         /\ job.got \in {"none"} \cup Outcomes /\ job.request \in Requests \cup {None}
         /\ job.results \in Answers
BY DEF JobRecords

\* The day of a thread, taken from the cursor of a tracked signal.
LEMMA DueDay ==
  ASSUME TrackingInv, NEW a \in Workers, NEW s \in Signals, Runnable(s, act[a].seen)
  PROVE  next[s] \in DayEnds /\ next[s] \in Nat /\ status[s] # "none"
<1>1. status[s] # "none" /\ next[s] <= act[a].seen
  BY DEF Runnable, Tracked
<1>2. act[a].seen \in Nat /\ act[a].seen <= Horizon /\ next[s] \in Nat /\ Horizon \in Nat
  BY TrackingAssumption DEF TrackingInv, Typed, JobRecords, AtCursor, Threads
<1>3. next[s] > 0 /\ Midnight(next[s])
  BY <1>1 DEF TrackingInv, Placed
<1>. QED BY <1>1, <1>2, <1>3, SMT DEF DayEnds, Midnight, Day

LEMMA StartedType ==
  ASSUME runs \in [Signals -> [DayEnds -> RunStates]], NEW s \in Signals, NEW d \in DayEnds
  PROVE  Started(s, d) \in [Signals -> [DayEnds -> RunStates]]
BY DEF Started, RunStates

LEMMA TakeDayKeeps ==
  ASSUME TrackingInv, NEW a \in Workers, NEW s \in Signals, TakeDay(a, s) PROVE TrackingInv'
<1>. a \in Threads /\ act[a] \in JobRecords /\ act \in [Threads -> JobRecords] /\ a \notin Clients
  BY TrackingAssumption DEF Threads, TrackingInv, Typed
<1>0. next[s] \in DayEnds /\ next[s] \in Nat /\ status[s] # "none"
  BY DueDay DEF TakeDay
<1> DEFINE job == act'[a]
<1>1. act' = [act EXCEPT ![a] = job]
  BY DEF TakeDay
<1>2. job = [act[a] EXCEPT !.pc = "measuring", !.todo = act[a].todo \ {s}, !.signal = s, !.end = next[s]]
  BY DEF TakeDay
<1>. HIDE DEF job
<1>3. job = [pc |-> "measuring", todo |-> act[a].todo \ {s}, seen |-> act[a].seen, signal |-> s,
             end |-> next[s], got |-> act[a].got, request |-> act[a].request,
             results |-> act[a].results]
  BY <1>2 DEF JobRecords
<1>4. job \in JobRecords
  <2>1. act[a].todo \ {s} \in SUBSET Signals /\ "measuring" \in Jobs
    BY JobParts DEF Jobs
  <2>. QED BY <1>0, <1>3, <2>1, JobParts DEF JobRecords
<1>5. /\ lock' = [lock EXCEPT ![s] = a] /\ lock[s] = None
      /\ lock' \in [Signals -> Threads \cup {None}] /\ lock'[s] = a
      /\ UNCHANGED <<status, next>>
  BY DEF TakeDay, LockFree, TrackingInv, Typed
<1>6. Owns(a)'
  BY <1>0, <1>3, <1>5 DEF Owns, job, OnSignal, OnDay
<1>7. AtCursor(a)'
  BY <1>0, <1>3, <1>5 DEF AtCursor, job, OnDay, TrackingInv
<1>8. OwnsItems(a)'
  BY DEF OwnsItems
<1>9. /\ act' \in [Threads -> JobRecords]
      /\ \A b \in Threads : Owns(b)' /\ AtCursor(b)' /\ OwnsItems(b)'
  <2>1. \A x \in Signals : lock[x] \notin {a, None} => lock'[x] = lock[x] /\ next'[x] = next[x]
    BY <1>5 DEF TrackingInv, Typed
  <2>2. \A q \in Requests : DOMAIN plan[q] \subseteq DOMAIN plan'[q]
    BY DEF TakeDay, requests
  <2>. QED BY <1>1, <1>4, <1>5, <1>6, <1>7, <1>8, <2>1, <2>2, StepOf
<1>10. runs' \in [Signals -> [DayEnds -> RunStates]]
  BY <1>0, StartedType DEF TakeDay, TrackingInv, Typed
<1>. QED BY <1>5, <1>9, <1>10 DEF TrackingInv, Typed, Placed, PlansSound, TakeDay, requests

\* A thread that has nothing in hand, or goes on with its list, owes nothing.
LEMMA IdleOwes ==
  ASSUME NEW a \in Threads, act'[a] = Idle
  PROVE  Owns(a)' /\ AtCursor(a)' /\ OwnsItems(a)'
<1>. Idle.pc = "idle" /\ Idle.seen = 0 /\ 0 <= Horizon
  BY TrackingAssumption DEF Idle
<1>. QED BY DEF Owns, AtCursor, OwnsItems, OnSignal, OnDay, Forwarding

LEMMA TickingOwes ==
  ASSUME TrackingInv, NEW a \in Workers,
         act'[a] = [Idle EXCEPT !.pc = "ticking", !.todo = act[a].todo, !.seen = act[a].seen]
  PROVE  act'[a] \in JobRecords /\ Owns(a)' /\ AtCursor(a)' /\ OwnsItems(a)'
<1>. a \in Threads /\ act[a] \in JobRecords /\ a \notin Clients
  BY TrackingAssumption DEF Threads, TrackingInv, Typed
<1>1. act[a].seen \in Nat /\ act[a].seen <= Horizon /\ act[a].todo \in SUBSET Signals
  BY JobParts DEF TrackingInv, AtCursor
<1>2. act'[a].pc = "ticking" /\ act'[a].seen = act[a].seen
  BY DEF Idle
<1>3. act'[a] \in JobRecords
  BY <1>1, IdleType DEF Idle, JobRecords, Jobs
<1>. QED BY <1>1, <1>2, <1>3 DEF Owns, AtCursor, OwnsItems, OnSignal, OnDay, Forwarding

\* A measurement is a row whose window has a length.
LEMMA SavedType ==
  ASSUME TrackingInv, NEW s \in Signals, NEW w, NEW st \in Outcomes,
         w[1] \in Int, w[2] \in 0..Horizon, w[1] < w[2]
  PROVE  /\ Saved(s, w, st) \in [Signals -> SUBSET Rows]
         /\ \A x \in Signals : \A m \in Saved(s, w, st)[x] : m.start < m.end
<1>1. Measured(w, st) \in Rows /\ Measured(w, st).start < Measured(w, st).end
  BY DEF Measured, Rows
<1>2. meas \in [Signals -> SUBSET Rows] /\ \A x \in Signals : \A m \in meas[x] : m.start < m.end
  BY DEF TrackingInv, Typed
<1>. HIDE DEF TrackingInv
<1>3. Saved(s, w, st) \in [Signals -> SUBSET Rows]
  BY <1>1, <1>2 DEF Saved
<1>4. ASSUME NEW x \in Signals, NEW m \in Saved(s, w, st)[x] PROVE m.start < m.end
  <2>1. m \in meas[x] \/ m = Measured(w, st)
    BY <1>2 DEF Saved
  <2>. QED BY <1>1, <1>2, <2>1
<1>. QED BY <1>3, <1>4

LEMMA DayWindowFacts ==
  ASSUME NEW d \in DayEnds
  PROVE  /\ DayWindow(d)[1] \in Int /\ DayWindow(d)[2] \in 0..Horizon
         /\ DayWindow(d)[1] < DayWindow(d)[2]
BY TrackingAssumption DEF DayEnds, DayWindow, Day

\* The locks, rows and requests of the others when only measurements are added.
LEMMA MeasureDayKeeps ==
  ASSUME TrackingInv, NEW a \in Threads, NEW st \in Outcomes, MeasureDay(a, st)
  PROVE  TrackingInv'
<1>. act[a] \in JobRecords /\ act \in [Threads -> JobRecords]
  BY DEF TrackingInv, Typed
<1>0. /\ act[a].pc = "measuring" /\ act[a].signal \in Signals /\ act[a].end \in DayEnds
      /\ Owns(a) /\ AtCursor(a) /\ OwnsItems(a)
  BY DEF MeasureDay, TrackingInv, Owns, OnSignal, OnDay
<1> DEFINE job == act'[a]
<1>1. act' = [act EXCEPT ![a] = job]
  BY DEF MeasureDay
<1>2. job = [act[a] EXCEPT !.pc = "recording", !.got = st]
  BY DEF MeasureDay
<1>. HIDE DEF job
<1>3. job = [pc |-> "recording", todo |-> act[a].todo, seen |-> act[a].seen,
             signal |-> act[a].signal, end |-> act[a].end, got |-> st,
             request |-> act[a].request, results |-> act[a].results]
  BY <1>2 DEF JobRecords
<1>4. job \in JobRecords
  <2>1. "recording" \in Jobs
    BY DEF Jobs
  <2>. QED BY <1>3, <2>1, JobParts DEF JobRecords
<1>5. UNCHANGED <<status, enabled, next, runs, plan, answer, resets, lock, ffLock, clock, faults, since>>
  BY DEF MeasureDay, requests, locks
<1>6. Owns(a)'
  BY <1>0, <1>3, <1>5 DEF Owns, OnSignal, OnDay, job
<1>7. AtCursor(a)'
  BY <1>0, <1>3, <1>5 DEF AtCursor, OnDay, job
<1>8. OwnsItems(a)'
  BY <1>0, <1>3, <1>5 DEF OwnsItems, Forwarding, job
<1>9. /\ act' \in [Threads -> JobRecords]
      /\ \A b \in Threads : Owns(b)' /\ AtCursor(b)' /\ OwnsItems(b)'
  BY <1>1, <1>4, <1>5, <1>6, <1>7, <1>8, StepOf
<1>10. /\ meas' \in [Signals -> SUBSET Rows]
       /\ \A s \in Signals : \A m \in meas'[s] : m.start < m.end
  BY <1>0, SavedType, DayWindowFacts DEF MeasureDay
<1>. QED BY <1>5, <1>9, <1>10 DEF TrackingInv, Typed, Placed, PlansSound

\* A client that goes on with its fast-forward keeps what it owns.
LEMMA ForwardOwes ==
  ASSUME TrackingInv, NEW a \in Clients, act[a].pc \in Forwarding, act'[a].pc \in Forwarding,
         UNCHANGED <<lock, status, plan>>,
         act'[a].request = act[a].request,
         DOMAIN act'[a].results = DOMAIN act[a].results,
         act'[a].pc # "items" => act'[a].signal \in DOMAIN act[a].results,
         act'[a].pc \in OnDay => act'[a].end \in DayEnds,
         act'[a].pc = "recording" => act'[a].got \in Outcomes,
         act'[a].pc \in {"baseline", "days"} => act'[a].end > 0 /\ Midnight(act'[a].end)
  PROVE  Owns(a)' /\ AtCursor(a)' /\ OwnsItems(a)'
<1>. a \in Threads /\ a \notin Workers
  BY TrackingAssumption DEF Threads
<1>1. OwnsItems(a) /\ act[a].results \in Answers
  BY JobParts DEF TrackingInv, Typed
<1>2. /\ act[a].request \in Requests
      /\ DOMAIN act[a].results \subseteq DOMAIN plan[act[a].request]
      /\ \A s \in DOMAIN act[a].results : lock[s] = a /\ status[s] # "none"
  BY <1>1 DEF OwnsItems
<1>3. DOMAIN act[a].results \subseteq Signals
  BY <1>1 DEF Answers
<1>4. Owns(a)'
  BY <1>2, <1>3 DEF Owns, OnSignal, Forwarding
<1>5. OwnsItems(a)'
  BY <1>2 DEF OwnsItems, Forwarding
<1>. QED BY <1>4, <1>5 DEF AtCursor

\* What a client has in hand while it works on an item.
LEMMA ItemInHand ==
  ASSUME TrackingInv, NEW a \in Clients, act[a].pc \in Forwarding
  PROVE  /\ a \in Threads /\ act[a] \in JobRecords /\ act[a].request \in Requests
         /\ \A s \in DOMAIN act[a].results :
              /\ s \in Signals /\ lock[s] = a /\ s \in DOMAIN plan[act[a].request]
              /\ plan[act[a].request][s] \in Items
              /\ plan[act[a].request][s].start \in Nat /\ Midnight(plan[act[a].request][s].start)
              /\ plan[act[a].request][s].end \in Nat
              /\ plan[act[a].request][s].start <= plan[act[a].request][s].end
              /\ plan[act[a].request][s].end <= Horizon
         /\ act[a].pc # "items" => act[a].signal \in DOMAIN act[a].results
<1>1. a \in Threads /\ OwnsItems(a) /\ act[a] \in JobRecords /\ act[a].results \in Answers
  BY JobParts DEF TrackingInv, Typed, Threads
<1>2. /\ act[a].request \in Requests
      /\ DOMAIN act[a].results \subseteq DOMAIN plan[act[a].request]
      /\ \A s \in DOMAIN act[a].results : lock[s] = a
      /\ act[a].pc # "items" => act[a].signal \in DOMAIN act[a].results
  BY <1>1 DEF OwnsItems
<1>3. DOMAIN act[a].results \subseteq Signals
  BY <1>1 DEF Answers
<1>4. plan[act[a].request] \in Plans
  BY <1>2 DEF TrackingInv, Typed
<1>5. \A s \in DOMAIN plan[act[a].request] : plan[act[a].request][s] \in Items
  BY <1>4 DEF Plans
<1>6. ASSUME NEW s \in DOMAIN plan[act[a].request]
      PROVE  /\ plan[act[a].request][s].start \in Nat /\ Midnight(plan[act[a].request][s].start)
             /\ plan[act[a].request][s].end \in Nat
             /\ plan[act[a].request][s].start <= plan[act[a].request][s].end
             /\ plan[act[a].request][s].end <= Horizon
  BY <1>2, <1>5 DEF TrackingInv, PlansSound, Items
<1>. QED BY <1>1, <1>2, <1>3, <1>5, <1>6

\* The day a fast-forward is at is one of the model's.
LEMMA DayOfItem ==
  ASSUME TrackingInv, NEW a \in Clients, act[a].pc = "days", act[a].end <= ItemOf(a).end
  PROVE  act[a].end \in DayEnds /\ act[a].end \in Nat
<1>. act[a].pc \in Forwarding
  BY DEF Forwarding
<1>1. act[a].end \in Nat /\ act[a].end > 0 /\ Midnight(act[a].end)
  <2>1. a \in Threads /\ act[a] \in JobRecords
    BY ItemInHand
  <2>. QED BY <2>1, JobParts DEF TrackingInv, OwnsItems
<1>2. ItemOf(a).end \in Nat /\ ItemOf(a).end <= Horizon
  BY ItemInHand DEF ItemOf
<1>. QED BY <1>1, <1>2, TrackingAssumption, SMT DEF DayEnds, Midnight, Day

-----------------------------------------------------------------------------
(* Days that are recorded, fail or are interrupted.                        *)

LEMMA CursorFacts ==
  ASSUME NEW c \in Nat, NEW d \in DayEnds, c > 0 /\ Midnight(c)
  PROVE  /\ Later(c, d + Day) \in Nat /\ Later(c, d + Day) > 0 /\ Midnight(Later(c, d + Day))
         /\ Later(c, d + Day) >= c
<1>1. d \in Nat /\ d > 0 /\ Midnight(d)
  BY TrackingAssumption, SMT DEF DayEnds, Day
<1>2. d + Day \in Nat /\ d + Day > 0 /\ Midnight(d + Day)
  BY <1>1, MidnightFacts, SMT DEF Day
<1>. QED BY <1>2 DEF Later

LEMMA FinishDayKeeps == ASSUME TrackingInv, NEW a \in Threads, FinishDay(a) PROVE TrackingInv'
<1> DEFINE s == act[a].signal
           d == act[a].end
<1>0. /\ act[a].pc = "recording" /\ s \in Signals /\ d \in DayEnds /\ lock[s] = a
      /\ act[a].got \in Outcomes /\ status[s] # "none" /\ act[a] \in JobRecords
      /\ next[s] \in Nat /\ next[s] > 0 /\ Midnight(next[s])
  BY DEF FinishDay, TrackingInv, Typed, Owns, OnSignal, OnDay, Placed
<1>1. next' = [next EXCEPT ![s] = Later(next[s], d + Day)]
  BY DEF FinishDay, CursorAfter
<1>2. UNCHANGED <<status, enabled, meas, plan, answer, resets, ffLock, clock, faults, since>>
  BY DEF FinishDay, requests
<1>. HIDE DEF s, d
<1>3. next' \in [Signals -> Nat] /\ Placed'
  <2>1. next \in [Signals -> Nat] /\ Placed
    BY DEF TrackingInv, Typed
  <2>2. /\ Later(next[s], d + Day) \in Nat /\ Later(next[s], d + Day) > 0
        /\ Midnight(Later(next[s], d + Day))
    BY <1>0, CursorFacts
  <2>. QED BY <1>0, <1>1, <1>2, <2>1, <2>2 DEF Placed
<1>4. runs' \in [Signals -> [DayEnds -> RunStates]]
  <2>1. act[a].got \in RunStates
    BY <1>0 DEF Outcomes, RunStates
  <2>. QED BY <1>0, <2>1 DEF FinishDay, TrackingInv, Typed, s, d
<1>5. \A x \in Signals : lock[x] \notin {a, None} => lock'[x] = lock[x] /\ next'[x] = next[x]
  <2>1. \A x \in Signals : lock[x] \notin {a, None} => x # s
    BY <1>0
  <2>2. next \in [Signals -> Nat] /\ lock \in [Signals -> Threads \cup {None}]
    BY DEF TrackingInv, Typed
  <2>3. lock' = [lock EXCEPT ![s] = None] \/ lock' = lock
    BY DEF FinishDay, s
  <2>. QED BY <1>1, <2>1, <2>2, <2>3
<1>6. lock' \in [Signals -> Threads \cup {None}]
  <2>1. lock' = [lock EXCEPT ![s] = None] \/ lock' = lock
    BY DEF FinishDay, s
  <2>. QED BY <2>1 DEF TrackingInv, Typed
<1>7. /\ act' = [act EXCEPT ![a] = act'[a]]
      /\ act'[a] \in JobRecords /\ Owns(a)' /\ AtCursor(a)' /\ OwnsItems(a)'
  <2>1. CASE a \in Workers
    <3>1. act' = [act EXCEPT ![a] = [Idle EXCEPT !.pc = "ticking", !.todo = act[a].todo,
                                                 !.seen = act[a].seen]]
      BY <2>1 DEF FinishDay
    <3>2. act'[a] = [Idle EXCEPT !.pc = "ticking", !.todo = act[a].todo, !.seen = act[a].seen]
      BY <3>1 DEF TrackingInv, Typed
    <3>. QED BY <2>1, <3>1, <3>2, TickingOwes
  <2>2. CASE a \notin Workers
    <3>0. a \in Clients /\ act[a].pc \in Forwarding
      BY <1>0, <2>2 DEF Threads, Forwarding
    <3>1. act' = [act EXCEPT ![a] = DayDone(act[a], d)] /\ lock' = lock
      BY <2>2 DEF FinishDay, d
    <3>2. act'[a] = DayDone(act[a], d)
      BY <3>1 DEF TrackingInv, Typed
    <3>3. act[a].signal \in DOMAIN act[a].results
      BY <1>0, <3>0, ItemInHand
    <3>4. /\ act'[a] \in JobRecords /\ act'[a].pc = "days" /\ act'[a].signal = act[a].signal
          /\ act'[a].request = act[a].request /\ act'[a].end = d + Day
          /\ DOMAIN act'[a].results = DOMAIN act[a].results
      BY <1>0, <3>2, <3>3, DayDoneType
    <3>5. d + Day > 0 /\ Midnight(d + Day)
      BY <1>0, MidnightFacts, TrackingAssumption, SMT DEF DayEnds, Day
    <3>6. Owns(a)' /\ AtCursor(a)' /\ OwnsItems(a)'
      BY <1>2, <3>0, <3>1, <3>3, <3>4, <3>5, ForwardOwes DEF Forwarding, OnDay
    <3>. QED BY <3>1, <3>2, <3>4, <3>6
  <2>. QED BY <2>1, <2>2
<1>8. /\ act' \in [Threads -> JobRecords]
      /\ \A b \in Threads : Owns(b)' /\ AtCursor(b)' /\ OwnsItems(b)'
  <2> DEFINE job == act'[a]
  <2>1. act' = [act EXCEPT ![a] = job] /\ job \in JobRecords
    BY <1>7
  <2>. HIDE DEF job
  <2>. QED BY <1>2, <1>5, <1>7, <2>1, StepOf
<1>. QED BY <1>2, <1>3, <1>4, <1>6, <1>8 DEF TrackingInv, Typed, PlansSound

\* Giving locks back gives back none of another thread.
LEMMA UnlockedFacts ==
  ASSUME TrackingInv, NEW a \in Threads
  PROVE  /\ Unlocked(a) \in [Signals -> Threads \cup {None}]
         /\ \A s \in Signals : lock[s] \notin {a, None} => Unlocked(a)[s] = lock[s]
BY DEF TrackingInv, Typed, Unlocked

LEMMA DayFailsKeeps == ASSUME TrackingInv, NEW a \in Workers, DayFails(a) PROVE TrackingInv'
<1>. a \in Threads
  BY DEF Threads
<1>1. act' = [act EXCEPT ![a] = [Idle EXCEPT !.pc = "ticking", !.todo = act[a].todo,
                                             !.seen = act[a].seen]]
  BY DEF DayFails
<1>2. act'[a] = [Idle EXCEPT !.pc = "ticking", !.todo = act[a].todo, !.seen = act[a].seen]
  BY <1>1 DEF TrackingInv, Typed
<1>3. act'[a] \in JobRecords /\ Owns(a)' /\ AtCursor(a)' /\ OwnsItems(a)'
  BY <1>2, TickingOwes
<1>4. lock' = Unlocked(a)
  BY DEF DayFails
<1>5. UNCHANGED <<status, enabled, next, meas, runs, plan, answer, resets, ffLock, clock, since>>
  BY DEF DayFails, tables, requests
<1>6. /\ act' \in [Threads -> JobRecords]
      /\ \A b \in Threads : Owns(b)' /\ AtCursor(b)' /\ OwnsItems(b)'
  <2> DEFINE job == act'[a]
  <2>1. act' = [act EXCEPT ![a] = job] /\ job \in JobRecords
    BY <1>1, <1>2, <1>3
  <2>. HIDE DEF job
  <2>. QED BY <1>3, <1>4, <1>5, <2>1, StepOf, UnlockedFacts
<1>7. faults' \in 0..MaxFaults
  BY TrackingAssumption DEF DayFails, TrackingInv, Typed
<1>. QED BY <1>4, <1>5, <1>6, <1>7, UnlockedFacts DEF TrackingInv, Typed, Placed, PlansSound

LEMMA DiesKeeps == ASSUME TrackingInv, NEW a \in Threads, Dies(a) PROVE TrackingInv'
<1>1. act' = [act EXCEPT ![a] = Idle]
  BY DEF Dies
<1>2. act'[a] = Idle
  BY <1>1 DEF TrackingInv, Typed
<1>3. Owns(a)' /\ AtCursor(a)' /\ OwnsItems(a)'
  BY <1>2, IdleOwes
<1>4. lock' = Unlocked(a) /\ ffLock' \in Clients \cup {None}
  BY DEF Dies, TrackingInv, Typed
<1>5. UNCHANGED <<status, enabled, next, meas, runs, plan, answer, resets, clock, since>>
  BY DEF Dies, tables, requests
<1>6. /\ act' \in [Threads -> JobRecords]
      /\ \A b \in Threads : Owns(b)' /\ AtCursor(b)' /\ OwnsItems(b)'
  BY <1>1, <1>3, <1>4, <1>5, StepOf, UnlockedFacts, IdleType
<1>7. faults' \in 0..MaxFaults
  BY TrackingAssumption DEF Dies, TrackingInv, Typed
<1>. QED BY <1>4, <1>5, <1>6, <1>7, UnlockedFacts DEF TrackingInv, Typed, Placed, PlansSound

-----------------------------------------------------------------------------
(* The steps of a fast-forward.                                            *)

\* A step of a fast-forward on its job alone, with rows of runs and meas.
LEMMA ForwardStep ==
  ASSUME TrackingInv, NEW a \in Clients, NEW job \in JobRecords,
         act' = [act EXCEPT ![a] = job],
         Owns(a)', AtCursor(a)', OwnsItems(a)',
         UNCHANGED <<status, enabled, next, requests, locks, clock, faults, since>>,
         meas' \in [Signals -> SUBSET Rows],
         \A s \in Signals : \A m \in meas'[s] : m.start < m.end,
         runs' \in [Signals -> [DayEnds -> RunStates]]
  PROVE  TrackingInv'
<1>1. /\ act' \in [Threads -> JobRecords]
      /\ \A b \in Threads : Owns(b)' /\ AtCursor(b)' /\ OwnsItems(b)'
  BY StepOf DEF Threads, requests, locks
<1>. QED BY <1>1 DEF TrackingInv, Typed, Placed, PlansSound, requests, locks

LEMMA EndsItem ==
  ASSUME TrackingInv, NEW a \in Clients, act[a].pc \in Forwarding,
         NEW s \in DOMAIN act[a].results, NEW st \in {"completed", "skipped", "blocked"},
         act' = [act EXCEPT ![a] = ItemDone(act[a], s, st)],
         UNCHANGED <<status, enabled, next, meas, requests, locks, clock, faults, since>>,
         runs' \in [Signals -> [DayEnds -> RunStates]]
  PROVE  TrackingInv'
<1>0. a \in Threads /\ act[a] \in JobRecords
  BY ItemInHand
<1> DEFINE job == act'[a]
<1>1. job = ItemDone(act[a], s, st) /\ act' = [act EXCEPT ![a] = job]
  BY <1>0 DEF TrackingInv, Typed
<1>2. /\ job \in JobRecords /\ job.pc = "items" /\ job.request = act[a].request
      /\ DOMAIN job.results = DOMAIN act[a].results
  BY <1>0, <1>1, ItemDoneType
<1>3. Owns(a)' /\ AtCursor(a)' /\ OwnsItems(a)'
  BY <1>2, ForwardOwes DEF Forwarding, OnDay, requests, locks
<1>4. meas' \in [Signals -> SUBSET Rows] /\ \A x \in Signals : \A m \in meas'[x] : m.start < m.end
  BY DEF TrackingInv, Typed
<1>. HIDE DEF job
<1>. QED BY <1>1, <1>2, <1>3, <1>4, ForwardStep

LEMMA SkipItemKeeps ==
  ASSUME TrackingInv, NEW a \in Clients, NEW s \in Signals, SkipItem(a, s) PROVE TrackingInv'
<1>1. act[a].pc \in Forwarding /\ s \in DOMAIN act[a].results
  BY DEF SkipItem, Forwarding
<1>2. act' = [act EXCEPT ![a] = ItemDone(act[a], s, "skipped")]
  BY DEF SkipItem
<1>3. /\ UNCHANGED <<status, enabled, next, meas, requests, locks, clock, faults, since>>
      /\ runs' \in [Signals -> [DayEnds -> RunStates]]
  BY DEF SkipItem, tables, TrackingInv, Typed
<1>. QED BY <1>1, <1>2, <1>3, EndsItem

LEMMA EndItemKeeps == ASSUME TrackingInv, NEW a \in Clients, EndItem(a) PROVE TrackingInv'
<1>1. act[a].pc \in Forwarding /\ act[a].pc # "items"
  BY DEF EndItem, Forwarding
<1>2. act[a].signal \in DOMAIN act[a].results
  BY <1>1, ItemInHand
<1>3. act' = [act EXCEPT ![a] = ItemDone(act[a], act[a].signal, "completed")]
  BY DEF EndItem
<1>4. /\ UNCHANGED <<status, enabled, next, meas, requests, locks, clock, faults, since>>
      /\ runs' \in [Signals -> [DayEnds -> RunStates]]
  BY DEF EndItem, tables, TrackingInv, Typed
<1>. QED BY <1>1, <1>2, <1>3, <1>4, EndsItem

LEMMA BlockDayKeeps == ASSUME TrackingInv, NEW a \in Clients, BlockDay(a) PROVE TrackingInv'
<1>1. act[a].pc \in Forwarding /\ act[a].pc # "items"
  BY DEF BlockDay, Forwarding
<1>2. act[a].signal \in DOMAIN act[a].results
  BY <1>1, ItemInHand
<1>3. act' = [act EXCEPT ![a] = ItemDone(act[a], act[a].signal, "blocked")]
  BY DEF BlockDay
<1>4. UNCHANGED <<status, enabled, next, meas, requests, locks, clock, faults, since>>
  BY DEF BlockDay
<1>5. runs' \in [Signals -> [DayEnds -> RunStates]]
  <2>1. runs \in [Signals -> [DayEnds -> RunStates]]
    BY DEF TrackingInv, Typed
  <2>2. runs' = [runs EXCEPT ![act[a].signal][act[a].end] =
                   IF runs[act[a].signal][act[a].end] = "running" THEN "none"
                   ELSE runs[act[a].signal][act[a].end]]
    BY Zenon DEF BlockDay
  <2> DEFINE s == act[a].signal
             d == act[a].end
  <2>3. CASE s \in Signals /\ d \in DayEnds
    <3>1. runs[s][d] \in RunStates /\ "none" \in RunStates
      BY <2>1, <2>3 DEF RunStates
    <3>. QED BY <2>1, <2>2, <2>3, <3>1
  <2>4. CASE ~ (s \in Signals /\ d \in DayEnds)
    <3>1. \A x \in Signals : runs'[x] = runs[x]
      BY <2>1, <2>2, <2>4
    <3>. QED BY <2>1, <2>2, <3>1
  <2>. QED BY <2>3, <2>4
<1>. QED BY <1>1, <1>2, <1>3, <1>4, <1>5, EndsItem

LEMMA ReuseDayKeeps == ASSUME TrackingInv, NEW a \in Clients, ReuseDay(a) PROVE TrackingInv'
<1>1. act[a].pc = "days" /\ act[a].pc \in Forwarding
  BY DEF ReuseDay, Forwarding
<1>2. a \in Threads /\ act[a] \in JobRecords /\ act[a].signal \in DOMAIN act[a].results
  BY <1>1, ItemInHand
<1>3. act[a].end \in DayEnds
  BY <1>1, DayOfItem DEF ReuseDay
<1> DEFINE job == act'[a]
<1>4. job = DayDone(act[a], act[a].end) /\ act' = [act EXCEPT ![a] = job]
  BY <1>2 DEF ReuseDay, TrackingInv, Typed
<1>5. /\ job \in JobRecords /\ job.pc = "days" /\ job.signal = act[a].signal
      /\ job.request = act[a].request /\ job.end = act[a].end + Day
      /\ DOMAIN job.results = DOMAIN act[a].results
  BY <1>2, <1>3, <1>4, DayDoneType
<1>6. act[a].end + Day > 0 /\ Midnight(act[a].end + Day)
  BY <1>3, MidnightFacts, TrackingAssumption, SMT DEF DayEnds, Day
<1>7. UNCHANGED <<status, enabled, next, meas, runs, requests, locks, clock, faults, since>>
  BY DEF ReuseDay, tables
<1>8. Owns(a)' /\ AtCursor(a)' /\ OwnsItems(a)'
  BY <1>1, <1>2, <1>5, <1>6, <1>7, ForwardOwes DEF Forwarding, OnDay, requests, locks
<1>9. /\ meas' \in [Signals -> SUBSET Rows] /\ \A x \in Signals : \A m \in meas'[x] : m.start < m.end
      /\ runs' \in [Signals -> [DayEnds -> RunStates]]
  BY <1>7 DEF TrackingInv, Typed
<1>. HIDE DEF job
<1>. QED BY <1>4, <1>5, <1>7, <1>8, <1>9, ForwardStep

LEMMA DropDayKeeps == ASSUME TrackingInv, NEW a \in Clients, DropDay(a) PROVE TrackingInv'
<1>1. UNCHANGED <<status, enabled, next, meas, requests, locks, act, clock, faults, since>>
  BY DEF DropDay
<1>2. \A b \in Threads : Owns(b)' /\ AtCursor(b)' /\ OwnsItems(b)'
  BY <1>1, StepOfNobody DEF requests, locks
<1>3. runs' \in [Signals -> [DayEnds -> RunStates]]
  BY DEF DropDay, TrackingInv, Typed, RunStates
<1>. QED BY <1>1, <1>2, <1>3 DEF TrackingInv, Typed, Placed, PlansSound, requests, locks

LEMMA StartDayKeeps == ASSUME TrackingInv, NEW a \in Clients, StartDay(a) PROVE TrackingInv'
<1>1. act[a].pc = "days" /\ act[a].pc \in Forwarding
  BY DEF StartDay, Forwarding
<1>2. a \in Threads /\ act[a] \in JobRecords /\ act[a].signal \in DOMAIN act[a].results
  BY <1>1, ItemInHand
<1>3. act[a].end \in DayEnds /\ act[a].signal \in Signals
  <2>1. act[a].end \in DayEnds
    BY <1>1, DayOfItem DEF StartDay
  <2>. QED BY <1>1, <1>2, <2>1, ItemInHand
<1> DEFINE job == act'[a]
<1>4. act' = [act EXCEPT ![a] = job] /\ job = [act[a] EXCEPT !.pc = "measuring"]
  BY <1>2 DEF StartDay, TrackingInv, Typed
<1>. HIDE DEF job
<1>5. /\ job \in JobRecords /\ job.pc = "measuring" /\ job.signal = act[a].signal
      /\ job.request = act[a].request /\ job.end = act[a].end /\ job.results = act[a].results
  BY <1>2, <1>4 DEF JobRecords, Jobs
<1>6. UNCHANGED <<status, enabled, next, meas, requests, locks, clock, faults, since>>
  BY DEF StartDay
<1>7. Owns(a)' /\ AtCursor(a)' /\ OwnsItems(a)'
  BY <1>1, <1>2, <1>3, <1>5, <1>6, ForwardOwes DEF Forwarding, OnDay, requests, locks, job
<1>8. meas' \in [Signals -> SUBSET Rows] /\ \A x \in Signals : \A m \in meas'[x] : m.start < m.end
  BY <1>6 DEF TrackingInv, Typed
<1>9. runs' \in [Signals -> [DayEnds -> RunStates]]
  BY <1>3, StartedType DEF StartDay, TrackingInv, Typed
<1>. QED BY <1>4, <1>5, <1>6, <1>7, <1>8, <1>9, ForwardStep

LEMMA StartItemKeeps ==
  ASSUME TrackingInv, NEW a \in Clients, NEW s \in Signals, StartItem(a, s) PROVE TrackingInv'
<1> DEFINE item == plan[act[a].request][s]
<1>1. act[a].pc = "items" /\ act[a].pc \in Forwarding /\ s \in DOMAIN act[a].results
  BY DEF StartItem, Forwarding
<1>2. a \in Threads /\ act[a] \in JobRecords
  BY <1>1, ItemInHand
<1>3. item.start \in Nat /\ Midnight(item.start)
  BY <1>1, ItemInHand
<1>4. item.start + Day \in Nat /\ item.start + Day > 0 /\ Midnight(item.start + Day)
  BY <1>3, MidnightFacts, SMT DEF Day
<1> DEFINE job == act'[a]
           pc == IF Measured(DayWindow(item.start), "success") \in meas[s] THEN "days" ELSE "baseline"
<1>5. /\ act' = [act EXCEPT ![a] = job]
      /\ job = [act[a] EXCEPT !.signal = s, !.end = item.start + Day, !.pc = pc]
  BY <1>2 DEF StartItem, TrackingInv, Typed
<1>6. pc \in {"days", "baseline"}
  OBVIOUS
<1>. HIDE DEF job, pc, item
<1>7. job = [pc |-> pc, todo |-> act[a].todo, seen |-> act[a].seen, signal |-> s,
             end |-> item.start + Day, got |-> act[a].got, request |-> act[a].request,
             results |-> act[a].results]
  BY <1>2, <1>5 DEF JobRecords
<1>8. job \in JobRecords
  <2>1. pc \in Jobs
    BY <1>6 DEF Jobs
  <2>. QED BY <1>2, <1>4, <1>7, <2>1, JobParts DEF JobRecords
<1>9. UNCHANGED <<tables, requests, locks, clock, faults, since>>
  BY DEF StartItem
<1>10. Owns(a)' /\ AtCursor(a)' /\ OwnsItems(a)'
  BY <1>1, <1>4, <1>6, <1>7, <1>9, ForwardOwes DEF Forwarding, OnDay, requests, locks, tables, job
<1>11. /\ meas' \in [Signals -> SUBSET Rows] /\ \A x \in Signals : \A m \in meas'[x] : m.start < m.end
       /\ runs' \in [Signals -> [DayEnds -> RunStates]]
  BY <1>9 DEF TrackingInv, Typed, tables
<1>. QED BY <1>5, <1>8, <1>9, <1>10, <1>11, ForwardStep DEF tables

LEMMA MeasureBaselineKeeps ==
  ASSUME TrackingInv, NEW a \in Clients, NEW st \in Outcomes, MeasureBaseline(a, st)
  PROVE  TrackingInv'
<1> DEFINE s == act[a].signal
           w == DayWindow(ItemOf(a).start)
<1>1. act[a].pc = "baseline" /\ act[a].pc \in Forwarding
  BY DEF MeasureBaseline, Forwarding
<1>2. a \in Threads /\ act[a] \in JobRecords /\ s \in DOMAIN act[a].results /\ s \in Signals
  BY <1>1, ItemInHand
<1>3. w[1] \in Int /\ w[2] \in 0..Horizon /\ w[1] < w[2]
  <2>1. /\ ItemOf(a).start \in Nat /\ ItemOf(a).end \in Nat
        /\ ItemOf(a).start <= ItemOf(a).end /\ ItemOf(a).end <= Horizon
    BY <1>1, <1>2, ItemInHand DEF ItemOf
  <2>. QED BY <2>1, TrackingAssumption DEF DayWindow, Day
<1>4. UNCHANGED <<status, enabled, next, runs, requests, locks, clock, faults, since>>
  BY DEF MeasureBaseline
<1>5. meas' \in [Signals -> SUBSET Rows] /\ \A x \in Signals : \A m \in meas'[x] : m.start < m.end
  <2>1. meas' = Saved(s, w, st) \/ meas' = meas
    BY DEF MeasureBaseline
  <2>2. meas \in [Signals -> SUBSET Rows] /\ \A x \in Signals : \A m \in meas[x] : m.start < m.end
    BY DEF TrackingInv, Typed
  <2>. HIDE DEF s, w
  <2>3. /\ Saved(s, w, st) \in [Signals -> SUBSET Rows]
        /\ \A x \in Signals : \A m \in Saved(s, w, st)[x] : m.start < m.end
    BY <1>2, <1>3, SavedType
  <2>. QED BY <2>1, <2>2, <2>3
<1> DEFINE job == act'[a]
<1>6. act' = [act EXCEPT ![a] = job] /\ job = [act[a] EXCEPT !.pc = "days"]
  BY <1>2 DEF MeasureBaseline, TrackingInv, Typed
<1>. HIDE DEF job
<1>7. /\ job \in JobRecords /\ job.pc = "days" /\ job.signal = act[a].signal
      /\ job.request = act[a].request /\ job.end = act[a].end /\ job.results = act[a].results
  BY <1>2, <1>6 DEF JobRecords, Jobs
<1>8. act[a].end > 0 /\ Midnight(act[a].end)
  BY <1>1, <1>2 DEF TrackingInv, OwnsItems
<1>9. Owns(a)' /\ AtCursor(a)' /\ OwnsItems(a)'
  BY <1>1, <1>2, <1>4, <1>7, <1>8, ForwardOwes DEF Forwarding, OnDay, requests, locks, job
<1>10. runs' \in [Signals -> [DayEnds -> RunStates]]
  BY <1>4 DEF TrackingInv, Typed
<1>. QED BY <1>4, <1>5, <1>6, <1>7, <1>9, <1>10, ForwardStep

\* The midnight from which a signal's days are replayed.
LEMMA PlanStartFacts ==
  ASSUME TrackingInv, NEW s \in Signals, Successes(s) # {}
  PROVE  PlanStart(s) \in Nat /\ Midnight(PlanStart(s))
<1> DEFINE S == {m.end : m \in Successes(s)}
<1>1. S \subseteq 0..Horizon /\ S # {}
  <2>1. meas[s] \in SUBSET Rows
    BY DEF TrackingInv, Typed
  <2>2. \A m \in Successes(s) : m.end \in 0..Horizon
    BY <2>1 DEF Successes, Rows
  <2>. QED BY <2>2
<1>2. \E t \in S : \A u \in S : u <= t
  <2>. HIDE DEF S
  <2>. QED BY <1>1, GreatestExists, TrackingAssumption
<1>3. LastSuccess(s) \in S
  <2>1. \E t \in S : \A m \in Successes(s) : m.end <= t
    BY <1>2
  <2>. QED BY <2>1 DEF LastSuccess
<1>4. LastSuccess(s) \in Nat
  BY <1>1, <1>3, TrackingAssumption
<1>. HIDE DEF S
<1>5. ASSUME NEW l \in Nat, l = LastSuccess(s) PROVE PlanStart(s) \in Nat /\ Midnight(PlanStart(s))
  <2>1. PlanStart(s) = IF l % 2 = 0 THEN l ELSE l - (l % 2) + 2
    BY <1>5, SMT DEF PlanStart, NextMidnight, Day
  <2>. QED BY <2>1, SMT DEF Midnight, Day
<1>. QED BY <1>4, <1>5

LEMMA ItemFacts ==
  ASSUME TrackingInv, NEW s \in Signals, NEW days \in Nat
  PROVE  /\ Item(s, days) \in Items /\ Midnight(Item(s, days).start)
         /\ Item(s, days).start <= Item(s, days).end
<1>1. CASE ~Tracked(s) \/ Successes(s) = {}
  <2>1. Item(s, days) = [status |-> "skipped", start |-> 0, end |-> 0]
    BY <1>1 DEF Item
  <2>2. Midnight(0)
    BY SMT DEF Midnight, Day
  <2>. QED BY <2>1, <2>2 DEF Items
<1>2. CASE ~(~Tracked(s) \/ Successes(s) = {})
  <2>1. Item(s, days) = [status |-> "completed", start |-> PlanStart(s), end |-> PlanStart(s) + days * Day]
    BY <1>2 DEF Item
  <2>2. PlanStart(s) \in Nat /\ Midnight(PlanStart(s))
    BY <1>2, PlanStartFacts
  <2>3. days * Day \in Nat
    BY DEF Day
  <2>. QED BY <2>1, <2>2, <2>3 DEF Items
<1>. QED BY <1>1, <1>2

LEMMA PlannedFacts ==
  ASSUME TrackingInv, NEW q \in Requests,
         \A s \in DOMAIN Planned(q) : Planned(q)[s].end <= Horizon
  PROVE  /\ Planned(q) \in Plans /\ DOMAIN plan[q] \subseteq DOMAIN Planned(q)
         /\ \A s \in DOMAIN Planned(q) :
              /\ Midnight(Planned(q)[s].start)
              /\ Planned(q)[s].start <= Planned(q)[s].end /\ Planned(q)[s].end <= Horizon
<1>1. CASE plan[q] # NoPlan
  BY <1>1 DEF Planned, TrackingInv, Typed, PlansSound
<1>2. CASE plan[q] = NoPlan
  <2> DEFINE items == [s \in Chosen(q) |-> Item(s, DaysOf[q])]
  <2>1. Chosen(q) \subseteq Signals
    BY TrackingAssumption DEF Chosen, Registered
  <2>2. DaysOf[q] \in Nat
    BY TrackingAssumption
  <2>3. Planned(q) = items /\ DOMAIN plan[q] = {}
    BY <1>2 DEF Planned, NoPlan
  <2>4. \A s \in Chosen(q) : /\ Item(s, DaysOf[q]) \in Items /\ Midnight(Item(s, DaysOf[q]).start)
                             /\ Item(s, DaysOf[q]).start <= Item(s, DaysOf[q]).end
    BY <2>1, <2>2, ItemFacts
  <2>5. items \in [Chosen(q) -> Items]
    BY <2>4
  <2>6. Planned(q) \in Plans
    BY <2>1, <2>3, <2>5 DEF Plans
  <2>. QED BY <2>3, <2>4, <2>6
<1>. QED BY <1>1, <1>2

LEMMA StartForwardKeeps ==
  ASSUME TrackingInv, NEW a \in Clients, NEW q \in Requests, StartForward(a, q)
  PROVE  TrackingInv'
<1> DEFINE items == Planned(q)
           ids == DOMAIN items
           rs == [s \in ids |-> [status |-> "pending", days |-> {}]]
<1>. a \in Threads /\ a \notin Workers /\ a # None
  BY TrackingAssumption DEF Threads
<1>1. /\ items \in Plans /\ DOMAIN plan[q] \subseteq ids
      /\ \A s \in ids : /\ Midnight(items[s].start)
                        /\ items[s].start <= items[s].end /\ items[s].end <= Horizon
  BY PlannedFacts DEF StartForward
<1>2. ids \subseteq Signals /\ \A s \in ids : lock[s] = None /\ status[s] # "none"
  BY DEF StartForward, Registered, LockFree
<1> DEFINE job == act'[a]
<1>3. /\ act' = [act EXCEPT ![a] = job]
      /\ job = [Idle EXCEPT !.pc = "items", !.request = q, !.results = rs]
  BY DEF StartForward, TrackingInv, Typed
<1>4. rs \in Answers
  <2>1. rs \in [ids -> Results]
    BY DEF Results
  <2>. QED BY <1>2, <2>1 DEF Answers
<1>5. /\ plan' = [plan EXCEPT ![q] = items] /\ ffLock' = a
      /\ lock' = [s \in Signals |-> IF s \in ids THEN a ELSE lock[s]]
      /\ UNCHANGED <<status, enabled, next, meas, runs, answer, resets, clock, faults, since>>
  BY DEF StartForward, tables
<1>6. DOMAIN rs = ids
  OBVIOUS
<1>. HIDE DEF items, ids, rs, job
<1>7. job \in JobRecords /\ job.pc = "items" /\ job.request = q /\ job.results = rs
  BY <1>3, <1>4, IdleType DEF Idle, JobRecords, Jobs
<1>8. /\ plan' \in [Requests -> Plans] /\ plan'[q] = items
      /\ \A r \in Requests : DOMAIN plan[r] \subseteq DOMAIN plan'[r]
  BY <1>1, <1>5 DEF TrackingInv, Typed, ids
<1>9. PlansSound'
  <2>1. ASSUME NEW r \in Requests, NEW s \in DOMAIN plan'[r]
        PROVE  /\ Midnight(plan'[r][s].start) /\ plan'[r][s].start <= plan'[r][s].end
               /\ plan'[r][s].end <= Horizon
    <3>1. CASE r = q
      BY <1>1, <1>8, <2>1, <3>1 DEF ids
    <3>2. CASE r # q
      BY <1>5, <2>1, <3>2 DEF TrackingInv, Typed, PlansSound
    <3>. QED BY <3>1, <3>2
  <2>. QED BY <2>1 DEF PlansSound
<1>10. lock' \in [Signals -> Threads \cup {None}] /\ \A s \in ids : lock'[s] = a
  BY <1>2, <1>5 DEF TrackingInv, Typed
<1>11. Owns(a)' /\ AtCursor(a)'
  BY <1>7 DEF Owns, AtCursor, OnSignal, OnDay, job
<1>12. OwnsItems(a)'
  BY <1>2, <1>5, <1>6, <1>7, <1>8, <1>10 DEF OwnsItems, Forwarding, job, ids
<1>13. \A s \in Signals : lock[s] \notin {a, None} => lock'[s] = lock[s] /\ next'[s] = next[s]
  BY <1>2, <1>5
<1>14. /\ act' \in [Threads -> JobRecords]
       /\ \A b \in Threads : Owns(b)' /\ AtCursor(b)' /\ OwnsItems(b)'
  BY <1>3, <1>5, <1>7, <1>8, <1>11, <1>12, <1>13, StepOf
<1>. QED BY <1>5, <1>8, <1>9, <1>10, <1>14 DEF TrackingInv, Typed, Placed

LEMMA AnswerForwardKeeps ==
  ASSUME TrackingInv, NEW a \in Clients, AnswerForward(a) PROVE TrackingInv'
<1>0. act[a].pc = "items" /\ act[a].pc \in Forwarding
  BY DEF AnswerForward, Forwarding
<1>1. a \in Threads /\ act[a] \in JobRecords /\ act[a].request \in Requests
  BY <1>0, ItemInHand
<1>2. act' = [act EXCEPT ![a] = Idle] /\ act'[a] = Idle
  BY <1>1 DEF AnswerForward, TrackingInv, Typed
<1>3. Owns(a)' /\ AtCursor(a)' /\ OwnsItems(a)'
  BY <1>1, <1>2, IdleOwes
<1>4. /\ lock' = Unlocked(a) /\ ffLock' = None
      /\ answer' = [answer EXCEPT ![act[a].request] = act[a].results]
      /\ UNCHANGED <<status, enabled, next, meas, runs, plan, resets, clock, faults, since>>
  BY DEF AnswerForward, tables
<1>5. answer' \in [Requests -> Answers]
  BY <1>1, <1>4, JobParts DEF TrackingInv, Typed
<1>6. /\ act' \in [Threads -> JobRecords]
      /\ \A b \in Threads : Owns(b)' /\ AtCursor(b)' /\ OwnsItems(b)'
  BY <1>1, <1>2, <1>3, <1>4, StepOf, UnlockedFacts, IdleType
<1>. QED BY <1>1, <1>4, <1>5, <1>6, UnlockedFacts DEF TrackingInv, Typed, Placed, PlansSound

-----------------------------------------------------------------------------
(* Requests about signals, reset and time.                                 *)

LEMMA StartManualKeeps ==
  ASSUME TrackingInv, NEW a \in Clients, NEW s \in Signals, NEW w \in Remeasured, StartManual(a, s, w)
  PROVE  TrackingInv'
<1>. a \in Threads /\ a \notin Workers
  BY TrackingAssumption DEF Threads
<1>1. w[1] \in Nat /\ w[2] \in Nat /\ w[1] < w[2] /\ w[2] <= Horizon
  <2>1. w \in (0..Horizon) \X (0..Horizon) /\ w[1] < w[2] /\ Horizon \in Nat
    BY TrackingAssumption
  <2>. QED BY <2>1
<1> DEFINE job == act'[a]
<1>2. /\ act' = [act EXCEPT ![a] = job]
      /\ job = [Idle EXCEPT !.pc = "manual", !.signal = s, !.seen = w[1], !.end = w[2]]
  BY DEF StartManual, TrackingInv, Typed
<1>. HIDE DEF job
<1>3. /\ job \in JobRecords /\ job.pc = "manual" /\ job.signal = s
      /\ job.seen = w[1] /\ job.end = w[2]
  BY <1>1, <1>2, IdleType DEF Idle, JobRecords, Jobs
<1>4. /\ lock' = [lock EXCEPT ![s] = a] /\ lock[s] = None /\ status[s] # "none"
      /\ UNCHANGED <<status, enabled, next, meas, runs, plan, answer, resets, ffLock, clock, faults, since>>
  BY DEF StartManual, LockFree, Registered, tables, requests
<1>5. lock' \in [Signals -> Threads \cup {None}] /\ lock'[s] = a
  BY <1>4 DEF TrackingInv, Typed
<1>6. Owns(a)' /\ AtCursor(a)' /\ OwnsItems(a)'
  BY <1>1, <1>3, <1>4, <1>5 DEF Owns, AtCursor, OwnsItems, OnDay, OnSignal, Forwarding, job
<1>7. \A x \in Signals : lock[x] \notin {a, None} => lock'[x] = lock[x] /\ next'[x] = next[x]
  BY <1>4 DEF TrackingInv, Typed
<1>8. /\ act' \in [Threads -> JobRecords]
      /\ \A b \in Threads : Owns(b)' /\ AtCursor(b)' /\ OwnsItems(b)'
  BY <1>2, <1>3, <1>4, <1>6, <1>7, StepOf
<1>. QED BY <1>4, <1>5, <1>8 DEF TrackingInv, Typed, Placed, PlansSound

LEMMA ManualMeasureKeeps ==
  ASSUME TrackingInv, NEW a \in Clients, NEW st \in Outcomes, ManualMeasure(a, st)
  PROVE  TrackingInv'
<1> DEFINE s == act[a].signal
           w == <<act[a].seen, act[a].end>>
<1>0. a \in Threads /\ act[a] \in JobRecords /\ act[a].pc = "manual"
  BY DEF Threads, TrackingInv, Typed, ManualMeasure
<1>1. s \in Signals /\ lock[s] = a /\ act[a].seen < act[a].end /\ act[a].end <= Horizon
  BY <1>0 DEF TrackingInv, Owns, OnSignal
<1>2. w[1] \in Int /\ w[2] \in 0..Horizon /\ w[1] < w[2]
  BY <1>0, <1>1, JobParts, TrackingAssumption
<1>3. act' = [act EXCEPT ![a] = Idle] /\ act'[a] = Idle
  BY <1>0 DEF ManualMeasure, TrackingInv, Typed
<1>4. Owns(a)' /\ AtCursor(a)' /\ OwnsItems(a)'
  BY <1>0, <1>3, IdleOwes
<1>5. /\ lock' = [lock EXCEPT ![s] = None]
      /\ UNCHANGED <<status, enabled, next, runs, plan, answer, resets, ffLock, clock, faults, since>>
  BY DEF ManualMeasure, requests
<1>6. meas' = Saved(s, w, st)
  BY DEF ManualMeasure
<1>. HIDE DEF s, w
<1>7. meas' \in [Signals -> SUBSET Rows] /\ \A x \in Signals : \A m \in meas'[x] : m.start < m.end
  BY <1>1, <1>2, <1>6, SavedType
<1>8. /\ lock' \in [Signals -> Threads \cup {None}]
      /\ \A x \in Signals : lock[x] \notin {a, None} => lock'[x] = lock[x]
  BY <1>1, <1>5 DEF TrackingInv, Typed
<1>9. /\ act' \in [Threads -> JobRecords]
      /\ \A b \in Threads : Owns(b)' /\ AtCursor(b)' /\ OwnsItems(b)'
  BY <1>0, <1>3, <1>4, <1>5, <1>8, StepOf, IdleType
<1>. QED BY <1>5, <1>7, <1>8, <1>9 DEF TrackingInv, Typed, Placed, PlansSound

LEMMA RegisterKeeps ==
  ASSUME TrackingInv, NEW s \in Signals, NEW w \in Windows, Register(s, w) PROVE TrackingInv'
<1>1. w[1] \in Int /\ w[2] \in 0..Horizon /\ w[1] < w[2]
  <2>1. w \in (0..Horizon) \X (0..Horizon) /\ w[1] < w[2]
    BY TrackingAssumption
  <2>. QED BY <2>1
<1>2. "success" \in Outcomes
  BY DEF Outcomes
<1>3. meas' \in [Signals -> SUBSET Rows] /\ \A x \in Signals : \A m \in meas'[x] : m.start < m.end
  BY <1>1, <1>2, SavedType DEF Register
<1>4. UNCHANGED <<runs, plan, answer, resets, lock, ffLock, act, clock, faults, since>>
  BY DEF Register, requests, locks
<1>5. /\ status' \in [Signals -> {"none", "active", "paused"}] /\ enabled' \in [Signals -> BOOLEAN]
      /\ next' \in [Signals -> Nat] /\ Placed'
      /\ \A x \in Signals : status[x] # "none" => status'[x] # "none" /\ next'[x] = next[x]
  <2>1. CASE s \in Registered
    BY <2>1 DEF Register, TrackingInv, Typed, Placed
  <2>2. CASE s \notin Registered
    <3>1. status[s] = "none"
      BY <2>2 DEF Registered
    <3>2. /\ status' = [status EXCEPT ![s] = "active"] /\ enabled' = [enabled EXCEPT ![s] = TRUE]
          /\ next' = [next EXCEPT ![s] = NextMidnight(clock)]
      BY <2>2 DEF Register
    <3>3. NextMidnight(clock) \in Nat /\ NextMidnight(clock) > 0 /\ Midnight(NextMidnight(clock))
      <4>1. clock \in Nat
        BY TrackingAssumption DEF TrackingInv, Typed
      <4>. QED BY <4>1, MidnightFacts
    <3>. QED BY <3>1, <3>2, <3>3 DEF TrackingInv, Typed, Placed
  <2>. QED BY <2>1, <2>2
<1>6. \A b \in Threads : Owns(b)' /\ AtCursor(b)' /\ OwnsItems(b)'
  BY <1>4, <1>5, StepOfNobody
<1>. QED BY <1>3, <1>4, <1>5, <1>6 DEF TrackingInv, Typed, PlansSound

LEMMA SetStatusKeeps ==
  ASSUME TrackingInv, NEW s \in Signals, NEW st \in Statuses, SetStatus(s, st) PROVE TrackingInv'
<1>1. st \in {"active", "paused"}
  BY TrackingAssumption
<1>2. /\ status' = [status EXCEPT ![s] = st] /\ status[s] # "none"
      /\ UNCHANGED <<enabled, next, meas, runs, plan, answer, resets, lock, ffLock, act, clock, faults, since>>
  BY DEF SetStatus, Registered, requests, locks
<1>3. /\ status' \in [Signals -> {"none", "active", "paused"}] /\ Placed'
      /\ \A x \in Signals : status[x] # "none" => status'[x] # "none"
  BY <1>1, <1>2 DEF TrackingInv, Typed, Placed
<1>4. \A b \in Threads : Owns(b)' /\ AtCursor(b)' /\ OwnsItems(b)'
  BY <1>2, <1>3, StepOfNobody
<1>. QED BY <1>2, <1>3, <1>4 DEF TrackingInv, Typed, PlansSound

LEMMA SetScheduleKeeps ==
  ASSUME TrackingInv, NEW s \in Signals, NEW on \in Switches, NEW at \in Placements \cup {next[s]},
         SetSchedule(s, on, at)
  PROVE  TrackingInv'
<1>1. /\ enabled' = [enabled EXCEPT ![s] = on] /\ next' = [next EXCEPT ![s] = at]
      /\ status[s] # "none" /\ lock[s] = None
      /\ UNCHANGED <<status, meas, runs, plan, answer, resets, lock, ffLock, act, clock, faults, since>>
  BY DEF SetSchedule, Registered, LockFree, requests, locks
<1>2. at \in Nat /\ at > 0 /\ Midnight(at) /\ on \in BOOLEAN
  <2>1. CASE at \in Placements
    BY <2>1, TrackingAssumption
  <2>2. CASE at = next[s]
    BY <1>1, <2>2, TrackingAssumption DEF TrackingInv, Typed, Placed
  <2>. QED BY <2>1, <2>2
<1>3. enabled' \in [Signals -> BOOLEAN] /\ next' \in [Signals -> Nat] /\ Placed'
  BY <1>1, <1>2 DEF TrackingInv, Typed, Placed
<1>4. \A x \in Signals : lock[x] # None => next'[x] = next[x]
  BY <1>1 DEF TrackingInv, Typed
<1>5. \A b \in Threads : Owns(b)' /\ AtCursor(b)' /\ OwnsItems(b)'
  BY <1>1, <1>4, StepOfNobody
<1>. QED BY <1>1, <1>3, <1>5 DEF TrackingInv, Typed, PlansSound

LEMMA TimePassesKeeps == ASSUME TrackingInv, TimePasses PROVE TrackingInv'
<1>1. UNCHANGED <<tables, requests, locks, act, faults, since>>
  BY DEF TimePasses
<1>2. clock' \in 0..Horizon
  BY TrackingAssumption DEF TimePasses, TrackingInv, Typed, Day
<1>3. \A b \in Threads : Owns(b)' /\ AtCursor(b)' /\ OwnsItems(b)'
  BY <1>1, StepOfNobody DEF tables, requests, locks
<1>. QED BY <1>1, <1>2, <1>3 DEF TrackingInv, Typed, Placed, PlansSound, tables, requests, locks

\* A plan that a reset ends keeps its items and their days.
LEMMA EndedFacts ==
  ASSUME TrackingInv, NEW q \in Requests, NEW ss
  PROVE  /\ Ended(q, ss) \in Plans /\ DOMAIN Ended(q, ss) = DOMAIN plan[q]
         /\ \A s \in DOMAIN plan[q] : Ended(q, ss)[s].start = plan[q][s].start
                                      /\ Ended(q, ss)[s].end = plan[q][s].end
<1>1. PICK D \in SUBSET Signals : plan[q] \in [D -> Items]
  BY DEF TrackingInv, Typed, Plans
<1>2. ASSUME NEW s \in D
      PROVE  /\ [plan[q][s] EXCEPT !.status = "skipped"] \in Items
             /\ [plan[q][s] EXCEPT !.status = "skipped"].start = plan[q][s].start
             /\ [plan[q][s] EXCEPT !.status = "skipped"].end = plan[q][s].end
  BY <1>1 DEF Items
<1>3. CASE answer[q] # NoAnswer
  BY <1>1, <1>3 DEF Ended, Plans
<1>4. CASE answer[q] = NoAnswer
  <2>1. Ended(q, ss) = [s \in D |-> IF s \in ss THEN [plan[q][s] EXCEPT !.status = "skipped"]
                                                ELSE plan[q][s]]
    BY <1>1, <1>4 DEF Ended
  <2>2. Ended(q, ss) \in [D -> Items]
    BY <1>1, <1>2, <2>1
  <2>. QED BY <1>1, <1>2, <2>1, <2>2 DEF Plans
<1>. QED BY <1>3, <1>4

LEMMA ResetKeeps ==
  ASSUME TrackingInv, NEW q \in Resets, NEW ss \in SUBSET Signals, NEW start \in DayEnds,
         Reset(q, ss, start)
  PROVE  TrackingInv'
<1>1. /\ runs' = [s \in Signals |-> IF s \in ss THEN NoRuns ELSE runs[s]]
      /\ meas' = [s \in Signals |-> IF s \in ss THEN {Measured(DayWindow(start), "success")} ELSE meas[s]]
      /\ next' = [s \in Signals |-> IF s \in ss THEN Later(NextMidnight(clock), start + Day) ELSE next[s]]
      /\ plan' = [r \in Requests |-> Ended(r, ss)] /\ resets' = resets \cup {q}
      /\ since' = [s \in Signals |-> IF s \in ss THEN start ELSE since[s]]
      /\ UNCHANGED <<status, enabled, answer, lock, ffLock, act, clock, faults>>
      /\ \A s \in ss : lock[s] = None
  BY DEF Reset, LockFree, locks
<1>2. runs' \in [Signals -> [DayEnds -> RunStates]]
  <2>1. NoRuns \in [DayEnds -> RunStates]
    BY DEF NoRuns, RunStates
  <2>. QED BY <1>1, <2>1 DEF TrackingInv, Typed
<1>3. meas' \in [Signals -> SUBSET Rows] /\ \A s \in Signals : \A m \in meas'[s] : m.start < m.end
  <2>1. /\ Measured(DayWindow(start), "success") \in Rows
        /\ Measured(DayWindow(start), "success").start < Measured(DayWindow(start), "success").end
    BY DayWindowFacts DEF Measured, Rows, Outcomes
  <2>. QED BY <1>1, <2>1 DEF TrackingInv, Typed
<1>4. next' \in [Signals -> Nat] /\ Placed'
  <2>1. clock \in Nat
    BY TrackingAssumption DEF TrackingInv, Typed
  <2>2. /\ Later(NextMidnight(clock), start + Day) \in Nat /\ Later(NextMidnight(clock), start + Day) > 0
        /\ Midnight(Later(NextMidnight(clock), start + Day))
    <3>1. NextMidnight(clock) \in Nat /\ NextMidnight(clock) > 0 /\ Midnight(NextMidnight(clock))
      BY <2>1, MidnightFacts
    <3>. QED BY <3>1, CursorFacts
  <2>3. next \in [Signals -> Nat] /\ Placed
    BY DEF TrackingInv, Typed
  <2>. QED BY <1>1, <2>2, <2>3 DEF Placed
<1>5. since' \in [Signals -> Nat] /\ resets' \subseteq Resets
  <2>1. start \in Nat
    BY TrackingAssumption DEF DayEnds, Day
  <2>. QED BY <1>1, <2>1 DEF TrackingInv, Typed
<1>6. /\ plan' \in [Requests -> Plans] /\ PlansSound'
      /\ \A r \in Requests : DOMAIN plan[r] \subseteq DOMAIN plan'[r]
  <2>1. PlansSound
    BY DEF TrackingInv
  <2>. QED BY <1>1, <2>1, EndedFacts DEF PlansSound
<1>7. \A b \in Threads : Owns(b)' /\ AtCursor(b)' /\ OwnsItems(b)'
  BY <1>1, <1>6, StepOfNobody
<1>. QED BY <1>1, <1>2, <1>3, <1>4, <1>5, <1>6, <1>7 DEF TrackingInv, Typed

-----------------------------------------------------------------------------
(* The invariant holds throughout.                                         *)

LEMMA InitKeeps == Init => TrackingInv
<1>. SUFFICES ASSUME Init PROVE TrackingInv
  OBVIOUS
<1>1. \A b \in Threads : act[b] = Idle
  BY DEF Init
<1>2. act \in [Threads -> JobRecords]
  BY IdleType DEF Init
<1>3. \A b \in Threads : Owns(b) /\ AtCursor(b) /\ OwnsItems(b)
  <2>1. Idle.pc = "idle" /\ Idle.seen = 0 /\ 0 <= Horizon
    BY TrackingAssumption DEF Idle
  <2>. QED BY <1>1, <2>1 DEF Owns, AtCursor, OwnsItems, OnSignal, OnDay, Forwarding
<1>4. NoPlan \in Plans /\ NoAnswer \in Answers /\ DOMAIN NoPlan = {}
  <2>1. NoPlan \in [{} -> Items] /\ NoAnswer \in [{} -> Results]
    BY DEF NoPlan, NoAnswer
  <2>. QED BY <2>1 DEF Plans, Answers
<1>5. plan \in [Requests -> Plans] /\ answer \in [Requests -> Answers] /\ PlansSound
  BY <1>4 DEF Init, PlansSound
<1>6. runs \in [Signals -> [DayEnds -> RunStates]]
  BY DEF Init, NoRuns, RunStates
<1>7. meas \in [Signals -> SUBSET Rows] /\ \A s \in Signals : \A m \in meas[s] : m.start < m.end
  BY DEF Init
<1>8. Placed
  BY DEF Init, Placed
<1>. QED BY <1>2, <1>3, <1>5, <1>6, <1>7, <1>8, TrackingAssumption DEF Init, TrackingInv, Typed

LEMMA WorkerKeeps == ASSUME TrackingInv, NEW a \in Workers, WorkerStep(a) PROVE TrackingInv'
<1>. a \in Threads
  BY DEF Threads
<1>1. CASE Tick(a) BY <1>1, TickKeeps
<1>2. CASE EndTick(a) BY <1>2, EndTickKeeps
<1>3. CASE FinishDay(a) BY <1>3, FinishDayKeeps
<1>4. CASE DayFails(a) BY <1>4, DayFailsKeeps
<1>5. CASE Dies(a) BY <1>5, DiesKeeps
<1>6. CASE \E s \in Signals : PassOver(a, s) \/ TakeDay(a, s)
  BY <1>6, PassOverKeeps, TakeDayKeeps
<1>7. CASE \E st \in Outcomes : MeasureDay(a, st) BY <1>7, MeasureDayKeeps
<1>. QED BY <1>1, <1>2, <1>3, <1>4, <1>5, <1>6, <1>7 DEF WorkerStep

LEMMA ClientKeeps == ASSUME TrackingInv, NEW a \in Clients, ClientStep(a) PROVE TrackingInv'
<1>. a \in Threads
  BY DEF Threads
<1>1. CASE \E s \in Signals : SkipItem(a, s) \/ StartItem(a, s) \/ \E w \in Remeasured : StartManual(a, s, w)
  BY <1>1, SkipItemKeeps, StartItemKeeps, StartManualKeeps
<1>2. CASE \E q \in Requests : StartForward(a, q) BY <1>2, StartForwardKeeps
<1>3. CASE \E st \in Outcomes : ManualMeasure(a, st) \/ MeasureBaseline(a, st) \/ MeasureDay(a, st)
  BY <1>3, ManualMeasureKeeps, MeasureBaselineKeeps, MeasureDayKeeps
<1>4. CASE ReuseDay(a) BY <1>4, ReuseDayKeeps
<1>5. CASE DropDay(a) BY <1>5, DropDayKeeps
<1>6. CASE StartDay(a) BY <1>6, StartDayKeeps
<1>7. CASE FinishDay(a) BY <1>7, FinishDayKeeps
<1>8. CASE BlockDay(a) BY <1>8, BlockDayKeeps
<1>9. CASE EndItem(a) BY <1>9, EndItemKeeps
<1>10. CASE AnswerForward(a) BY <1>10, AnswerForwardKeeps
<1>11. CASE Dies(a) BY <1>11, DiesKeeps
<1>. QED BY <1>1, <1>2, <1>3, <1>4, <1>5, <1>6, <1>7, <1>8, <1>9, <1>10, <1>11 DEF ClientStep

LEMMA RequestKeeps == ASSUME TrackingInv, RequestStep PROVE TrackingInv'
BY RegisterKeeps, SetStatusKeeps, SetScheduleKeeps, ResetKeeps DEF RequestStep

LEMMA StutterKeeps == ASSUME TrackingInv, UNCHANGED vars PROVE TrackingInv'
<1>. UNCHANGED <<tables, plan, answer, resets, lock, ffLock, act, clock, faults, since>>
  BY DEF vars, requests, locks
<1>1. \A b \in Threads : Owns(b)' /\ AtCursor(b)' /\ OwnsItems(b)'
  BY StepOfNobody DEF tables
<1>. QED BY <1>1, TablesStay DEF TrackingInv, Typed

\* The types, the ownership of locks and the soundness of plans are invariant.
THEOREM Invariance == Spec => []TrackingInv
<1>1. TrackingInv /\ [Next]_vars => TrackingInv'
  BY WorkerKeeps, ClientKeeps, RequestKeeps, TimePassesKeeps, StutterKeeps DEF Next
<1>. QED BY <1>1, InitKeeps, PTL DEF Spec

\* The tables, lock files and jobs take the values TypeOK gives, in any
\* interleaving of any number of scheduler threads and requests.
THEOREM TrackingTypeCorrect == Spec => []TypeOK
<1>1. ASSUME TrackingInv PROVE TypeOK
  <2>1. \A s \in Signals : \A m \in meas[s] : m.start < m.end /\ m.status \in Outcomes
    BY <1>1 DEF TrackingInv, Typed, Rows
  <2>2. ASSUME NEW q \in Requests
        PROVE  /\ DOMAIN plan[q] \subseteq Signals /\ \A s \in DOMAIN plan[q] : plan[q][s] \in Items
               /\ DOMAIN answer[q] \subseteq Signals /\ \A s \in DOMAIN answer[q] : answer[q][s] \in Results
    <3>1. plan[q] \in Plans /\ answer[q] \in Answers
      BY <1>1 DEF TrackingInv, Typed
    <3>2. PICK D \in SUBSET Signals : plan[q] \in [D -> Items]
      BY <3>1 DEF Plans
    <3>3. PICK E \in SUBSET Signals : answer[q] \in [E -> Results]
      BY <3>1 DEF Answers
    <3>. QED BY <3>2, <3>3
  <2>3. \A a \in Threads : act[a].pc \in Jobs /\ act[a].signal \in Signals \cup {None}
    BY <1>1, JobParts DEF TrackingInv, Typed
  <2>. QED BY <1>1, <2>1, <2>2, <2>3 DEF TypeOK, TrackingInv, Typed
<1>. QED BY <1>1, Invariance, PTL

\* The day a scheduler works on stays the one the cursor is at until it is
\* recorded, however many schedulers, fast-forwards, resets and users there are.
THEOREM TicksHoldTheCursor == Spec => []CursorHeld
<1>1. TrackingInv => CursorHeld
  BY DEF TrackingInv, AtCursor, OnDay, CursorHeld, Threads
<1>. QED BY <1>1, Invariance, PTL

-----------------------------------------------------------------------------
(* Completed days have their measurements.                                 *)

\* A thread between add_measurement and finish has its row in the history.
Backs(b) ==
  act[b].pc = "recording" => Measured(DayWindow(act[b].end), act[b].got) \in meas[act[b].signal]

BackedInv == RunsBacked /\ \A b \in Threads : Backs(b)

\* What neither completes a day, takes a measurement away nor begins to record
\* keeps the two tables in agreement.
LEMMA BackedFrame ==
  ASSUME TrackingInv, BackedInv,
         \A s \in Signals : meas[s] \subseteq meas'[s],
         \A s \in Signals, d \in DayEnds : Completed(runs'[s][d]) => runs'[s][d] = runs[s][d],
         \A b \in Threads : act'[b] = act[b] \/ act'[b].pc # "recording"
  PROVE  BackedInv'
<1>1. RunsBacked'
  BY DEF BackedInv, RunsBacked
<1>2. ASSUME NEW b \in Threads PROVE Backs(b)'
  <2>1. CASE act'[b].pc # "recording"
    BY <2>1 DEF Backs
  <2>2. CASE act'[b] = act[b] /\ act[b].pc = "recording"
    <3>1. act[b].signal \in Signals
      BY <2>2 DEF TrackingInv, Owns, OnSignal
    <3>. QED BY <2>2, <3>1 DEF BackedInv, Backs
  <2>. QED BY <2>1, <2>2
<1>. QED BY <1>1, <1>2 DEF BackedInv

\* Saving a measurement loses none.
LEMMA SavedGrows ==
  ASSUME TrackingInv, NEW s \in Signals, NEW w, NEW st
  PROVE  /\ \A x \in Signals : meas[x] \subseteq Saved(s, w, st)[x]
         /\ Measured(w, st) \in Saved(s, w, st)[s]
BY DEF TrackingInv, Typed, Saved

LEMMA ItemDoneEnds ==
  ASSUME NEW job \in JobRecords, NEW s, NEW st
  PROVE  ItemDone(job, s, st).pc = "items"
BY DEF ItemDone, JobRecords

LEMMA DayDoneGoesOn ==
  ASSUME NEW job \in JobRecords, NEW d
  PROVE  DayDone(job, d).pc = "days"
BY DEF DayDone, JobRecords

LEMMA MeasureDayBacks ==
  ASSUME TrackingInv, BackedInv, NEW a \in Threads, NEW st \in Outcomes, MeasureDay(a, st)
  PROVE  BackedInv'
<1>. act \in [Threads -> JobRecords]
  BY DEF TrackingInv, Typed
<1> DEFINE s == act[a].signal
           w == DayWindow(act[a].end)
<1>1. s \in Signals
  BY DEF MeasureDay, TrackingInv, Owns, OnSignal
<1>2. meas' = Saved(s, w, st) /\ runs' = runs
  BY DEF MeasureDay
<1>3. (\A x \in Signals : meas[x] \subseteq meas'[x]) /\ Measured(w, st) \in meas'[s]
  BY <1>1, <1>2, SavedGrows
<1>4. /\ act'[a].end = act[a].end /\ act'[a].signal = s /\ act'[a].got = st
      /\ \A b \in Threads : b # a => act'[b] = act[b]
  BY DEF MeasureDay, JobRecords
<1>5. RunsBacked'
  BY <1>2, <1>3 DEF BackedInv, RunsBacked
<1>6. Backs(a)'
  BY <1>3, <1>4 DEF Backs
<1>7. ASSUME NEW b \in Threads, b # a PROVE Backs(b)'
  <2>1. act[b].pc = "recording" => act[b].signal \in Signals
    BY DEF TrackingInv, Owns, OnSignal
  <2>. QED BY <1>3, <1>4, <1>7, <2>1 DEF BackedInv, Backs
<1>. QED BY <1>5, <1>6, <1>7 DEF BackedInv

LEMMA FinishDayBacks ==
  ASSUME TrackingInv, BackedInv, NEW a \in Threads, FinishDay(a) PROVE BackedInv'
<1>. act \in [Threads -> JobRecords] /\ runs \in [Signals -> [DayEnds -> RunStates]]
  BY DEF TrackingInv, Typed
<1> DEFINE s == act[a].signal
           d == act[a].end
           got == act[a].got
<1>1. s \in Signals /\ d \in DayEnds /\ act[a].pc = "recording"
  BY DEF FinishDay, TrackingInv, Owns, OnSignal, OnDay
<1>2. meas' = meas /\ runs' = [runs EXCEPT ![s][d] = got]
  BY DEF FinishDay
<1>3. Measured(DayWindow(d), got) \in meas[s]
  BY <1>1 DEF BackedInv, Backs
<1>4. \A b \in Threads : act'[b] = act[b] \/ act'[b].pc # "recording"
  <2>1. act'[a].pc # "recording"
    <3>1. CASE a \in Workers
      BY <3>1, ZenonT(60) DEF FinishDay, Idle
    <3>2. CASE a \notin Workers
      BY <3>2, DayDoneGoesOn DEF FinishDay
    <3>. QED BY <3>1, <3>2
  <2>2. \A b \in Threads : b # a => act'[b] = act[b]
    BY DEF FinishDay
  <2>. QED BY <2>1, <2>2
<1>. HIDE DEF s, d, got
<1>5. RunsBacked'
  <2>1. ASSUME NEW x \in Signals, NEW y \in DayEnds, Completed(runs'[x][y])
        PROVE  Measured(DayWindow(y), runs'[x][y]) \in meas[x]
    <3>1. CASE x = s /\ y = d
      BY <1>1, <1>2, <1>3, <3>1
    <3>2. CASE ~(x = s /\ y = d)
      <4>1. runs'[x][y] = runs[x][y]
        BY <1>1, <1>2, <3>2
      <4>. QED BY <2>1, <4>1 DEF BackedInv, RunsBacked
    <3>. QED BY <3>1, <3>2
  <2>. QED BY <1>2, <2>1 DEF RunsBacked
<1>6. \A b \in Threads : Backs(b)'
  BY <1>2, <1>4 DEF BackedInv, Backs
<1>. QED BY <1>5, <1>6 DEF BackedInv

LEMMA ResetBacks ==
  ASSUME TrackingInv, BackedInv, NEW q \in Resets, NEW ss \in SUBSET Signals, NEW start \in DayEnds,
         Reset(q, ss, start)
  PROVE  BackedInv'
<1>1. /\ \A s \in ss : lock[s] = None
      /\ \A s \in Signals \ ss : runs'[s] = runs[s] /\ meas'[s] = meas[s]
      /\ \A s \in ss, d \in DayEnds : runs'[s][d] = "none"
      /\ act' = act
  BY DEF Reset, LockFree, NoRuns
<1>2. RunsBacked'
  BY <1>1 DEF BackedInv, RunsBacked, Completed
<1>3. ASSUME NEW b \in Threads PROVE Backs(b)'
  <2>1. act[b].pc = "recording" => act[b].signal \in Signals \ ss
    BY <1>1, TrackingAssumption DEF TrackingInv, Owns, OnSignal
  <2>. QED BY <1>1, <2>1 DEF BackedInv, Backs
<1>. QED BY <1>2, <1>3 DEF BackedInv

\* Rows that are taken or given up are not completed by it.
LEMMA RowsBack ==
  ASSUME TrackingInv, BackedInv, NEW a \in Threads,
         \/ a \in Workers /\ \E s \in Signals : TakeDay(a, s)
         \/ a \in Clients /\ (DropDay(a) \/ StartDay(a) \/ BlockDay(a))
  PROVE  BackedInv'
<1>. act \in [Threads -> JobRecords] /\ runs \in [Signals -> [DayEnds -> RunStates]]
  BY DEF TrackingInv, Typed
<1>1. meas' = meas
  BY DEF TakeDay, DropDay, StartDay, BlockDay
<1>2. ASSUME NEW s \in Signals, NEW d \in DayEnds, Completed(runs'[s][d])
      PROVE  runs'[s][d] = runs[s][d]
  <2>1. ASSUME NEW x \in Signals, TakeDay(a, x) PROVE runs'[s][d] = runs[s][d]
    BY <1>2, <2>1 DEF TakeDay, Started, Completed
  <2>2. CASE DropDay(a)
    BY <1>2, <2>2 DEF DropDay, Completed
  <2>3. CASE StartDay(a)
    BY <1>2, <2>3 DEF StartDay, Started, Completed
  <2>4. CASE BlockDay(a)
    BY <1>2, <2>4 DEF BlockDay, Completed
  <2>. QED BY <2>1, <2>2, <2>3, <2>4
<1>3. \A b \in Threads : b # a => act'[b] = act[b]
  BY DEF TakeDay, DropDay, StartDay, BlockDay
<1>4. act'[a] = act[a] \/ act'[a].pc # "recording"
  <2>1. ASSUME NEW x \in Signals, TakeDay(a, x) PROVE act'[a].pc = "measuring"
    BY <2>1 DEF TakeDay, JobRecords
  <2>2. CASE DropDay(a)
    BY <2>2 DEF DropDay
  <2>3. CASE StartDay(a)
    BY <2>3 DEF StartDay, JobRecords
  <2>4. CASE BlockDay(a)
    BY <2>4, ItemDoneEnds DEF BlockDay
  <2>. QED BY <2>1, <2>2, <2>3, <2>4
<1>. QED BY <1>1, <1>2, <1>3, <1>4, BackedFrame

\* Measurements outside the daily runs.
LEMMA MeasurementsBack ==
  ASSUME TrackingInv, BackedInv, NEW a \in Clients, NEW st \in Outcomes,
         ManualMeasure(a, st) \/ MeasureBaseline(a, st)
  PROVE  BackedInv'
<1>. a \in Threads /\ act \in [Threads -> JobRecords]
  BY DEF TrackingInv, Typed, Threads
<1>1. act[a].signal \in Signals
  BY DEF ManualMeasure, MeasureBaseline, TrackingInv, Owns, OnSignal
<1>2. \A s \in Signals : meas[s] \subseteq meas'[s]
  BY <1>1, SavedGrows DEF ManualMeasure, MeasureBaseline
<1>3. runs' = runs
  BY DEF ManualMeasure, MeasureBaseline
<1>4. \A b \in Threads : act'[b] = act[b] \/ act'[b].pc # "recording"
  BY DEF ManualMeasure, MeasureBaseline, Idle, JobRecords
<1>. QED BY <1>2, <1>3, <1>4, BackedFrame

\* Steps on locks and jobs alone.
LEMMA JobsBack ==
  ASSUME TrackingInv, BackedInv, NEW a \in Threads,
         \/ Tick(a) \/ EndTick(a) \/ DayFails(a) \/ Dies(a)
         \/ \E s \in Signals : PassOver(a, s) \/ SkipItem(a, s) \/ StartItem(a, s)
                               \/ \E w \in Remeasured : StartManual(a, s, w)
         \/ \E q \in Requests : StartForward(a, q)
         \/ ReuseDay(a) \/ EndItem(a) \/ AnswerForward(a)
  PROVE  BackedInv'
<1>. act \in [Threads -> JobRecords]
  BY DEF TrackingInv, Typed
<1>1. meas' = meas /\ runs' = runs
  BY DEF Tick, EndTick, DayFails, Dies, PassOver, SkipItem, StartItem, StartManual, StartForward,
         ReuseDay, EndItem, AnswerForward, tables
<1>2. \A b \in Threads : b # a => act'[b] = act[b]
  BY DEF Tick, EndTick, DayFails, Dies, PassOver, SkipItem, StartItem, StartManual, StartForward,
         ReuseDay, EndItem, AnswerForward
<1>3. act'[a].pc # "recording"
  <2>0. CASE Tick(a) \/ DayFails(a)
    BY <2>0 DEF Tick, DayFails, Idle
  <2>1. CASE EndTick(a) \/ Dies(a) \/ AnswerForward(a)
    BY <2>1 DEF EndTick, Dies, AnswerForward, Idle
  <2>2. CASE \E s \in Signals : SkipItem(a, s)
    BY <2>2, ItemDoneEnds DEF SkipItem
  <2>3. CASE EndItem(a)
    BY <2>3, ItemDoneEnds DEF EndItem
  <2>4. CASE \E s \in Signals : PassOver(a, s)
    BY <2>4 DEF PassOver, JobRecords
  <2>5. CASE \E s \in Signals : StartItem(a, s)
    BY <2>5, ZenonT(60) DEF StartItem, JobRecords
  <2>6. CASE \E s \in Signals, w \in Remeasured : StartManual(a, s, w)
    BY <2>6 DEF StartManual, Idle
  <2>7. CASE \E q \in Requests : StartForward(a, q)
    BY <2>7, ZenonT(60) DEF StartForward, Idle
  <2>8. CASE ReuseDay(a)
    BY <2>8, DayDoneGoesOn DEF ReuseDay
  <2>. QED BY <2>0, <2>1, <2>2, <2>3, <2>4, <2>5, <2>6, <2>7, <2>8
<1>. QED BY <1>1, <1>2, <1>3, BackedFrame

LEMMA RequestsBack ==
  ASSUME TrackingInv, BackedInv, RequestStep \/ TimePasses \/ UNCHANGED vars PROVE BackedInv'
<1>1. ASSUME NEW s \in Signals, NEW w \in Windows, Register(s, w) PROVE BackedInv'
  BY <1>1, SavedGrows, BackedFrame DEF Register
<1>2. ASSUME NEW q \in Resets, NEW ss \in SUBSET Signals, NEW d \in DayEnds, Reset(q, ss, d)
      PROVE  BackedInv'
  BY <1>2, ResetBacks
<1>3. CASE \/ \E s \in Signals, st \in Statuses : SetStatus(s, st)
           \/ \E s \in Signals, on \in Switches : \E n \in Placements \cup {next[s]} : SetSchedule(s, on, n)
           \/ TimePasses \/ UNCHANGED vars
  <2>1. UNCHANGED <<meas, runs, act>>
    BY <1>3 DEF SetStatus, SetSchedule, TimePasses, vars, tables
  <2>. QED BY <2>1, BackedFrame
<1>. QED BY <1>1, <1>2, <1>3 DEF RequestStep

\* A completed daily run has its measurement in the active history, whatever
\* crashes between the two transactions and whoever retries, resets or remeasures.
THEOREM CompletedDaysAreBacked == Spec => []RunsBacked
<1>1. Init => BackedInv
  BY DEF Init, BackedInv, RunsBacked, Backs, NoRuns, Completed, Idle
<1>2. TrackingInv /\ BackedInv /\ [Next]_vars => BackedInv'
  <2> SUFFICES ASSUME TrackingInv, BackedInv, [Next]_vars PROVE BackedInv'
    OBVIOUS
  <2>1. ASSUME NEW a \in Workers, WorkerStep(a) PROVE BackedInv'
    BY <2>1, MeasureDayBacks, FinishDayBacks, RowsBack, JobsBack, Zenon DEF WorkerStep, Threads
  <2>2. ASSUME NEW a \in Clients, ClientStep(a) PROVE BackedInv'
    BY <2>2, MeasureDayBacks, FinishDayBacks, RowsBack, MeasurementsBack, JobsBack DEF ClientStep, Threads
  <2>. QED BY <2>1, <2>2, RequestsBack DEF Next
<1>3. BackedInv => RunsBacked
  BY DEF BackedInv
<1>. QED BY <1>1, <1>2, <1>3, Invariance, PTL DEF Spec

-----------------------------------------------------------------------------
(* SignalTracking implements DailyLedger.  The ledger's result of a day is *)
(* its row once it is completed: recording a day is Work, dropping a       *)
(* failed one Retract, registration and a user's schedule Place, a reset   *)
(* StartOver, and every other step is invisible.                           *)

\* What the ledger sees of a row of the daily runs.
Seen(row) == IF Completed(row) THEN row ELSE "none"
Recorded == [s \in Signals |-> [d \in DayEnds |-> Seen(runs[s][d])]]

LEMMA RecordedRow ==
  ASSUME TrackingInv, NEW s \in Signals, NEW d \in DayEnds, NEW row,
         runs' = [runs EXCEPT ![s][d] = row]
  PROVE  Recorded' = [Recorded EXCEPT ![s][d] = Seen(row)]
<1>. runs \in [Signals -> [DayEnds -> RunStates]]
  BY DEF TrackingInv, Typed
<1>1. \A x \in Signals, y \in DayEnds :
        runs'[x][y] = IF x = s /\ y = d THEN row ELSE runs[x][y]
  OBVIOUS
<1>2. \A x \in Signals : Recorded'[x] = [Recorded EXCEPT ![s][d] = Seen(row)][x]
  <2>. TAKE x \in Signals
  <2>. QED BY <1>1 DEF Recorded
<1>. QED BY <1>2 DEF Recorded

\* A row that is not completed before or after is none of the ledger's.
LEMMA RecordedStays ==
  ASSUME TrackingInv, NEW s \in Signals, NEW d \in DayEnds, NEW row,
         runs' = [runs EXCEPT ![s][d] = row], Seen(row) = Seen(runs[s][d])
  PROVE  Recorded' = Recorded
<1>1. Recorded' = [Recorded EXCEPT ![s][d] = Recorded[s][d]]
  BY RecordedRow, ZenonT(60) DEF Recorded
<1>. QED BY <1>1 DEF Recorded

LEMMA LedgerFrame ==
  ASSUME next' = next, Recorded' = Recorded
  PROVE  UNCHANGED Ledger!ledger
BY DEF Ledger!ledger, Recorded, Seen

LEMMA StartedSeen ==
  ASSUME TrackingInv, NEW s \in Signals, NEW d \in DayEnds, runs' = Started(s, d)
  PROVE  Recorded' = Recorded
<1> DEFINE row == IF runs[s][d] = "none" THEN "running" ELSE runs[s][d]
<1>1. runs' = [runs EXCEPT ![s][d] = row]
  BY DEF Started
<1>2. Seen(row) = Seen(runs[s][d])
  BY DEF Seen, Completed
<1>. HIDE DEF row
<1>. QED BY <1>1, <1>2, RecordedStays

LEMMA FinishDayWorks ==
  ASSUME TrackingInv, NEW a \in Threads, FinishDay(a),
         NEW s, s = act[a].signal, NEW d, d = act[a].end
  PROVE  s \in Signals /\ d \in DayEnds /\ Ledger!Work(s, d)
<1> DEFINE got == act[a].got
<1>1. s \in Signals /\ d \in DayEnds /\ got \in Outcomes /\ next[s] > 0 /\ next[s] \in Nat
  BY DEF FinishDay, TrackingInv, Typed, Owns, OnSignal, OnDay, Placed
<1>2. /\ next' = [next EXCEPT ![s] = IF next[s] >= d + Day THEN next[s] ELSE d + Day]
      /\ runs' = [runs EXCEPT ![s][d] = got]
  BY DEF FinishDay, CursorAfter, Later
<1>. HIDE DEF got
<1>3. Recorded' = [Recorded EXCEPT ![s][d] = got]
  <2>1. Seen(got) = got
    BY <1>1 DEF Seen, Completed, Outcomes
  <2>2. Recorded' = [Recorded EXCEPT ![s][d] = Seen(got)]
    BY <1>1, <1>2, RecordedRow, ZenonT(60)
  <2>. QED BY <2>1, <2>2
<1>4. \E o \in Ledger!Outcomes : Recorded' = [Recorded EXCEPT ![s][d] = o]
  BY <1>1, <1>3 DEF Ledger!Outcomes, Outcomes
<1>5. next[s] # 0
  BY <1>1
<1>6. Ledger!Work(s, d)
  BY <1>2, <1>4, <1>5, Zenon DEF Ledger!Work, Recorded, Seen
<1>. QED BY <1>1, <1>6

LEMMA DropDayRetracts ==
  ASSUME TrackingInv, NEW a \in Clients, DropDay(a),
         NEW s, s = act[a].signal, NEW d, d = act[a].end
  PROVE  s \in Signals /\ d \in DayEnds /\ Ledger!Retract(s, d)
<1>0. act[a].pc = "days" /\ act[a].pc \in Forwarding /\ act[a].end <= ItemOf(a).end
  BY DEF DropDay, Forwarding
<1>1. s \in Signals /\ d \in DayEnds
  BY <1>0, ItemInHand, DayOfItem
<1>2. /\ runs[s][d] = "unavailable" /\ runs' = [runs EXCEPT ![s][d] = "none"] /\ next' = next
  BY DEF DropDay, Reusable, Completed
<1>3. Recorded[s][d] = "unavailable"
  BY <1>1, <1>2 DEF Recorded, Seen, Completed
<1>4. ASSUME NEW row, row = "none" PROVE Recorded' = [Recorded EXCEPT ![s][d] = row]
  <2>1. Seen(row) = row
    BY <1>4 DEF Seen
  <2>2. Recorded' = [Recorded EXCEPT ![s][d] = Seen(row)]
    BY <1>1, <1>2, <1>4, RecordedRow, ZenonT(60)
  <2>. QED BY <2>1, <2>2
<1>5. Recorded' = [Recorded EXCEPT ![s][d] = "none"]
  BY <1>4
<1>6. Ledger!Retract(s, d)
  BY <1>2, <1>3, <1>5, Zenon DEF Ledger!Retract, Recorded, Seen
<1>. QED BY <1>1, <1>6

LEMMA PlacingPlaces ==
  ASSUME NEW s \in Signals, NEW at, next \in [Signals -> Nat], at \in Nat, at > 0,
         next' = [next EXCEPT ![s] = at], runs' = runs
  PROVE  Ledger!Place(s)
<1>1. Recorded' = Recorded
  BY DEF Recorded
<1>. QED BY <1>1 DEF Ledger!Place, Recorded, Seen

LEMMA ResetStartsOver ==
  ASSUME TrackingInv, TrackingInv', NEW q \in Resets, NEW ss \in SUBSET Signals, NEW start \in DayEnds,
         Reset(q, ss, start)
  PROVE  Ledger!StartOver(ss)
<1>1. /\ next' = [s \in Signals |-> IF s \in ss THEN Later(NextMidnight(clock), start + Day) ELSE next[s]]
      /\ runs' = [s \in Signals |-> IF s \in ss THEN NoRuns ELSE runs[s]]
      /\ \A s \in ss : status[s] # "none" /\ status'[s] # "none"
  BY DEF Reset, Registered
<1>2. \A s \in ss : next[s] > 0 /\ next'[s] > 0 /\ next'[s] \in Nat /\ next[s] \in Nat
  BY <1>1 DEF TrackingInv, Typed, Placed
<1>3. Recorded' = [s \in Signals |-> IF s \in ss THEN [d \in DayEnds |-> "none"] ELSE Recorded[s]]
  BY <1>1 DEF Recorded, NoRuns, Seen
<1>. QED BY <1>1, <1>2, <1>3, SMTT(30) DEF Ledger!StartOver, Ledger!Blank, Recorded, Seen

LEMMA RowsUnchanged == ASSUME next' = next, runs' = runs PROVE UNCHANGED Ledger!ledger
<1>1. Recorded' = Recorded
  BY DEF Recorded
<1>. QED BY <1>1, LedgerFrame

\* A day is only started when its row is not a success, and blocked while it runs.
LEMMA StartingIsUnseen ==
  ASSUME TrackingInv, NEW a \in Threads,
         (\E s \in Signals : a \in Workers /\ TakeDay(a, s)) \/ (a \in Clients /\ StartDay(a))
  PROVE  UNCHANGED Ledger!ledger
<1>1. ASSUME NEW s \in Signals, a \in Workers, TakeDay(a, s) PROVE UNCHANGED Ledger!ledger
  <2>1. next[s] \in DayEnds /\ runs' = Started(s, next[s]) /\ next' = next
    BY <1>1, DueDay DEF TakeDay
  <2>. QED BY <2>1, StartedSeen, LedgerFrame
<1>2. ASSUME a \in Clients, StartDay(a) PROVE UNCHANGED Ledger!ledger
  <2>0. act[a].pc = "days" /\ act[a].pc \in Forwarding /\ act[a].end <= ItemOf(a).end
    BY <1>2 DEF StartDay, Forwarding
  <2>1. act[a].signal \in Signals /\ act[a].end \in DayEnds
    BY <1>2, <2>0, ItemInHand, DayOfItem
  <2>2. runs' = Started(act[a].signal, act[a].end) /\ next' = next
    BY <1>2 DEF StartDay
  <2>. QED BY <2>1, <2>2, StartedSeen, LedgerFrame
<1>. QED BY <1>1, <1>2

LEMMA BlockingIsUnseen ==
  ASSUME TrackingInv, NEW a \in Clients, BlockDay(a) PROVE UNCHANGED Ledger!ledger
<1> DEFINE s == act[a].signal
           d == act[a].end
           row == IF runs[s][d] = "running" THEN "none" ELSE runs[s][d]
<1>1. s \in Signals /\ d \in DayEnds
  BY DEF BlockDay, TrackingInv, Owns, OnSignal, OnDay, Threads
<1>2. runs' = [runs EXCEPT ![s][d] = row] /\ next' = next
  BY DEF BlockDay
<1>3. Seen(row) = Seen(runs[s][d])
  BY DEF Seen, Completed
<1>. HIDE DEF s, d, row
<1>. QED BY <1>1, <1>2, <1>3, RecordedStays, LedgerFrame

LEMMA ThreadMaps ==
  ASSUME TrackingInv, NEW a \in Threads, (a \in Workers /\ WorkerStep(a)) \/ (a \in Clients /\ ClientStep(a))
  PROVE  Ledger!LedgerNext \/ UNCHANGED Ledger!ledger
<1>1. CASE FinishDay(a)
  BY <1>1, FinishDayWorks, Zenon DEF Ledger!LedgerNext
<1>2. CASE a \in Clients /\ DropDay(a)
  BY <1>2, DropDayRetracts, Zenon DEF Ledger!LedgerNext
<1>3. CASE (\E s \in Signals : a \in Workers /\ TakeDay(a, s)) \/ (a \in Clients /\ StartDay(a))
  BY <1>3, StartingIsUnseen
<1>4. CASE a \in Clients /\ BlockDay(a)
  BY <1>4, BlockingIsUnseen
<1>5. CASE \/ Tick(a) \/ EndTick(a) \/ DayFails(a) \/ Dies(a)
           \/ \E s \in Signals : PassOver(a, s)
           \/ \E st \in Outcomes : MeasureDay(a, st)
  <2>1. next' = next /\ runs' = runs
    BY <1>5 DEF Tick, EndTick, DayFails, Dies, PassOver, MeasureDay, tables
  <2>. QED BY <2>1, RowsUnchanged
<1>6. CASE \/ \E s \in Signals : SkipItem(a, s) \/ StartItem(a, s) \/ \E w \in Remeasured : StartManual(a, s, w)
           \/ \E q \in Requests : StartForward(a, q)
           \/ \E st \in Outcomes : ManualMeasure(a, st) \/ MeasureBaseline(a, st)
           \/ ReuseDay(a) \/ EndItem(a) \/ AnswerForward(a)
  <2>1. next' = next /\ runs' = runs
    BY <1>6 DEF SkipItem, StartItem, StartManual, StartForward, ManualMeasure, MeasureBaseline,
                ReuseDay, EndItem, AnswerForward, tables
  <2>. QED BY <2>1, RowsUnchanged
<1>. QED BY <1>1, <1>2, <1>3, <1>4, <1>5, <1>6, Zenon DEF WorkerStep, ClientStep

LEMMA RequestMaps ==
  ASSUME TrackingInv, TrackingInv', RequestStep
  PROVE  Ledger!LedgerNext \/ UNCHANGED Ledger!ledger
<1>. next \in [Signals -> Nat]
  BY DEF TrackingInv, Typed
<1>1. ASSUME NEW s \in Signals, NEW w \in Windows, Register(s, w)
      PROVE  Ledger!LedgerNext \/ UNCHANGED Ledger!ledger
  <2>1. CASE s \in Registered
    <3>1. next' = next /\ runs' = runs
      BY <1>1, <2>1 DEF Register
    <3>. QED BY <3>1, RowsUnchanged
  <2>2. CASE s \notin Registered
    <3>1. next' = [next EXCEPT ![s] = NextMidnight(clock)] /\ runs' = runs
      BY <1>1, <2>2 DEF Register
    <3>2. NextMidnight(clock) \in Nat /\ NextMidnight(clock) > 0
      <4>1. clock \in Nat
        BY TrackingAssumption DEF TrackingInv, Typed
      <4>. QED BY <4>1, MidnightFacts
    <3>3. Ledger!Place(s)
      BY <3>1, <3>2, PlacingPlaces
    <3>. QED BY <3>3, Zenon DEF Ledger!LedgerNext
  <2>. QED BY <2>1, <2>2
<1>2. ASSUME NEW s \in Signals, NEW st \in Statuses, SetStatus(s, st)
      PROVE  UNCHANGED Ledger!ledger
  BY <1>2, RowsUnchanged DEF SetStatus
<1>3. ASSUME NEW s \in Signals, NEW on \in Switches, NEW at \in Placements \cup {next[s]},
             SetSchedule(s, on, at)
      PROVE  Ledger!LedgerNext
  <2>1. next' = [next EXCEPT ![s] = at] /\ runs' = runs /\ status[s] # "none"
    BY <1>3 DEF SetSchedule, Registered
  <2>2. at \in Nat /\ at > 0
    <3>1. CASE at \in Placements
      BY <3>1, TrackingAssumption
    <3>2. CASE at = next[s]
      BY <2>1, <3>2 DEF TrackingInv, Typed, Placed
    <3>. QED BY <3>1, <3>2
  <2>3. Ledger!Place(s)
    BY <2>1, <2>2, PlacingPlaces
  <2>. QED BY <2>3, Zenon DEF Ledger!LedgerNext
<1>4. ASSUME NEW q \in Resets, NEW ss \in SUBSET Signals, NEW d \in DayEnds, Reset(q, ss, d)
      PROVE  Ledger!LedgerNext
  <2>1. Ledger!StartOver(ss)
    BY <1>4, ResetStartsOver
  <2>. QED BY <2>1, Zenon DEF Ledger!LedgerNext
<1>. QED BY <1>1, <1>2, <1>3, <1>4, Zenon DEF RequestStep

LEMMA InitMaps == Init => Ledger!LedgerInit
<1>. SUFFICES ASSUME Init PROVE Ledger!LedgerInit
  OBVIOUS
<1>1. \A s \in Signals, d \in DayEnds : runs[s][d] = "none"
  BY DEF Init, NoRuns
<1>. QED BY <1>1 DEF Init, Ledger!LedgerInit, Ledger!Blank, Completed

\* Schedulers, fast-forwards, resets, users, crashes and failed days together
\* behave as the ledger: one day recorded at a time, the cursor never moved
\* back by work, nothing forgotten but failed days and what a reset ends.
THEOREM TrackingImplementsLedger == Spec => ImplementsDailyLedger
<1>1. TrackingInv /\ TrackingInv' /\ [Next]_vars => [Ledger!LedgerNext]_(Ledger!ledger)
  <2> SUFFICES ASSUME TrackingInv, TrackingInv', [Next]_vars
               PROVE  Ledger!LedgerNext \/ UNCHANGED Ledger!ledger
    OBVIOUS
  <2>1. ASSUME NEW a \in Workers, WorkerStep(a) PROVE Ledger!LedgerNext \/ UNCHANGED Ledger!ledger
    BY <2>1, ThreadMaps DEF Threads
  <2>2. ASSUME NEW a \in Clients, ClientStep(a) PROVE Ledger!LedgerNext \/ UNCHANGED Ledger!ledger
    BY <2>2, ThreadMaps DEF Threads
  <2>3. CASE TimePasses \/ UNCHANGED vars
    <3>1. next' = next /\ runs' = runs
      BY <2>3 DEF TimePasses, vars, tables
    <3>. QED BY <3>1, RowsUnchanged
  <2>. QED BY <2>1, <2>2, <2>3, RequestMaps, Zenon DEF Next
<1>. QED BY <1>1, InitMaps, Invariance, PTL DEF Spec, ImplementsDailyLedger, Ledger!LedgerSpec
-----------------------------------------------------------------------------
(* Fast-forwards. What they say of the days they replayed is true, what    *)
(* they still have to do was planned since the last reset, and a request   *)
(* id means one plan and one answer for ever.                              *)
(*                                                                         *)
(* What makes it so: only one fast-forward is under way, whose request has *)
(* no answer yet (Forwards), so that no reset ends its plan meanwhile; it  *)
(* has come to some day e of each of its items, all of them successes up   *)
(* to there (Upto), whose rows nobody else touches, as it holds the locks; *)
(* and a reset leaves a success to plan from (Restarted).                  *)

\* The ends of the days from midnight x to midnight y.
Between(x, y) == {d \in DayEnds : x < d /\ d <= y}

\* Thread a has replayed item s up to e, and that is what it will say.
Upto(a, s, e) ==
  LET r == Result(a, s)
      item == plan[act[a].request][s] IN
  /\ Midnight(e) /\ item.start <= e /\ e <= item.end
  /\ r.days = Between(item.start, e)
  /\ \A d \in r.days : runs[s][d] = "success"
  /\ r.status = "completed" => e = item.end
  /\ r.status = "blocked" => e < item.end /\ runs[s][e + Day] # "success"
  /\ r.status = "pending" => IF act[a].signal = s THEN act[a].end = e + Day ELSE e = item.start

\* The day in hand is one of the item's, and was no success when it was begun.
Handles(a) ==
  /\ act[a].pc = "items" <=> act[a].signal = None
  /\ act[a].pc # "items" => Result(a, act[a].signal).status = "pending"
  /\ act[a].pc \in OnDay => act[a].end <= ItemOf(a).end
  /\ act[a].pc = "measuring" => runs[act[a].signal][act[a].end] # "success"
  /\ act[a].pc = "recording" => act[a].got = "success"

Forwards(a) ==
  /\ act[a].request # None <=> act[a].pc \in Forwarding
  /\ act[a].pc \in Forwarding =>
       /\ ffLock = a /\ answer[act[a].request] = NoAnswer
       /\ \A s \in DOMAIN act[a].results : \E e \in Nat : Upto(a, s, e)
       /\ Handles(a)

PlansWhole == \A q \in Requests : \A s \in DOMAIN plan[q] : Midnight(plan[q][s].end)

Restarted == \A s \in Signals : since[s] # 0 => Measured(DayWindow(since[s]), "success") \in meas[s]

PlansInv == PlansWhole /\ Restarted /\ PlansCurrent

HonestInv == PlansInv /\ \A a \in Clients : Forwards(a)

-----------------------------------------------------------------------------
(* Days between midnights.                                                 *)

LEMMA NextBetween ==
  ASSUME NEW x \in Nat, NEW e \in Nat, Midnight(x), Midnight(e), x <= e, e + Day <= Horizon
  PROVE  e + Day \in DayEnds /\ Between(x, e + Day) = Between(x, e) \cup {e + Day}
<1>1. e + Day \in DayEnds
  BY TrackingAssumption, SMT DEF DayEnds, Midnight, Day
<1>2. ASSUME NEW d \in DayEnds PROVE (x < d /\ d <= e + Day) <=> ((x < d /\ d <= e) \/ d = e + Day)
  BY TrackingAssumption, SMT DEF DayEnds, Midnight, Day
<1>. QED BY <1>1, <1>2 DEF Between

LEMMA BetweenNone ==
  ASSUME NEW x \in Nat
  PROVE  Between(x, x) = {}
BY TrackingAssumption, SMT DEF Between, DayEnds, Day

LEMMA BetweenCount ==
  ASSUME NEW x \in Nat, NEW e \in Nat, Midnight(x), Midnight(e), x <= e, e <= Horizon
  PROVE  x + Day * Cardinality(Between(x, e)) = e
<1>1. PICK n \in Nat : e = x + 2 * n
  <2>1. \E n \in Nat : e = x + 2 * n
    <3>1. (e - x) \div 2 \in Nat /\ e = x + 2 * ((e - x) \div 2)
      BY SMT DEF Midnight, Day
    <3>. QED BY <3>1
  <2>. QED BY <2>1
<1> DEFINE f == [i \in 1..n |-> x + 2 * i]
<1>2. f \in Bijection(1..n, Between(x, e))
  <2>1. ASSUME NEW i \in 1..n PROVE f[i] \in Between(x, e)
    BY <1>1, TrackingAssumption, SMT DEF Between, DayEnds, Midnight, Day
  <2>2. \A i, j \in 1..n : f[i] = f[j] => i = j
    OBVIOUS
  <2>3. ASSUME NEW d \in Between(x, e) PROVE \E i \in 1..n : f[i] = d
    <3>1. d \in Nat /\ d % 2 = 0 /\ x % 2 = 0 /\ x < d /\ d <= e
      BY TrackingAssumption DEF Between, DayEnds, Midnight, Day
    <3>2. (d - x) \div 2 \in 1..n /\ x + 2 * ((d - x) \div 2) = d
      BY <1>1, <3>1, SMT
    <3>. QED BY <3>2
  <2>4. f \in [1..n -> Between(x, e)]
    BY <2>1
  <2>. QED BY <2>2, <2>3, <2>4 DEF Bijection, Injection, Surjection, IsInjective
<1>. HIDE DEF f
<1>3. IsFiniteSet(1..n) /\ Cardinality(1..n) = n
  BY FS_Interval
<1>4. Cardinality(Between(x, e)) = n
  BY <1>2, <1>3, FS_Bijection DEF ExistsBijection
<1>. QED BY <1>1, <1>4 DEF Day

-----------------------------------------------------------------------------
(* What a step leaves of a fast-forward.                                   *)

LEMMA ItemDoneResult ==
  ASSUME NEW job \in JobRecords, NEW s \in DOMAIN job.results, NEW st
  PROVE  LET done == ItemDone(job, s, st)
         IN  /\ done.pc = "items" /\ done.signal = None /\ done.request = job.request
             /\ DOMAIN done.results = DOMAIN job.results
             /\ done.results[s].status = st /\ done.results[s].days = job.results[s].days
             /\ \A x \in DOMAIN job.results : x # s => done.results[x] = job.results[x]
<1>1. PICK ss \in SUBSET Signals : job.results \in [ss -> Results]
  BY JobParts DEF Answers
<1> DEFINE r == [job.results[s] EXCEPT !.status = st]
           rs == [job.results EXCEPT ![s] = r]
           done == ItemDone(job, s, st)
<1>2. done = [job EXCEPT !.pc = "items", !.signal = None, !.end = 0, !.got = "none", !.results = rs]
  BY DEF ItemDone, JobRecords
<1>3. r.status = st /\ r.days = job.results[s].days
  BY <1>1 DEF Results
<1>4. DOMAIN rs = DOMAIN job.results /\ rs[s] = r /\ \A x \in DOMAIN job.results : x # s => rs[x] = job.results[x]
  BY <1>1
<1>. HIDE DEF r, rs, done
<1>5. done.pc = "items" /\ done.signal = None /\ done.request = job.request /\ done.results = rs
  BY <1>2 DEF JobRecords
<1>. QED BY <1>3, <1>4, <1>5 DEF done

LEMMA DayDoneResult ==
  ASSUME NEW job \in JobRecords, job.signal \in DOMAIN job.results, NEW d
  PROVE  LET done == DayDone(job, d)
         IN  /\ done.pc = "days" /\ done.signal = job.signal /\ done.request = job.request
             /\ done.end = d + Day /\ DOMAIN done.results = DOMAIN job.results
             /\ done.results[job.signal].status = job.results[job.signal].status
             /\ done.results[job.signal].days = job.results[job.signal].days \cup {d}
             /\ \A x \in DOMAIN job.results : x # job.signal => done.results[x] = job.results[x]
<1>1. PICK ss \in SUBSET Signals : job.results \in [ss -> Results]
  BY JobParts DEF Answers
<1> DEFINE s == job.signal
           r == [job.results[s] EXCEPT !.days = @ \cup {d}]
           rs == [job.results EXCEPT ![s] = r]
           done == DayDone(job, d)
<1>2. done = [job EXCEPT !.pc = "days", !.end = d + Day, !.got = "none", !.results = rs]
  BY DEF DayDone, JobRecords
<1>3. r.status = job.results[s].status /\ r.days = job.results[s].days \cup {d}
  BY <1>1 DEF Results
<1>4. DOMAIN rs = DOMAIN job.results /\ rs[s] = r /\ \A x \in DOMAIN job.results : x # s => rs[x] = job.results[x]
  BY <1>1
<1>. HIDE DEF r, rs, done
<1>5. /\ done.pc = "days" /\ done.signal = s /\ done.request = job.request /\ done.end = d + Day
      /\ done.results = rs
  BY <1>2 DEF JobRecords
<1>. QED BY <1>3, <1>4, <1>5 DEF done

\* The rows of s, as far as a fast-forward depends on them.
SameSuccesses(s) == \A d \in DayEnds : runs'[s][d] = "success" <=> runs[s][d] = "success"

\* The item x stays where it is.
LEMMA UptoStays ==
  ASSUME TrackingInv, PlansWhole, NEW a \in Clients, act[a].pc \in Forwarding, UNCHANGED plan,
         act'[a].request = act[a].request,
         NEW x \in DOMAIN act[a].results, act'[a].results[x] = act[a].results[x], SameSuccesses(x),
         NEW e \in Nat, Upto(a, x, e),
         act[a].results[x].status = "pending" =>
           IF act'[a].signal = x THEN act'[a].end = e + Day ELSE e = plan[act[a].request][x].start
  PROVE  Upto(a, x, e)'
<1> DEFINE item == plan[act[a].request][x]
           r == act[a].results[x]
<1>1. /\ item.start \in Nat /\ Midnight(item.start) /\ item.end \in Nat /\ item.end <= Horizon
      /\ x \in DOMAIN plan[act[a].request] /\ act[a].request \in Requests
  BY ItemInHand
<1>2. /\ Midnight(e) /\ item.start <= e /\ e <= item.end
      /\ r.days = Between(item.start, e)
      /\ \A d \in r.days : runs[x][d] = "success"
      /\ r.status = "completed" => e = item.end
      /\ r.status = "blocked" => e < item.end /\ runs[x][e + Day] # "success"
  BY DEF Upto, Result
<1>3. \A d \in r.days : runs'[x][d] = "success"
  BY <1>2 DEF SameSuccesses, Between
<1>4. Midnight(item.end)
  BY <1>1 DEF PlansWhole
<1>5. ASSUME r.status = "blocked" PROVE runs'[x][e + Day] # "success"
  <2>1. e < item.end /\ runs[x][e + Day] # "success"
    BY <1>2, <1>5
  <2>2. e + Day \in DayEnds
    BY <1>1, <1>2, <1>4, <2>1, TrackingAssumption, SMT DEF Midnight, Day, DayEnds
  <2>. QED BY <2>1, <2>2 DEF SameSuccesses
<1>6. plan'[act'[a].request][x] = item /\ act'[a].results[x] = r
  OBVIOUS
<1>7. r.status = "pending" => IF act'[a].signal = x THEN act'[a].end = e + Day ELSE e = item.start
  OBVIOUS
<1>. HIDE DEF item, r
<1>. QED BY <1>2, <1>3, <1>5, <1>6, <1>7 DEF Upto, Result, Between

\* A step that stays on the item in hand.
LEMMA StaysOnItem ==
  ASSUME TrackingInv, PlansWhole, NEW a \in Clients, act[a].pc \in Forwarding \ {"items"}, Forwards(a),
         act'[a].pc \in Forwarding \ {"items"}, act'[a].request = act[a].request,
         act'[a].results = act[a].results, act'[a].signal = act[a].signal, act'[a].end = act[a].end,
         UNCHANGED <<plan, answer, ffLock>>,
         \A s \in DOMAIN act[a].results : SameSuccesses(s),
         Handles(a)'
  PROVE  Forwards(a)'
<1>1. /\ act[a].request # None /\ ffLock = a /\ answer[act[a].request] = NoAnswer
      /\ \A s \in DOMAIN act[a].results : \E e \in Nat : Upto(a, s, e)
  BY DEF Forwards
<1>2. ASSUME NEW s \in DOMAIN act[a].results PROVE \E e \in Nat : Upto(a, s, e)'
  <2>1. PICK e \in Nat : Upto(a, s, e)
    BY <1>1
  <2>2. act[a].results[s].status = "pending" =>
          IF act'[a].signal = s THEN act'[a].end = e + Day ELSE e = plan[act[a].request][s].start
    BY <2>1 DEF Upto, Result
  <2>3. Upto(a, s, e)'
    BY <2>1, <2>2, UptoStays
  <2>. QED BY <2>3
<1>3. \A s \in DOMAIN act'[a].results : \E e \in Nat : Upto(a, s, e)'
  BY <1>2
<1>. QED BY <1>1, <1>3 DEF Forwards

\* What a fast-forward has in hand while it works on an item.
LEMMA InHand ==
  ASSUME TrackingInv, PlansWhole, NEW a \in Clients, act[a].pc \in Forwarding \ {"items"}, Forwards(a)
  PROVE  /\ act[a].signal \in DOMAIN act[a].results /\ act[a].signal \in Signals
         /\ ItemOf(a).end \in Nat /\ ItemOf(a).end <= Horizon /\ Midnight(ItemOf(a).end)
         /\ ItemOf(a).start \in Nat /\ Midnight(ItemOf(a).start)
         /\ \E e \in Nat : Upto(a, act[a].signal, e) /\ act[a].end = e + Day
         /\ Result(a, act[a].signal).status = "pending"
<1>1. /\ act[a].signal \in DOMAIN act[a].results /\ act[a].signal \in Signals
      /\ ItemOf(a).end \in Nat /\ ItemOf(a).end <= Horizon
      /\ ItemOf(a).start \in Nat /\ Midnight(ItemOf(a).start)
      /\ act[a].request \in Requests /\ act[a].signal \in DOMAIN plan[act[a].request]
  BY ItemInHand DEF ItemOf
<1>2. Midnight(ItemOf(a).end)
  BY <1>1 DEF PlansWhole, ItemOf
<1>3. Handles(a) /\ \E e \in Nat : Upto(a, act[a].signal, e)
  BY <1>1 DEF Forwards
<1>4. Result(a, act[a].signal).status = "pending"
  BY <1>3 DEF Handles
<1>5. \E e \in Nat : Upto(a, act[a].signal, e) /\ act[a].end = e + Day
  BY <1>3, <1>4 DEF Upto
<1>. QED BY <1>1, <1>2, <1>4, <1>5

-----------------------------------------------------------------------------
(* The steps of a fast-forward.                                            *)

LEMMA StartItemForwards ==
  ASSUME TrackingInv, PlansWhole, NEW a \in Clients, NEW s \in Signals, Forwards(a), StartItem(a, s)
  PROVE  Forwards(a)'
<1> DEFINE item == plan[act[a].request][s]
<1>1. /\ act[a].pc = "items" /\ act[a].pc \in Forwarding /\ s \in DOMAIN act[a].results
      /\ Result(a, s).status = "pending"
      /\ UNCHANGED <<plan, answer, ffLock, runs>>
  BY DEF StartItem, Forwarding, requests, locks, tables
<1>2. a \in Threads /\ act[a] \in JobRecords /\ act \in [Threads -> JobRecords]
  BY <1>1, ItemInHand DEF TrackingInv, Typed
<1>3. /\ act'[a].signal = s /\ act'[a].end = item.start + Day /\ act'[a].pc \in {"days", "baseline"}
      /\ act'[a].request = act[a].request /\ act'[a].results = act[a].results
  BY <1>2 DEF StartItem, JobRecords
<1>4. /\ act[a].request # None /\ ffLock = a /\ answer[act[a].request] = NoAnswer
      /\ act[a].signal = None
      /\ \A x \in DOMAIN act[a].results : \E e \in Nat : Upto(a, x, e)
  BY <1>1 DEF Forwards, Handles
<1>5. ASSUME NEW x \in DOMAIN act[a].results PROVE \E e \in Nat : Upto(a, x, e)'
  <2>1. PICK e \in Nat : Upto(a, x, e)
    BY <1>4
  <2>2. x \in Signals /\ None \notin Signals
    BY <1>1, ItemInHand, TrackingAssumption
  <2>3. act[a].results[x].status = "pending" => e = plan[act[a].request][x].start
    BY <1>4, <2>1, <2>2 DEF Upto, Result
  <2>4. act[a].results[x].status = "pending" =>
          IF act'[a].signal = x THEN act'[a].end = e + Day ELSE e = plan[act[a].request][x].start
    BY <1>3, <2>3
  <2>5. Upto(a, x, e)'
    BY <1>1, <1>3, <2>1, <2>4, UptoStays DEF SameSuccesses
  <2>. QED BY <2>5
<1>6. Handles(a)'
  <2>1. s # None
    BY TrackingAssumption
  <2>. QED BY <1>1, <1>3, <2>1 DEF Handles, OnDay, Result
<1>7. \A x \in DOMAIN act'[a].results : \E e \in Nat : Upto(a, x, e)'
  BY <1>3, <1>5
<1>8. act'[a].pc \in Forwarding
  BY <1>3 DEF Forwarding
<1>. QED BY <1>1, <1>3, <1>4, <1>6, <1>7, <1>8 DEF Forwards

LEMMA MeasureBaselineForwards ==
  ASSUME TrackingInv, PlansWhole, NEW a \in Clients, NEW st \in Outcomes, Forwards(a),
         MeasureBaseline(a, st)
  PROVE  Forwards(a)'
<1>1. /\ act[a].pc = "baseline" /\ act[a].pc \in Forwarding /\ act[a].pc \in Forwarding \ {"items"}
      /\ UNCHANGED <<plan, answer, ffLock, runs>>
  BY DEF MeasureBaseline, Forwarding, requests, locks
<1>2. a \in Threads /\ act \in [Threads -> JobRecords]
  BY <1>1, ItemInHand DEF TrackingInv, Typed
<1>3. /\ act'[a].pc = "days" /\ act'[a].request = act[a].request /\ act'[a].results = act[a].results
      /\ act'[a].signal = act[a].signal /\ act'[a].end = act[a].end
  BY <1>2 DEF MeasureBaseline, JobRecords
<1>4. Handles(a)'
  BY <1>1, <1>3 DEF Handles, Forwards, OnDay, Result
<1>. QED BY <1>1, <1>3, <1>4, StaysOnItem DEF SameSuccesses, Forwarding

LEMMA DropDayForwards ==
  ASSUME TrackingInv, PlansWhole, NEW a \in Clients, Forwards(a), DropDay(a)
  PROVE  Forwards(a)'
<1>1. /\ act[a].pc = "days" /\ act[a].pc \in Forwarding /\ act[a].pc \in Forwarding \ {"items"}
      /\ UNCHANGED <<plan, answer, ffLock, act>>
      /\ act[a].end <= ItemOf(a).end
  BY DEF DropDay, Forwarding, requests, locks
<1>2. act[a].signal \in Signals /\ act[a].end \in DayEnds
  BY <1>1, InHand, DayOfItem
<1>3. runs \in [Signals -> [DayEnds -> RunStates]] /\ runs[act[a].signal][act[a].end] # "success"
      /\ runs' = [runs EXCEPT ![act[a].signal][act[a].end] = "none"]
  BY DEF DropDay, TrackingInv, Typed, Reusable
<1>4. \A s \in Signals : SameSuccesses(s)
  BY <1>2, <1>3 DEF SameSuccesses
<1>5. \A s \in DOMAIN act[a].results : SameSuccesses(s)
  BY <1>1, <1>4, ItemInHand
<1>6. Handles(a)'
  BY <1>1 DEF Handles, Forwards, OnDay, Result
<1>. QED BY <1>1, <1>5, <1>6, StaysOnItem

LEMMA StartDayForwards ==
  ASSUME TrackingInv, PlansWhole, NEW a \in Clients, Forwards(a), StartDay(a)
  PROVE  Forwards(a)'
<1>1. /\ act[a].pc = "days" /\ act[a].pc \in Forwarding /\ act[a].pc \in Forwarding \ {"items"}
      /\ UNCHANGED <<plan, answer, ffLock>>
      /\ act[a].end <= ItemOf(a).end
  BY DEF StartDay, Forwarding, requests, locks
<1>2. act[a].signal \in Signals /\ act[a].end \in DayEnds
  BY <1>1, InHand, DayOfItem
<1>3. runs \in [Signals -> [DayEnds -> RunStates]] /\ runs[act[a].signal][act[a].end] # "success"
      /\ runs' = [runs EXCEPT ![act[a].signal][act[a].end] = IF @ = "none" THEN "running" ELSE @]
  BY DEF StartDay, Started, TrackingInv, Typed, Reusable
<1>4. (\A s \in Signals : SameSuccesses(s)) /\ runs'[act[a].signal][act[a].end] # "success"
  BY <1>2, <1>3 DEF SameSuccesses
<1>5. \A s \in DOMAIN act[a].results : SameSuccesses(s)
  BY <1>1, <1>4, ItemInHand
<1>6. a \in Threads /\ act \in [Threads -> JobRecords]
  BY <1>1, ItemInHand DEF TrackingInv, Typed
<1>7. /\ act'[a].pc = "measuring" /\ act'[a].request = act[a].request /\ act'[a].results = act[a].results
      /\ act'[a].signal = act[a].signal /\ act'[a].end = act[a].end
  BY <1>6 DEF StartDay, JobRecords
<1>8. Handles(a)'
  BY <1>1, <1>4, <1>7 DEF Handles, Forwards, Result, ItemOf
<1>. QED BY <1>1, <1>5, <1>7, <1>8, StaysOnItem DEF Forwarding

LEMMA MeasureDayForwards ==
  ASSUME TrackingInv, PlansWhole, NEW a \in Clients, NEW st \in Outcomes, Forwards(a), MeasureDay(a, st)
  PROVE  Forwards(a)'
<1>1. /\ act[a].pc = "measuring" /\ act[a].pc \in Forwarding /\ act[a].pc \in Forwarding \ {"items"}
      /\ UNCHANGED <<plan, answer, ffLock, runs>> /\ st = "success"
  BY TrackingAssumption DEF MeasureDay, Forwarding, requests, locks
<1>2. a \in Threads /\ act \in [Threads -> JobRecords]
  BY <1>1, ItemInHand DEF TrackingInv, Typed
<1>3. /\ act'[a].pc = "recording" /\ act'[a].request = act[a].request /\ act'[a].results = act[a].results
      /\ act'[a].signal = act[a].signal /\ act'[a].end = act[a].end /\ act'[a].got = "success"
  BY <1>1, <1>2 DEF MeasureDay, JobRecords
<1>4. Handles(a)'
  BY <1>1, <1>3 DEF Handles, Forwards, OnDay, Result, ItemOf
<1>. QED BY <1>1, <1>3, <1>4, StaysOnItem DEF SameSuccesses, Forwarding

\* An item that is done as it stands.
LEMMA EndsItemForwards ==
  ASSUME TrackingInv, PlansWhole, NEW a \in Clients, act[a].pc \in Forwarding, Forwards(a),
         NEW s \in DOMAIN act[a].results, NEW st \in {"completed", "skipped", "blocked"},
         act[a].pc # "items" => act[a].signal = s,
         act' = [act EXCEPT ![a] = ItemDone(act[a], s, st)],
         UNCHANGED <<plan, answer, ffLock>>,
         \A x \in DOMAIN act[a].results : SameSuccesses(x),
         NEW e \in Nat, Upto(a, s, e),
         st = "completed" => e = plan[act[a].request][s].end,
         st = "blocked" => e < plan[act[a].request][s].end /\ runs'[s][e + Day] # "success"
  PROVE  Forwards(a)'
<1>1. a \in Threads /\ act[a] \in JobRecords /\ act \in [Threads -> JobRecords]
  BY ItemInHand DEF TrackingInv, Typed
<1> DEFINE item == plan[act[a].request][s]
           done == ItemDone(act[a], s, st)
<1>2. /\ done.pc = "items" /\ done.signal = None /\ done.request = act[a].request
      /\ DOMAIN done.results = DOMAIN act[a].results
      /\ done.results[s].status = st /\ done.results[s].days = act[a].results[s].days
      /\ \A x \in DOMAIN act[a].results : x # s => done.results[x] = act[a].results[x]
  BY <1>1, ItemDoneResult
<1>3. act'[a] = done
  BY <1>1
<1>. HIDE DEF done
<1>4. /\ act[a].request # None /\ ffLock = a /\ answer[act[a].request] = NoAnswer
      /\ \A x \in DOMAIN act[a].results : \E f \in Nat : Upto(a, x, f)
      /\ Handles(a)
  BY DEF Forwards
<1>5. Upto(a, s, e)'
  <2>1. /\ Midnight(e) /\ item.start <= e /\ e <= item.end
        /\ act[a].results[s].days = Between(item.start, e)
        /\ \A d \in act[a].results[s].days : runs[s][d] = "success"
    BY DEF Upto, Result
  <2>2. \A d \in act[a].results[s].days : runs'[s][d] = "success"
    BY <2>1 DEF SameSuccesses, Between
  <2>3. act'[a].results[s].days = act[a].results[s].days /\ act'[a].results[s].status = st
    BY <1>2, <1>3
  <2>4. plan'[act'[a].request][s] = item
    BY <1>2, <1>3
  <2>5. /\ st = "completed" => e = item.end
        /\ st = "blocked" => e < item.end /\ runs'[s][e + Day] # "success"
        /\ st # "pending"
    OBVIOUS
  <2>. HIDE DEF item
  <2>. QED BY <2>1, <2>2, <2>3, <2>4, <2>5 DEF Upto, Result, Between
<1>6. ASSUME NEW x \in DOMAIN act[a].results, x # s PROVE \E f \in Nat : Upto(a, x, f)'
  <2>1. PICK f \in Nat : Upto(a, x, f)
    BY <1>4
  <2>2. act[a].signal # x
    <3>1. x \in Signals /\ None \notin Signals
      BY ItemInHand, TrackingAssumption
    <3>. QED BY <1>4, <1>6, <3>1 DEF Handles
  <2>3. act[a].results[x].status = "pending" => f = plan[act[a].request][x].start
    BY <2>1, <2>2 DEF Upto, Result
  <2>4. act'[a].signal # x
    BY <1>2, <1>3, ItemInHand, TrackingAssumption
  <2>5. /\ act'[a].request = act[a].request /\ act'[a].results[x] = act[a].results[x]
        /\ act[a].results[x].status = "pending" =>
             IF act'[a].signal = x THEN act'[a].end = f + Day ELSE f = plan[act[a].request][x].start
    BY <1>2, <1>3, <1>6, <2>3, <2>4
  <2>6. Upto(a, x, f)'
    BY <2>1, <2>5, UptoStays
  <2>. QED BY <2>6
<1>7. \A x \in DOMAIN act'[a].results : \E f \in Nat : Upto(a, x, f)'
  BY <1>2, <1>3, <1>5, <1>6
<1>8. Handles(a)'
  BY <1>2, <1>3 DEF Handles, OnDay
<1>9. act'[a].pc \in Forwarding /\ act'[a].request = act[a].request
  BY <1>2, <1>3 DEF Forwarding
<1>. QED BY <1>4, <1>7, <1>8, <1>9 DEF Forwards

\* One more day of the item in hand.
LEMMA DayDoneForwards ==
  ASSUME TrackingInv, PlansWhole, NEW a \in Clients, act[a].pc \in Forwarding \ {"items"}, Forwards(a),
         act[a].end <= ItemOf(a).end,
         act' = [act EXCEPT ![a] = DayDone(act[a], act[a].end)],
         UNCHANGED <<plan, answer, ffLock>>,
         \A x \in DOMAIN act[a].results : x # act[a].signal => SameSuccesses(x),
         \A d \in DayEnds : runs[act[a].signal][d] = "success" => runs'[act[a].signal][d] = "success",
         runs'[act[a].signal][act[a].end] = "success"
  PROVE  Forwards(a)'
<1>1. a \in Threads /\ act[a] \in JobRecords /\ act \in [Threads -> JobRecords]
  BY ItemInHand DEF TrackingInv, Typed
<1>10. act[a].signal \in DOMAIN act[a].results
  BY InHand
<1>11. PICK s \in DOMAIN act[a].results : s = act[a].signal
  BY <1>10
<1> DEFINE item == plan[act[a].request][s]
           done == DayDone(act[a], act[a].end)
<1>0. /\ s \in DOMAIN act[a].results /\ s \in Signals
      /\ item.end \in Nat /\ item.end <= Horizon /\ Midnight(item.end)
      /\ item.start \in Nat /\ Midnight(item.start)
      /\ Result(a, s).status = "pending"
  BY <1>11, InHand DEF ItemOf
<1>2. /\ done.pc = "days" /\ done.signal = s /\ done.request = act[a].request
      /\ done.end = act[a].end + Day /\ DOMAIN done.results = DOMAIN act[a].results
      /\ done.results[s].status = act[a].results[s].status
      /\ done.results[s].days = act[a].results[s].days \cup {act[a].end}
      /\ \A x \in DOMAIN act[a].results : x # s => done.results[x] = act[a].results[x]
  BY <1>1, <1>10, <1>11, DayDoneResult
<1>3. act'[a] = done
  BY <1>1
<1>. HIDE DEF done
<1>4. /\ act[a].request # None /\ ffLock = a /\ answer[act[a].request] = NoAnswer
      /\ \A x \in DOMAIN act[a].results : \E f \in Nat : Upto(a, x, f)
      /\ Handles(a)
  BY DEF Forwards
<1>5. \E f \in Nat : Upto(a, s, f)'
  <2>1. PICK e \in Nat : Upto(a, s, e) /\ act[a].end = e + Day
    BY <1>11, InHand
  <2>2. /\ Midnight(e) /\ item.start <= e /\ e <= item.end
        /\ act[a].results[s].days = Between(item.start, e)
        /\ \A d \in act[a].results[s].days : runs[s][d] = "success"
    BY <2>1 DEF Upto, Result
  <2>3. e + Day <= item.end
    BY <1>11, <2>1 DEF ItemOf
  <2>9. plan'[act'[a].request][s] = item /\ act'[a].signal = s /\ act'[a].end = (e + Day) + Day
    BY <1>2, <1>3, <2>1
  <2>. HIDE DEF item
  <2>4. e + Day \in DayEnds /\ Between(item.start, e + Day) = Between(item.start, e) \cup {e + Day}
    <3>1. e + Day <= Horizon
      <4>1. item.end \in Nat /\ item.end <= Horizon /\ Horizon \in Nat
        BY <1>0, TrackingAssumption
      <4>. QED BY <2>3, <4>1, SMT DEF Day
    <3>. QED BY <1>0, <2>2, <3>1, NextBetween
  <2>5. Midnight(e + Day) /\ item.start <= e + Day /\ e + Day \in Nat
    <3>1. Midnight(e + Day)
      BY <2>2, MidnightFacts
    <3>2. item.start \in Nat /\ item.start <= e
      BY <1>0, <2>2
    <3>3. item.start <= e + Day /\ e + Day \in Nat
      BY <3>2, SMT DEF Day
    <3>. QED BY <3>1, <3>3
  <2>6. act'[a].results[s].days = Between(item.start, e + Day) /\ act'[a].results[s].status = "pending"
    BY <1>0, <1>2, <1>3, <2>1, <2>2, <2>4 DEF Result
  <2>7. \A d \in Between(item.start, e) : runs'[s][d] = "success"
    BY <1>11, <2>2 DEF Between
  <2>8. \A d \in act'[a].results[s].days : runs'[s][d] = "success"
    <3>1. act[a].end = e + Day /\ runs'[s][e + Day] = "success"
      BY <1>11, <2>1
    <3>. QED BY <2>4, <2>6, <2>7, <3>1
  <2>10. Upto(a, s, e + Day)'
    BY <2>3, <2>5, <2>6, <2>8, <2>9 DEF Upto, Result, Between
  <2>. QED BY <2>5, <2>10
<1>6. ASSUME NEW x \in DOMAIN act[a].results, x # s PROVE \E f \in Nat : Upto(a, x, f)'
  <2>1. PICK f \in Nat : Upto(a, x, f)
    BY <1>4
  <2>2. act[a].results[x].status = "pending" => f = plan[act[a].request][x].start
    BY <1>6, <1>11, <2>1 DEF Upto, Result
  <2>3. act'[a].signal # x
    BY <1>2, <1>3, <1>6
  <2>4. /\ act'[a].request = act[a].request /\ act'[a].results[x] = act[a].results[x]
        /\ act[a].results[x].status = "pending" =>
             IF act'[a].signal = x THEN act'[a].end = f + Day ELSE f = plan[act[a].request][x].start
    BY <1>2, <1>3, <1>6, <2>2, <2>3
  <2>5. SameSuccesses(x) /\ act[a].pc \in Forwarding
    BY <1>6, <1>11
  <2>6. Upto(a, x, f)'
    BY <2>1, <2>4, <2>5, UptoStays
  <2>. QED BY <2>6
<1>7. \A x \in DOMAIN act'[a].results : \E f \in Nat : Upto(a, x, f)'
  BY <1>2, <1>3, <1>5, <1>6
<1>8. Handles(a)'
  <2>1. s # None
    BY <1>0, TrackingAssumption
  <2>2. act'[a].pc = "days" /\ act'[a].signal = s /\ act'[a].results[s].status = "pending"
    BY <1>0, <1>2, <1>3 DEF Result
  <2>. QED BY <2>1, <2>2 DEF Handles, OnDay, Result
<1>9. act'[a].pc \in Forwarding /\ act'[a].request = act[a].request
  BY <1>2, <1>3 DEF Forwarding
<1>. QED BY <1>4, <1>7, <1>8, <1>9 DEF Forwards

LEMMA SkipItemForwards ==
  ASSUME TrackingInv, PlansWhole, NEW a \in Clients, NEW s \in Signals, Forwards(a), SkipItem(a, s)
  PROVE  Forwards(a)'
<1>1. /\ act[a].pc = "items" /\ act[a].pc \in Forwarding /\ s \in DOMAIN act[a].results
      /\ act' = [act EXCEPT ![a] = ItemDone(act[a], s, "skipped")]
      /\ UNCHANGED <<plan, answer, ffLock, runs>>
  BY DEF SkipItem, Forwarding, requests, locks, tables
<1>2. PICK e \in Nat : Upto(a, s, e)
  BY <1>1 DEF Forwards
<1>3. \A x \in DOMAIN act[a].results : SameSuccesses(x)
  BY <1>1 DEF SameSuccesses
<1>. QED BY <1>1, <1>2, <1>3, EndsItemForwards

LEMMA EndItemForwards ==
  ASSUME TrackingInv, PlansWhole, NEW a \in Clients, Forwards(a), EndItem(a)
  PROVE  Forwards(a)'
<1>1. /\ act[a].pc \in Forwarding \ {"items"} /\ act[a].end > ItemOf(a).end
      /\ UNCHANGED <<plan, answer, ffLock, runs>>
  BY DEF EndItem, Forwarding, requests, locks, tables
<1>2. act[a].signal \in DOMAIN act[a].results
  BY <1>1, InHand
<1>3. PICK s \in DOMAIN act[a].results : s = act[a].signal
  BY <1>2
<1>4. act' = [act EXCEPT ![a] = ItemDone(act[a], s, "completed")]
  BY <1>3 DEF EndItem
<1>5. PICK e \in Nat : Upto(a, s, e) /\ act[a].end = e + Day
  BY <1>1, <1>3, InHand
<1>6. e = plan[act[a].request][s].end
  <2>1. ItemOf(a).end \in Nat /\ Midnight(ItemOf(a).end) /\ ItemOf(a).end = plan[act[a].request][s].end
    BY <1>1, <1>3, InHand DEF ItemOf
  <2>2. Midnight(e) /\ e <= plan[act[a].request][s].end
    BY <1>5 DEF Upto
  <2>. QED BY <1>1, <1>5, <2>1, <2>2, SMT DEF Midnight, Day
<1>7. \A x \in DOMAIN act[a].results : SameSuccesses(x)
  BY <1>1 DEF SameSuccesses
<1>. QED BY <1>1, <1>3, <1>4, <1>5, <1>6, <1>7, EndsItemForwards

LEMMA BlockDayForwards ==
  ASSUME TrackingInv, PlansWhole, NEW a \in Clients, Forwards(a), BlockDay(a)
  PROVE  Forwards(a)'
<1>1. /\ act[a].pc = "measuring" /\ act[a].pc \in Forwarding \ {"items"} /\ act[a].pc \in Forwarding
      /\ UNCHANGED <<plan, answer, ffLock>>
  BY DEF BlockDay, Forwarding, requests, locks
<1>2. act[a].signal \in DOMAIN act[a].results /\ act[a].signal \in Signals
  BY <1>1, InHand
<1>3. PICK s \in DOMAIN act[a].results : s = act[a].signal
  BY <1>2
<1>4. /\ act' = [act EXCEPT ![a] = ItemDone(act[a], s, "blocked")]
      /\ runs' = [runs EXCEPT ![s][act[a].end] = IF @ = "running" THEN "none" ELSE @]
  BY <1>3 DEF BlockDay
<1>5. PICK e \in Nat : Upto(a, s, e) /\ act[a].end = e + Day
  BY <1>1, <1>3, InHand
<1>6. /\ act[a].end <= plan[act[a].request][s].end
      /\ runs[s][act[a].end] # "success"
  BY <1>1, <1>3 DEF Forwards, Handles, OnDay, ItemOf
<1>7. act[a].end \in DayEnds
  BY <1>1 DEF TrackingInv, Owns, OnDay, Threads
<1>8. runs \in [Signals -> [DayEnds -> RunStates]]
  BY DEF TrackingInv, Typed
<1>9. (\A x \in Signals : SameSuccesses(x)) /\ runs'[s][act[a].end] # "success"
  BY <1>2, <1>3, <1>4, <1>6, <1>7, <1>8 DEF SameSuccesses
<1>10. \A x \in DOMAIN act[a].results : SameSuccesses(x)
  BY <1>1, <1>9, ItemInHand
<1>11. e < plan[act[a].request][s].end /\ runs'[s][e + Day] # "success"
  <2>1. plan[act[a].request][s].end \in Nat
    BY <1>1, ItemInHand
  <2>. QED BY <1>5, <1>6, <1>9, <2>1 DEF Day
<1>. QED BY <1>1, <1>3, <1>4, <1>5, <1>10, <1>11, EndsItemForwards

LEMMA ReuseDayForwards ==
  ASSUME TrackingInv, PlansWhole, NEW a \in Clients, Forwards(a), ReuseDay(a)
  PROVE  Forwards(a)'
<1>1. /\ act[a].pc \in Forwarding \ {"items"} /\ act[a].end <= ItemOf(a).end
      /\ act' = [act EXCEPT ![a] = DayDone(act[a], act[a].end)]
      /\ UNCHANGED <<plan, answer, ffLock, runs>>
      /\ runs'[act[a].signal][act[a].end] = "success"
  BY DEF ReuseDay, Reusable, Forwarding, requests, locks, tables
<1>2. \A x \in DOMAIN act[a].results : SameSuccesses(x)
  BY <1>1 DEF SameSuccesses
<1>. QED BY <1>1, <1>2, DayDoneForwards

LEMMA FinishDayForwards ==
  ASSUME TrackingInv, PlansWhole, NEW a \in Clients, Forwards(a), FinishDay(a)
  PROVE  Forwards(a)'
<1>1. /\ act[a].pc = "recording" /\ act[a].pc \in Forwarding \ {"items"} /\ act[a].pc \in Forwarding
      /\ UNCHANGED <<plan, answer, ffLock>>
      /\ act' = [act EXCEPT ![a] = DayDone(act[a], act[a].end)]
  BY TrackingAssumption DEF FinishDay, Forwarding, requests
<1>2. act[a].got = "success" /\ act[a].end <= ItemOf(a).end
  BY <1>1 DEF Forwards, Handles, OnDay
<1>3. act[a].end \in DayEnds /\ act[a].signal \in Signals
  BY <1>1, InHand DEF TrackingInv, Owns, OnDay, Threads
<1>4. /\ runs \in [Signals -> [DayEnds -> RunStates]]
      /\ runs' = [runs EXCEPT ![act[a].signal][act[a].end] = "success"]
  BY <1>2 DEF TrackingInv, Typed, FinishDay
<1>5. \A x \in Signals : x # act[a].signal => SameSuccesses(x)
  BY <1>3, <1>4 DEF SameSuccesses
<1>6. \A x \in DOMAIN act[a].results : x # act[a].signal => SameSuccesses(x)
  BY <1>1, <1>5, ItemInHand
<1>7. /\ \A d \in DayEnds : runs[act[a].signal][d] = "success" => runs'[act[a].signal][d] = "success"
      /\ runs'[act[a].signal][act[a].end] = "success"
  BY <1>3, <1>4
<1>. QED BY <1>1, <1>2, <1>6, <1>7, DayDoneForwards

-----------------------------------------------------------------------------
(* Plans, and the steps that begin and end a fast-forward.                 *)

\* A thread whose fast-forward nothing touches.
LEMMA OthersForward ==
  ASSUME TrackingInv, NEW b \in Clients, act'[b] = act[b], Forwards(b),
         act[b].pc \in Forwarding => UNCHANGED <<ffLock, plan, answer>>,
         \A s \in Signals : lock[s] = b => runs'[s] = runs[s]
  PROVE  Forwards(b)'
<1>1. CASE act[b].pc \notin Forwarding
  BY <1>1 DEF Forwards
<1>2. CASE act[b].pc \in Forwarding
  <2>1. /\ act[b].request # None /\ ffLock = b /\ answer[act[b].request] = NoAnswer
        /\ \A s \in DOMAIN act[b].results : \E e \in Nat : Upto(b, s, e)
        /\ Handles(b)
    BY <1>2 DEF Forwards
  <2>2. /\ \A s \in DOMAIN act[b].results : runs'[s] = runs[s]
        /\ act[b].pc # "items" => act[b].signal \in DOMAIN act[b].results
    BY <1>2, ItemInHand
  <2>3. ASSUME NEW s \in DOMAIN act[b].results PROVE \E e \in Nat : Upto(b, s, e)'
    <3>1. PICK e \in Nat : Upto(b, s, e)
      BY <2>1
    <3>2. Upto(b, s, e)'
      BY <1>2, <2>2, <3>1 DEF Upto, Result, Between
    <3>. QED BY <3>2
  <2>4. Handles(b)'
    BY <1>2, <2>1, <2>2 DEF Handles, Result, ItemOf, OnDay
  <2>5. \A s \in DOMAIN act'[b].results : \E e \in Nat : Upto(b, s, e)'
    BY <2>3
  <2>. QED BY <1>2, <2>1, <2>4, <2>5 DEF Forwards
<1>. QED BY <1>1, <1>2

\* A step of thread a, which forwards alone or leaves requests alone.
LEMMA StepForwards ==
  ASSUME TrackingInv, \A b \in Clients : Forwards(b), NEW a \in Threads,
         \A b \in Threads : b # a => act'[b] = act[b],
         a \in Clients => Forwards(a)',
         ffLock \in {a, None} \/ UNCHANGED <<ffLock, plan, answer>>,
         \A s \in Signals : lock[s] \notin {a, None} => runs'[s] = runs[s]
  PROVE  \A b \in Clients : Forwards(b)'
<1>1. ASSUME NEW b \in Clients, b # a PROVE Forwards(b)'
  <2>1. act[b].pc \in Forwarding => ffLock = b
    BY DEF Forwards
  <2>2. b # None /\ b \in Threads
    BY TrackingAssumption DEF Threads
  <2>3. act'[b] = act[b] /\ Forwards(b)
    BY <1>1, <2>2
  <2>4. act[b].pc \in Forwarding => UNCHANGED <<ffLock, plan, answer>>
    BY <1>1, <2>1, <2>2
  <2>5. \A s \in Signals : lock[s] = b => runs'[s] = runs[s]
    BY <1>1, <2>2
  <2>. QED BY <2>3, <2>4, <2>5, OthersForward
<1>. QED BY <1>1

LEMMA IdleForwards ==
  ASSUME NEW a \in Clients, act'[a].pc \notin Forwarding, act'[a].request = None
  PROVE  Forwards(a)'
BY DEF Forwards

\* Steps that plan nothing.
LEMMA PlansFrame ==
  ASSUME TrackingInv, PlansInv, UNCHANGED <<plan, since>>,
         \A q \in Requests : answer'[q] = NoAnswer => answer[q] = NoAnswer,
         \A s \in Signals : meas[s] \subseteq meas'[s]
  PROVE  PlansInv'
<1>1. PlansWhole'
  BY DEF PlansInv, PlansWhole
<1>2. Restarted'
  BY DEF PlansInv, Restarted
<1>3. PlansCurrent'
  BY DEF PlansInv, PlansCurrent
<1>. QED BY <1>1, <1>2, <1>3 DEF PlansInv

\* A new item is whole, and starts after the last restart.
LEMMA ItemCurrent ==
  ASSUME TrackingInv, PlansInv, NEW s \in Signals, NEW n \in Nat
  PROVE  /\ Midnight(Item(s, n).end)
         /\ Item(s, n).status = "completed" => Item(s, n).start >= since[s]
<1>1. CASE ~Tracked(s) \/ Successes(s) = {}
  <2>1. Item(s, n) = [status |-> "skipped", start |-> 0, end |-> 0]
    BY <1>1 DEF Item
  <2>2. Midnight(0)
    BY SMT DEF Midnight, Day
  <2>. QED BY <2>1, <2>2
<1>2. CASE ~(~Tracked(s) \/ Successes(s) = {})
  <2> DEFINE p == PlanStart(s)
             l == LastSuccess(s)
             S == {m.end : m \in Successes(s)}
  <2>1. Item(s, n) = [status |-> "completed", start |-> p, end |-> p + n * Day]
    BY <1>2 DEF Item
  <2>2. p \in Nat /\ Midnight(p)
    BY <1>2, PlanStartFacts
  <2>3. S \subseteq 0..Horizon /\ S # {}
    <3>1. meas[s] \in SUBSET Rows
      BY DEF TrackingInv, Typed
    <3>2. \A m \in Successes(s) : m.end \in 0..Horizon
      BY <3>1 DEF Successes, Rows
    <3>. QED BY <1>2, <3>2
  <2>4. l \in S /\ \A m \in Successes(s) : m.end <= l
    <3>1. \E t \in S : \A u \in S : u <= t
      <4>. HIDE DEF S
      <4>. QED BY <2>3, GreatestExists, TrackingAssumption
    <3>2. \E t \in S : \A m \in Successes(s) : m.end <= t
      BY <3>1
    <3>. QED BY <3>2 DEF LastSuccess
  <2>5. l \in Nat /\ since[s] \in Nat
    BY <2>3, <2>4, TrackingAssumption DEF TrackingInv, Typed
  <2>6. since[s] <= l
    <3>1. CASE since[s] = 0
      BY <2>5, <3>1
    <3>2. CASE since[s] # 0
      <4>1. Measured(DayWindow(since[s]), "success") \in Successes(s)
        BY <3>2 DEF PlansInv, Restarted, Successes, Measured
      <4>2. Measured(DayWindow(since[s]), "success").end = since[s]
        BY DEF Measured, DayWindow
      <4>. QED BY <2>4, <4>1, <4>2
    <3>. QED BY <3>1, <3>2
  <2>7. ASSUME NEW t \in Nat, t = l PROVE p >= t
    <3>1. p = IF t % 2 = 0 THEN t ELSE t - (t % 2) + 2
      BY <2>7, SMT DEF PlanStart, NextMidnight, Day
    <3>. QED BY <3>1, SMT
  <2>. HIDE DEF p, l, S
  <2>8. Midnight(p + n * Day)
    BY <2>2, SMT DEF Midnight, Day
  <2>. QED BY <2>1, <2>2, <2>5, <2>6, <2>7, <2>8
<1>. QED BY <1>1, <1>2

LEMMA StartForwardPlans ==
  ASSUME TrackingInv, PlansInv, NEW a \in Clients, NEW q \in Requests, StartForward(a, q)
  PROVE  PlansInv'
<1>1. plan' = [plan EXCEPT ![q] = Planned(q)] /\ UNCHANGED <<answer, meas, since>>
  BY DEF StartForward, tables
<1>2. ASSUME NEW s \in DOMAIN Planned(q)
      PROVE  /\ Midnight(Planned(q)[s].end)
             /\ answer[q] = NoAnswer /\ Planned(q)[s].status = "completed" => Planned(q)[s].start >= since[s]
  <2>1. CASE plan[q] # NoPlan
    BY <2>1 DEF Planned, PlansInv, PlansWhole, PlansCurrent
  <2>2. CASE plan[q] = NoPlan
    <3>1. Planned(q) = [x \in Chosen(q) |-> Item(x, DaysOf[q])]
      BY <2>2 DEF Planned
    <3>2. s \in Signals /\ DaysOf[q] \in Nat /\ Planned(q)[s] = Item(s, DaysOf[q])
      BY <3>1, TrackingAssumption DEF Chosen, Registered
    <3>. QED BY <3>2, ItemCurrent
  <2>. QED BY <2>1, <2>2
<1>3. plan \in [Requests -> Plans]
  BY DEF TrackingInv, Typed
<1>. HIDE DEF TrackingInv
<1>4. PlansWhole'
  BY <1>1, <1>2, <1>3 DEF PlansInv, PlansWhole
<1>5. PlansCurrent'
  BY <1>1, <1>2, <1>3 DEF PlansInv, PlansCurrent
<1>6. Restarted'
  BY <1>1 DEF PlansInv, Restarted
<1>. QED BY <1>4, <1>5, <1>6 DEF PlansInv

LEMMA StartForwardForwards ==
  ASSUME TrackingInv, PlansInv, NEW a \in Clients, NEW q \in Requests, StartForward(a, q)
  PROVE  Forwards(a)'
<1> DEFINE items == Planned(q)
           rs == [s \in DOMAIN items |-> [status |-> "pending", days |-> {}]]
<1>1. /\ items \in Plans
      /\ \A s \in DOMAIN items : /\ Midnight(items[s].start)
                                 /\ items[s].start <= items[s].end /\ items[s].end <= Horizon
  BY PlannedFacts DEF StartForward
<1>2. \A s \in DOMAIN items : items[s].start \in Nat
  BY <1>1 DEF Plans, Items
<1>3. /\ plan' = [plan EXCEPT ![q] = items] /\ ffLock' = a /\ answer' = answer /\ answer[q] = NoAnswer
      /\ act'[a] = [Idle EXCEPT !.pc = "items", !.request = q, !.results = rs]
  BY DEF StartForward, TrackingInv, Typed, Threads
<1>4. plan'[q] = items
  BY <1>3 DEF TrackingInv, Typed
<1>5. DOMAIN rs = DOMAIN items /\ \A s \in DOMAIN items : rs[s].status = "pending" /\ rs[s].days = {}
  OBVIOUS
<1>. HIDE DEF items, rs
<1>6. act'[a].pc = "items" /\ act'[a].request = q /\ act'[a].results = rs /\ act'[a].signal = None
  BY <1>3 DEF Idle
<1>7. ASSUME NEW s \in DOMAIN items PROVE \E e \in Nat : Upto(a, s, e)'
  <2>1. PICK e \in Nat : e = items[s].start
    BY <1>2
  <2>2. Between(e, e) = {}
    BY BetweenNone
  <2>3. s \in Signals
    BY <1>1 DEF Plans
  <2>4. act'[a].results[s].status = "pending" /\ act'[a].results[s].days = {} /\ plan'[act'[a].request][s] = items[s]
        /\ act'[a].signal # s
    BY <1>4, <1>5, <1>6, <2>3, TrackingAssumption
  <2>5. Midnight(items[s].start) /\ items[s].start <= items[s].end
    BY <1>1
  <2>6. items[s].start <= e
    BY <2>1
  <2>7. Upto(a, s, e)'
    BY <2>1, <2>2, <2>4, <2>5, <2>6, Zenon DEF Upto, Result, Between
  <2>. QED BY <2>7
<1>8. Handles(a)'
  BY <1>6 DEF Handles, OnDay
<1>9. q # None /\ act'[a].pc \in Forwarding
  BY <1>6, TrackingAssumption DEF Forwarding
<1>10. \A s \in DOMAIN act'[a].results : \E e \in Nat : Upto(a, s, e)'
  BY <1>5, <1>6, <1>7
<1>. QED BY <1>3, <1>6, <1>8, <1>9, <1>10 DEF Forwards

LEMMA ResetPlans ==
  ASSUME TrackingInv, PlansInv, NEW q \in Resets, NEW ss \in SUBSET Signals, NEW start \in DayEnds,
         Reset(q, ss, start)
  PROVE  PlansInv'
<1>1. /\ plan' = [r \in Requests |-> Ended(r, ss)] /\ answer' = answer
      /\ meas' = [s \in Signals |-> IF s \in ss THEN {Measured(DayWindow(start), "success")} ELSE meas[s]]
      /\ since' = [s \in Signals |-> IF s \in ss THEN start ELSE since[s]]
  BY DEF Reset
<1>2. PlansWhole'
  BY <1>1, EndedFacts DEF PlansInv, PlansWhole
<1>3. Restarted'
  BY <1>1 DEF PlansInv, Restarted
<1>4. ASSUME NEW r \in Requests, answer'[r] = NoAnswer, NEW s \in DOMAIN plan'[r],
             plan'[r][s].status = "completed"
      PROVE  plan'[r][s].start >= since'[s]
  <2>1. /\ s \in DOMAIN plan[r] /\ answer[r] = NoAnswer /\ plan'[r] = Ended(r, ss)
        /\ plan'[r][s].start = plan[r][s].start
    BY <1>1, <1>4, EndedFacts
  <2>2. PICK D \in SUBSET Signals : plan[r] \in [D -> Items]
    BY DEF TrackingInv, Typed, Plans
  <2>3. s \in Signals /\ plan[r][s] \in Items
    BY <2>1, <2>2
  <2>4. plan'[r][s] = IF s \in ss THEN [plan[r][s] EXCEPT !.status = "skipped"] ELSE plan[r][s]
    BY <2>1 DEF Ended
  <2>5. s \notin ss
    BY <1>4, <2>3, <2>4 DEF Items
  <2>6. plan[r][s].status = "completed" /\ since'[s] = since[s]
    BY <1>1, <1>4, <2>3, <2>4, <2>5
  <2>. QED BY <2>1, <2>6 DEF PlansInv, PlansCurrent
<1>5. PlansCurrent'
  BY <1>4 DEF PlansCurrent
<1>. QED BY <1>2, <1>3, <1>5 DEF PlansInv

-----------------------------------------------------------------------------
(* The invariant holds throughout.                                         *)

LEMMA WorkerForwards ==
  ASSUME TrackingInv, HonestInv, NEW a \in Workers, WorkerStep(a) PROVE HonestInv'
<1>. a \in Threads /\ a \notin Clients /\ act \in [Threads -> JobRecords]
     /\ runs \in [Signals -> [DayEnds -> RunStates]] /\ lock \in [Signals -> Threads \cup {None}]
  BY TrackingAssumption DEF Threads, TrackingInv, Typed
<1>0. ffLock # a
  BY TrackingAssumption DEF TrackingInv, Typed
<1>1. UNCHANGED <<plan, answer, since>>
  BY DEF WorkerStep, Tick, EndTick, FinishDay, DayFails, Dies, PassOver, TakeDay, MeasureDay, requests
<1>2. ffLock' = ffLock
  BY <1>0 DEF WorkerStep, Tick, EndTick, FinishDay, DayFails, Dies, PassOver, TakeDay, MeasureDay, locks
<1>3. \A b \in Threads : b # a => act'[b] = act[b]
  BY DEF WorkerStep, Tick, EndTick, FinishDay, DayFails, Dies, PassOver, TakeDay, MeasureDay
<1>4. \A s \in Signals : lock[s] \notin {a, None} => runs'[s] = runs[s]
  <2>1. CASE FinishDay(a)
    <3>1. lock[act[a].signal] = a
      BY <2>1 DEF FinishDay, TrackingInv, Owns, OnSignal
    <3>. QED BY <2>1, <3>1 DEF FinishDay
  <2>2. ASSUME NEW x \in Signals, TakeDay(a, x)
        PROVE  \A s \in Signals : lock[s] \notin {a, None} => runs'[s] = runs[s]
    BY <2>2 DEF TakeDay, LockFree, Started
  <2>3. CASE Tick(a) \/ EndTick(a) \/ DayFails(a) \/ Dies(a) \/ \E s \in Signals : PassOver(a, s)
    BY <2>3 DEF Tick, EndTick, DayFails, Dies, PassOver, tables
  <2>4. CASE \E st \in Outcomes : MeasureDay(a, st)
    BY <2>4 DEF MeasureDay
  <2>. QED BY <2>1, <2>2, <2>3, <2>4 DEF WorkerStep
<1>5. \A s \in Signals : meas[s] \subseteq meas'[s]
  <2>1. ASSUME NEW st \in Outcomes, MeasureDay(a, st) PROVE \A s \in Signals : meas[s] \subseteq meas'[s]
    BY <2>1, SavedGrows DEF MeasureDay, TrackingInv, Owns, OnSignal
  <2>2. CASE ~\E st \in Outcomes : MeasureDay(a, st)
    <3>1. meas' = meas
      BY <2>2 DEF WorkerStep, Tick, EndTick, FinishDay, DayFails, Dies, PassOver, TakeDay, tables
    <3>. QED BY <3>1
  <2>. QED BY <2>1, <2>2
<1>6. PlansInv'
  BY <1>1, <1>5, PlansFrame DEF HonestInv
<1>7. \A b \in Clients : Forwards(b)'
  BY <1>1, <1>2, <1>3, <1>4, StepForwards DEF HonestInv
<1>. QED BY <1>6, <1>7 DEF HonestInv

\* The steps of a client whose fast-forward is under way.
LEMMA ForwardingStep ==
  ASSUME TrackingInv, HonestInv, NEW a \in Clients,
         \/ \E s \in Signals : SkipItem(a, s) \/ StartItem(a, s)
         \/ \E st \in Outcomes : MeasureBaseline(a, st) \/ MeasureDay(a, st)
         \/ ReuseDay(a) \/ DropDay(a) \/ StartDay(a) \/ FinishDay(a) \/ BlockDay(a) \/ EndItem(a)
  PROVE  HonestInv'
<1>. a \in Threads /\ PlansWhole /\ Forwards(a)
  BY DEF Threads, HonestInv, PlansInv
<1>1. act[a].pc \in Forwarding
  BY DEF SkipItem, StartItem, MeasureBaseline, MeasureDay, ReuseDay, DropDay, StartDay, FinishDay,
         BlockDay, EndItem, Forwarding
<1>2. ffLock = a
  BY <1>1 DEF Forwards
<1>3. UNCHANGED <<plan, answer, since>>
  BY DEF SkipItem, StartItem, MeasureBaseline, MeasureDay, ReuseDay, DropDay, StartDay, FinishDay,
         BlockDay, EndItem, requests
<1>4. \A b \in Threads : b # a => act'[b] = act[b]
  <2>. act \in [Threads -> JobRecords] /\ a \notin Workers
    BY TrackingAssumption DEF TrackingInv, Typed
  <2>1. CASE \E s \in Signals : SkipItem(a, s) \/ StartItem(a, s)
    BY <2>1 DEF SkipItem, StartItem
  <2>2. CASE \E st \in Outcomes : MeasureBaseline(a, st) \/ MeasureDay(a, st)
    BY <2>2 DEF MeasureBaseline, MeasureDay
  <2>3. CASE ReuseDay(a) \/ DropDay(a) \/ StartDay(a)
    BY <2>3 DEF ReuseDay, DropDay, StartDay
  <2>4. CASE FinishDay(a) \/ BlockDay(a) \/ EndItem(a)
    BY <2>4 DEF FinishDay, BlockDay, EndItem
  <2>. QED BY <2>1, <2>2, <2>3, <2>4
<1>5. Forwards(a)'
  BY SkipItemForwards, StartItemForwards, MeasureBaselineForwards, MeasureDayForwards, ReuseDayForwards,
     DropDayForwards, StartDayForwards, FinishDayForwards, BlockDayForwards, EndItemForwards
<1>6. \A s \in Signals : lock[s] \notin {a, None} => runs'[s] = runs[s]
  <2>1. act[a].pc # "items" => act[a].signal \in Signals /\ lock[act[a].signal] = a
    BY <1>1, ItemInHand
  <2>2. CASE DropDay(a) \/ StartDay(a) \/ FinishDay(a) \/ BlockDay(a)
    <3>1. \A s \in Signals : s # act[a].signal => runs'[s] = runs[s]
      BY <2>2 DEF DropDay, StartDay, Started, FinishDay, BlockDay, TrackingInv, Typed
    <3>2. act[a].pc # "items"
      BY <2>2 DEF DropDay, StartDay, FinishDay, BlockDay
    <3>. QED BY <2>1, <3>1, <3>2
  <2>3. CASE ~(DropDay(a) \/ StartDay(a) \/ FinishDay(a) \/ BlockDay(a))
    BY <2>3 DEF SkipItem, StartItem, MeasureBaseline, MeasureDay, ReuseDay, EndItem, tables
  <2>. QED BY <2>2, <2>3
<1>7. \A s \in Signals : meas[s] \subseteq meas'[s]
  <2>1. ASSUME NEW st \in Outcomes, MeasureDay(a, st) \/ MeasureBaseline(a, st)
        PROVE  \A s \in Signals : meas[s] \subseteq meas'[s]
    <3>1. act[a].signal \in Signals
      BY <2>1 DEF MeasureDay, MeasureBaseline, TrackingInv, Owns, OnSignal
    <3>. QED BY <2>1, <3>1, SavedGrows DEF MeasureDay, MeasureBaseline
  <2>2. CASE ~\E st \in Outcomes : MeasureDay(a, st) \/ MeasureBaseline(a, st)
    <3>1. meas' = meas
      BY <2>2 DEF SkipItem, StartItem, ReuseDay, DropDay, StartDay, FinishDay, BlockDay, EndItem, tables
    <3>. QED BY <3>1
  <2>. QED BY <2>1, <2>2
<1>8. PlansInv'
  BY <1>3, <1>7, PlansFrame DEF HonestInv
<1>9. \A b \in Clients : Forwards(b)'
  BY <1>2, <1>4, <1>5, <1>6, StepForwards DEF HonestInv
<1>. QED BY <1>8, <1>9 DEF HonestInv

\* The other steps of a client: manual measurements, the start and the end of
\* a fast-forward.
LEMMA BeginsOrEnds ==
  ASSUME TrackingInv, HonestInv, NEW a \in Clients,
         \/ \E s \in Signals, w \in Remeasured : StartManual(a, s, w)
         \/ \E q \in Requests : StartForward(a, q)
         \/ \E st \in Outcomes : ManualMeasure(a, st)
         \/ AnswerForward(a) \/ Dies(a)
  PROVE  HonestInv'
<1>. a \in Threads /\ act \in [Threads -> JobRecords] /\ \A b \in Clients : Forwards(b)
  BY DEF Threads, TrackingInv, Typed, HonestInv
<1>1. runs' = runs
  BY DEF StartManual, StartForward, ManualMeasure, AnswerForward, Dies, tables
<1>2. \A b \in Threads : b # a => act'[b] = act[b]
  BY DEF StartManual, StartForward, ManualMeasure, AnswerForward, Dies
<1>3. Forwards(a)'
  <2>1. ASSUME NEW q \in Requests, StartForward(a, q) PROVE Forwards(a)'
    BY <2>1, StartForwardForwards DEF HonestInv
  <2>2. CASE ~\E q \in Requests : StartForward(a, q)
    <3>1. act'[a].pc \notin Forwarding /\ act'[a].request = None
      <4>1. CASE ManualMeasure(a, "success") \/ ManualMeasure(a, "unavailable") \/ AnswerForward(a) \/ Dies(a)
        BY <4>1 DEF ManualMeasure, AnswerForward, Dies, Idle, Forwarding
      <4>2. ASSUME NEW s \in Signals, NEW w \in Remeasured, StartManual(a, s, w)
            PROVE  act'[a].pc \notin Forwarding /\ act'[a].request = None
        BY <4>2 DEF StartManual, Idle, Forwarding
      <4>. QED BY <2>2, <4>1, <4>2 DEF Outcomes
    <3>. QED BY <3>1, IdleForwards
  <2>. QED BY <2>1, <2>2
<1>4. ffLock \in {a, None} \/ UNCHANGED <<ffLock, plan, answer>>
  <2>1. CASE AnswerForward(a)
    BY <2>1 DEF AnswerForward, Forwards, Forwarding
  <2>2. CASE ~AnswerForward(a)
    BY <2>2 DEF StartManual, StartForward, ManualMeasure, Dies, requests
  <2>. QED BY <2>1, <2>2
<1>5. \A b \in Clients : Forwards(b)'
  BY <1>1, <1>2, <1>3, <1>4, StepForwards
<1>6. PlansInv'
  <2>1. ASSUME NEW q \in Requests, StartForward(a, q) PROVE PlansInv'
    BY <2>1, StartForwardPlans DEF HonestInv
  <2>2. CASE ~\E q \in Requests : StartForward(a, q)
    <3>1. UNCHANGED <<plan, since>>
      BY <2>2 DEF StartManual, ManualMeasure, AnswerForward, Dies, requests
    <3>2. \A q \in Requests : answer'[q] = NoAnswer => answer[q] = NoAnswer
      <4>1. CASE AnswerForward(a)
        <5>1. answer' = [answer EXCEPT ![act[a].request] = act[a].results] /\ act[a].pc \in Forwarding
          BY <4>1 DEF AnswerForward, Forwarding
        <5>2. answer[act[a].request] = NoAnswer /\ answer \in [Requests -> Answers]
          BY <5>1 DEF Forwards, TrackingInv, Typed
        <5>. QED BY <5>1, <5>2
      <4>2. CASE ~AnswerForward(a)
        BY <2>2, <4>2 DEF StartManual, ManualMeasure, Dies, requests
      <4>. QED BY <4>1, <4>2
    <3>3. \A s \in Signals : meas[s] \subseteq meas'[s]
      <4>1. ASSUME NEW st \in Outcomes, ManualMeasure(a, st) PROVE \A s \in Signals : meas[s] \subseteq meas'[s]
        BY <4>1, SavedGrows DEF ManualMeasure, TrackingInv, Owns, OnSignal
      <4>2. CASE ~\E st \in Outcomes : ManualMeasure(a, st)
        BY <2>2, <4>2 DEF StartManual, AnswerForward, Dies, tables
      <4>. QED BY <4>1, <4>2
    <3>. QED BY <3>1, <3>2, <3>3, PlansFrame DEF HonestInv
  <2>. QED BY <2>1, <2>2
<1>. QED BY <1>5, <1>6 DEF HonestInv

LEMMA ClientForwards ==
  ASSUME TrackingInv, HonestInv, NEW a \in Clients, ClientStep(a) PROVE HonestInv'
BY ForwardingStep, BeginsOrEnds DEF ClientStep

LEMMA RequestForwards ==
  ASSUME TrackingInv, HonestInv, RequestStep \/ TimePasses \/ UNCHANGED vars PROVE HonestInv'
<1>1. act' = act
  BY DEF RequestStep, Register, SetStatus, SetSchedule, Reset, TimePasses, vars
<1>2. ASSUME NEW q \in Resets, NEW ss \in SUBSET Signals, NEW d \in DayEnds, Reset(q, ss, d)
      PROVE  HonestInv'
  <2>1. /\ ffLock = None /\ \A s \in Signals : lock[s] # None => runs'[s] = runs[s]
    BY <1>2 DEF Reset, LockFree
  <2>2. ASSUME NEW b \in Clients PROVE Forwards(b)'
    <3>1. b # None
      BY TrackingAssumption DEF Threads
    <3>2. act[b].pc \notin Forwarding /\ Forwards(b)
      BY <2>1, <3>1 DEF HonestInv, Forwards
    <3>3. \A s \in Signals : lock[s] = b => runs'[s] = runs[s]
      BY <2>1, <3>1
    <3>. QED BY <1>1, <3>2, <3>3, OthersForward
  <2>3. PlansInv'
    BY <1>2, ResetPlans DEF HonestInv
  <2>. QED BY <2>2, <2>3 DEF HonestInv
<1>3. CASE \/ \E s \in Signals, w \in Windows : Register(s, w)
           \/ \E s \in Signals, st \in Statuses : SetStatus(s, st)
           \/ \E s \in Signals, on \in Switches : \E n \in Placements \cup {next[s]} : SetSchedule(s, on, n)
           \/ TimePasses \/ UNCHANGED vars
  <2>1. UNCHANGED <<plan, answer, since, runs, ffLock>>
    BY <1>3 DEF Register, SetStatus, SetSchedule, TimePasses, vars, tables, requests, locks
  <2>2. \A s \in Signals : meas[s] \subseteq meas'[s]
    <3>1. ASSUME NEW s \in Signals, NEW w \in Windows, Register(s, w)
          PROVE  \A x \in Signals : meas[x] \subseteq meas'[x]
      BY <3>1, SavedGrows DEF Register
    <3>2. CASE ~\E s \in Signals, w \in Windows : Register(s, w)
      <4>1. meas' = meas
        BY <1>3, <3>2 DEF SetStatus, SetSchedule, TimePasses, vars, tables
      <4>. QED BY <4>1
    <3>. QED BY <3>1, <3>2
  <2>3. PlansInv'
    BY <2>1, <2>2, PlansFrame DEF HonestInv
  <2>4. \A b \in Clients : Forwards(b)'
    BY <1>1, <2>1, OthersForward DEF HonestInv
  <2>. QED BY <2>3, <2>4 DEF HonestInv
<1>. QED BY <1>2, <1>3 DEF RequestStep

LEMMA InitForwards == Init => HonestInv
<1>. SUFFICES ASSUME Init PROVE HonestInv
  OBVIOUS
<1>1. PlansInv
  BY DEF Init, PlansInv, PlansWhole, Restarted, PlansCurrent, NoPlan
<1>2. \A a \in Clients : Forwards(a)
  BY DEF Init, Forwards, Forwarding, Idle, Threads
<1>. QED BY <1>1, <1>2 DEF HonestInv

\* What a fast-forward has done and will say, and what it may still do, is
\* invariant.
THEOREM HonestInvariant == Spec => []HonestInv
<1>1. TrackingInv /\ HonestInv /\ [Next]_vars => HonestInv'
  BY WorkerForwards, ClientForwards, RequestForwards DEF Next
<1>. QED BY <1>1, InitForwards, Invariance, PTL DEF Spec

\* What a fast-forward answers is true of the tables: the days it lists are
\* the successes from the planned start up to the day it came to, whoever
\* measures, ticks, dies or resets meanwhile; and no request that may still
\* be repeated would work on days from before the last restart.
THEOREM FastForwardsAreSound == Spec => []ForwardSound
<1>1. ASSUME TrackingInv, HonestInv PROVE ForwardSound
  <2>1. ASSUME NEW a \in Clients, act[a].request # None, NEW s \in DOMAIN act[a].results
        PROVE  LET r == Result(a, s)
                   item == plan[act[a].request][s]
                   reached == item.start + Day * Cardinality(r.days) IN
               /\ r.days = {d \in DayEnds : item.start < d /\ d <= reached}
               /\ \A d \in r.days : runs[s][d] = "success"
               /\ r.status = "completed" => reached = item.end
               /\ r.status = "blocked" => reached < item.end /\ runs[s][reached + Day] # "success"
    <3> DEFINE item == plan[act[a].request][s]
    <3>1. act[a].pc \in Forwarding /\ \E e \in Nat : Upto(a, s, e)
      BY <1>1, <2>1 DEF HonestInv, Forwards
    <3>2. PICK e \in Nat : Upto(a, s, e)
      BY <3>1
    <3>3. item.start \in Nat /\ Midnight(item.start) /\ item.end \in Nat /\ item.end <= Horizon
      BY <1>1, <3>1, ItemInHand
    <3>4. Midnight(e) /\ item.start <= e /\ e <= item.end /\ Result(a, s).days = Between(item.start, e)
      BY <3>2 DEF Upto
    <3>5. e <= Horizon
      BY <3>3, <3>4, TrackingAssumption
    <3>6. item.start + Day * Cardinality(Between(item.start, e)) = e
      BY <3>3, <3>4, <3>5, BetweenCount
    <3>. QED BY <3>2, <3>4, <3>6 DEF Upto, Between
  <2>2. HonestResults
    BY <2>1 DEF HonestResults
  <2>. QED BY <1>1, <2>2 DEF ForwardSound, HonestInv, PlansInv
<1>. QED BY <1>1, Invariance, HonestInvariant, PTL

\* A request id means one piece of work for ever: no step changes the days
\* planned for it, an answer once given, or the plan it was given for.
THEOREM RepetitionsReplay == Spec => RequestsReplay
<1> DEFINE Replays == \A q \in Requests : plan[q] # NoPlan =>
             /\ DOMAIN plan'[q] = DOMAIN plan[q]
             /\ \A s \in DOMAIN plan[q] :
                  plan'[q][s].start = plan[q][s].start /\ plan'[q][s].end = plan[q][s].end
             /\ answer[q] # NoAnswer => answer'[q] = answer[q] /\ plan'[q] = plan[q]
<1>1. ASSUME TrackingInv, HonestInv, [Next]_vars PROVE [Replays]_vars
  <2>0. plan \in [Requests -> Plans] /\ answer \in [Requests -> Answers]
    BY <1>1 DEF TrackingInv, Typed
  <2>1. ASSUME NEW a \in Clients, NEW q \in Requests, StartForward(a, q) PROVE Replays
    <3>1. plan' = [plan EXCEPT ![q] = Planned(q)] /\ answer' = answer
      BY <2>1 DEF StartForward
    <3>2. plan[q] # NoPlan => Planned(q) = plan[q]
      BY DEF Planned
    <3>3. \A r \in Requests : plan[r] # NoPlan => plan'[r] = plan[r]
      BY <2>0, <3>1, <3>2
    <3>. QED BY <3>1, <3>3
  <2>2. ASSUME NEW a \in Clients, AnswerForward(a) PROVE Replays
    <3>1. /\ answer' = [answer EXCEPT ![act[a].request] = act[a].results] /\ plan' = plan
          /\ act[a].pc \in Forwarding
      BY <2>2 DEF AnswerForward, Forwarding
    <3>2. answer[act[a].request] = NoAnswer
      BY <1>1, <3>1 DEF HonestInv, Forwards
    <3>. QED BY <2>0, <3>1, <3>2
  <2>3. ASSUME NEW q \in Resets, NEW ss \in SUBSET Signals, NEW d \in DayEnds, Reset(q, ss, d)
        PROVE  Replays
    <3>1. plan' = [r \in Requests |-> Ended(r, ss)] /\ answer' = answer
      BY <2>3 DEF Reset
    <3>2. \A r \in Requests : answer[r] # NoAnswer => Ended(r, ss) = plan[r]
      BY DEF Ended
    <3>. QED BY <1>1, <3>1, <3>2, EndedFacts
  <2>4. CASE plan' = plan /\ answer' = answer
    BY <2>4
  <2>5. ASSUME NEW a \in Clients, ClientStep(a) PROVE Replays
    <3>1. CASE (\E q \in Requests : StartForward(a, q)) \/ AnswerForward(a)
      BY <2>1, <2>2, <3>1
    <3>2. CASE ~((\E q \in Requests : StartForward(a, q)) \/ AnswerForward(a))
      <4>1. plan' = plan /\ answer' = answer
        BY <2>5, <3>2 DEF ClientStep, SkipItem, StartItem, StartManual, ManualMeasure, MeasureBaseline,
           MeasureDay, ReuseDay, DropDay, StartDay, FinishDay, BlockDay, EndItem, Dies, requests
      <4>. QED BY <2>4, <4>1
    <3>. QED BY <3>1, <3>2
  <2>6. ASSUME NEW a \in Workers, WorkerStep(a) PROVE Replays
    <3>1. plan' = plan /\ answer' = answer
      BY <2>6 DEF WorkerStep, Tick, EndTick, FinishDay, DayFails, Dies, PassOver, TakeDay, MeasureDay,
         requests
    <3>. QED BY <2>4, <3>1
  <2>7. CASE RequestStep
    <3>1. CASE \E q \in Resets, ss \in SUBSET Signals, d \in DayEnds : Reset(q, ss, d)
      BY <2>3, <3>1
    <3>2. CASE ~\E q \in Resets, ss \in SUBSET Signals, d \in DayEnds : Reset(q, ss, d)
      <4>. HIDE DEF Replays
      <4>. QED BY <2>4, <2>7, <3>2 DEF RequestStep, Register, SetStatus, SetSchedule, requests
    <3>. QED BY <3>1, <3>2
  <2>8. CASE TimePasses \/ UNCHANGED vars
    <3>. HIDE DEF Replays
    <3>. QED BY <2>4, <2>8 DEF TimePasses, vars, requests
  <2>. HIDE DEF Replays
  <2>. QED BY <1>1, <2>5, <2>6, <2>7, <2>8 DEF Next
<1>2. [Replays]_vars <=> [\A q \in Requests : plan[q] # NoPlan =>
             /\ DOMAIN plan'[q] = DOMAIN plan[q]
             /\ \A s \in DOMAIN plan[q] :
                  plan'[q][s].start = plan[q][s].start /\ plan'[q][s].end = plan[q][s].end
             /\ answer[q] # NoAnswer => answer'[q] = answer[q] /\ plan'[q] = plan[q]]_vars
  OBVIOUS
<1>. HIDE DEF Replays
<1>. QED BY <1>1, <1>2, Invariance, HonestInvariant, PTL DEF Spec, RequestsReplay
=============================================================================
