---------------------------- MODULE EventJournal ----------------------------
(***************************************************************************)
(* The SQLite EventJournal (journal/sqlite.py), at the grain at which its  *)
(* callers, its worker threads, other processes and a crash interleave.    *)
(*                                                                         *)
(* A backend process owns one connection and one asyncio lock.  A write is *)
(* a coroutine that takes the lock, starts a worker thread and waits for   *)
(* it; the worker opens an IMMEDIATE transaction, checks, inserts row by   *)
(* row and commits.  The coroutine can be cancelled at every await, the    *)
(* thread cannot.  Readers fetch rows through the same connection.         *)
(* The tables are kept as SQLite keeps them: journal_events is a partial   *)
(* function from (run, sequence) to rows, not a sequence, so that          *)
(* contiguity is something the code has to achieve.                        *)
(***************************************************************************)
EXTENDS Naturals, Sequences

CONSTANTS
  Runs,        \* run ids
  Keys,        \* idempotency keys
  Procs,       \* backend processes that share the database file
  Calls,       \* create() and append() calls, each made once
  Readers,     \* read() and tail() iterations, each made once
  Home,        \* Home[a]: the process in which call or reader a runs
  Request,     \* Request[c]: the arguments of call c
  View,        \* View[t]: the arguments of reader t
  MaxCancels,  \* bound: how often one caller's task is cancelled
  MaxCrashes,  \* bound: process crashes in a behaviour
  None         \* no run, no call, no key

Opened == "run.opened"
Terminal == {"run.completed", "run.degraded", "run.failed"}
Kinds == {Opened, "artifact.committed", "activity.changed", "interaction.changed",
          "run.awaiting_input", "run.resumed"} \cup Terminal

\* validate_batch: nonempty, no run.opened, a terminal event only at the end.
ValidBatch(kinds) ==
  /\ kinds # << >>
  /\ \A i \in 1..Len(kinds) : kinds[i] # Opened
  /\ \A i \in 1..(Len(kinds) - 1) : kinds[i] \notin Terminal

\* A create() request carries <<run.opened>> and expects no event at all.
CreateRequests == [op : {"create"}, run : Runs, expected : {0}, kinds : {<<Opened>>}, key : Keys]
AppendRequests == [op : {"append"}, run : Runs, expected : Nat, kinds : Seq(Kinds), key : {None}]
ReaderViews == [op : {"read", "tail"}, run : Runs, after : Nat]

ASSUME ConstantsAssumption ==
  /\ Home \in [Calls \cup Readers -> Procs]
  /\ Request \in [Calls -> CreateRequests \cup AppendRequests]
  /\ View \in [Readers -> ReaderViews]
  /\ Calls \cap Readers = {}
  /\ MaxCancels \in Nat /\ MaxCrashes \in Nat
  /\ None \notin Keys \cup Calls

VARIABLES
  key,       \* table journal_runs: key[r], or None when the Run is unknown
  table,     \* table journal_events, committed: table[r][sequence] is a row
  txn,       \* txn[p]: the call whose transaction is open on p's connection
  staged,    \* staged[p]: rows inserted by that transaction, not committed
  lock,      \* lock[p]: the call holding p's asyncio lock
  pc,        \* pc[c]: where the coroutine of call c is
  job,       \* job[c]: where the worker thread of call c is
  outcome,   \* outcome[c]: what that thread returned or raised
  latest,    \* latest[c]: latest_sequence of a SequenceConflictError
  cancels,   \* cancels[c]: cancellations of the task running call c
  reader,    \* reader[t]: where the iteration t is
  cursor,    \* cursor[t]: its local variable cursor
  buffer,    \* buffer[t]: events fetched and not yet yielded
  delivered, \* delivered[t]: rows yielded so far, by sequence (history)
  crashes    \* crashes so far

durable == <<key, table>>
connection == <<txn, staged>>
writers == <<lock, pc, job, outcome, latest, cancels>>
readers == <<reader, cursor, buffer, delivered>>
vars == <<durable, connection, writers, readers, crashes>>

Row == [kind : Kinds, batch : Calls]
IsTable(f) == DOMAIN f \subseteq Nat /\ \A s \in DOMAIN f : f[s] \in Row
EmptyTable == [s \in {} |-> None]

\* The rows of g with the rows of f on top.
Overlay(f, g) ==
  [s \in DOMAIN f \cup DOMAIN g |-> IF s \in DOMAIN f THEN f[s] ELSE g[s]]

\* ORDER BY sequence DESC LIMIT 1, and 0 for a Run without rows.
LastSequence(rows) ==
  IF DOMAIN rows = {} THEN 0
  ELSE CHOOSE s \in DOMAIN rows : \A t \in DOMAIN rows : t <= s

\* ORDER BY sequence ASC: the row a consumer of nonempty rows gets first.
FirstSequence(rows) == CHOOSE s \in DOMAIN rows : \A t \in DOMAIN rows : s <= t

\* What a SELECT on p's connection returns: a connection sees the rows of its
\* own open transaction, no other connection does.
Visible(p, r) ==
  IF txn[p] # None /\ Request[txn[p]].run = r THEN Overlay(staged[p], table[r]) ELSE table[r]

\* Mutant of DraftRow: the name of the operation where the kind belongs.
DraftRowOfOp(c, n) == [kind |-> Request[c].op, batch |-> c]

\* The n-th row of the batch of call c, and the sequences of its first n rows.
DraftRow(c, n) == [kind |-> Request[c].kinds[n], batch |-> c]
Places(c, n) == (Request[c].expected + 1)..(Request[c].expected + n)

Init ==
  /\ key = [r \in Runs |-> None]
  /\ table = [r \in Runs |-> EmptyTable]
  /\ txn = [p \in Procs |-> None]
  /\ staged = [p \in Procs |-> EmptyTable]
  /\ lock = [p \in Procs |-> None]
  /\ pc = [c \in Calls |-> "ready"]
  /\ job = [c \in Calls |-> "none"]
  /\ outcome = [c \in Calls |-> "none"]
  /\ latest = [c \in Calls |-> 0]
  /\ cancels = [c \in Calls |-> 0]
  /\ reader = [t \in Readers |-> "ready"]
  /\ cursor = [t \in Readers |-> View[t].after]
  /\ buffer = [t \in Readers |-> EmptyTable]
  /\ delivered = [t \in Readers |-> EmptyTable]
  /\ crashes = 0

-----------------------------------------------------------------------------
(* The coroutine of a write call.                                          *)

\* Mutant of Unlocked: a cancelled caller forgets to leave the lock.
UnlockedUnlessCancelled(c) ==
  [lock EXCEPT ![Home[c]] = IF pc[c] = "settling" THEN @ ELSE None]

\* Leaving async with self._lock.
Unlocked(c) == [lock EXCEPT ![Home[c]] = None]

\* Mutant of Shielded: the worker is awaited without a shield.
Unshielded(c) == FALSE

\* asyncio.shield and the await in the handler: the first cancellation of a
\* caller that waits for its worker does not end the wait.
Shielded(c) == pc[c] = "working"

\* create() or append() is called: validate_batch runs before any await.
Submit(c) ==
  /\ pc[c] = "ready"
  /\ IF Request[c].op = "append" /\ ~ValidBatch(Request[c].kinds)
       THEN /\ pc' = [pc EXCEPT ![c] = "returned"]
            /\ outcome' = [outcome EXCEPT ![c] = "invalid"]
       ELSE /\ pc' = [pc EXCEPT ![c] = "locking"]
            /\ UNCHANGED outcome
  /\ UNCHANGED <<durable, connection, lock, job, latest, cancels, readers, crashes>>

\* async with self._lock, and the worker is handed to the thread pool.
AcquireLock(c) ==
  /\ pc[c] = "locking"
  /\ lock[Home[c]] = None
  /\ lock' = [lock EXCEPT ![Home[c]] = c]
  /\ pc' = [pc EXCEPT ![c] = "working"]
  /\ job' = [job EXCEPT ![c] = "queued"]
  /\ UNCHANGED <<durable, connection, outcome, latest, cancels, readers, crashes>>

\* The worker is done and the coroutine goes on: it leaves the lock, and
\* raises CancelledError when it was cancelled while it waited.
Settle(c) ==
  /\ pc[c] \in {"working", "settling"}
  /\ job[c] = "done"
  /\ lock' = Unlocked(c)
  /\ pc' = [pc EXCEPT ![c] =
       IF pc[c] = "settling" THEN "cancelled"
       ELSE IF outcome[c] = "ok" THEN "notifying" ELSE "returned"]
  /\ UNCHANGED <<durable, connection, job, outcome, latest, cancels, readers, crashes>>

\* _notify wakes every tail of this process that waits on the condition.
Notify(c) ==
  /\ pc[c] = "notifying"
  /\ pc' = [pc EXCEPT ![c] = "returned"]
  /\ reader' = [t \in Readers |->
       IF reader[t] = "waiting" /\ Home[t] = Home[c] THEN "fetching" ELSE reader[t]]
  /\ UNCHANGED <<durable, connection, lock, job, outcome, latest, cancels,
                 cursor, buffer, delivered, crashes>>

\* The task of a call is cancelled.  Waiting for the lock or the condition it
\* just ends.  Waiting for the worker it goes on waiting, inside the lock; a
\* second cancellation interrupts that wait and gives the lock back, and a
\* worker that no thread has taken up by then is withdrawn from the pool.
Cancel(c) ==
  /\ cancels[c] < MaxCancels
  /\ cancels' = [cancels EXCEPT ![c] = @ + 1]
  /\ \/ /\ pc[c] \in {"locking", "notifying"}
        /\ pc' = [pc EXCEPT ![c] = "cancelled"]
        /\ UNCHANGED <<lock, job>>
     \/ /\ pc[c] \in {"working", "settling"} /\ Shielded(c)
        /\ pc' = [pc EXCEPT ![c] = "settling"]
        /\ UNCHANGED <<lock, job>>
     \/ /\ pc[c] \in {"working", "settling"} /\ ~Shielded(c)
        /\ pc' = [pc EXCEPT ![c] = "cancelled"]
        /\ lock' = Unlocked(c)
        /\ job' = [job EXCEPT ![c] = IF @ = "queued" THEN "dead" ELSE @]
  /\ UNCHANGED <<durable, connection, outcome, latest, readers, crashes>>

-----------------------------------------------------------------------------
(* The worker thread: _create_sync and _append_sync.                       *)

\* Mutant of WriteLockFree: a plain BEGIN, which takes no write lock.
ConnectionIdle(c) == txn[Home[c]] = None

WriteLockFree(c) == \A p \in Procs : txn[p] = None

\* BEGIN IMMEDIATE takes the write lock of the database file.
Begin(c) ==
  /\ job[c] = "queued"
  /\ WriteLockFree(c)
  /\ txn' = [txn EXCEPT ![Home[c]] = c]
  /\ job' = [job EXCEPT ![c] = "begun"]
  /\ UNCHANGED <<durable, staged, lock, pc, outcome, latest, cancels, readers, crashes>>

\* BEGIN IMMEDIATE fails: another connection held the write lock for the whole
\* busy timeout, or this connection is inside a transaction already.
BeginFails(c) ==
  /\ job[c] = "queued"
  /\ ~WriteLockFree(c)
  /\ job' = [job EXCEPT ![c] = "done"]
  /\ outcome' = [outcome EXCEPT ![c] = "error"]
  /\ UNCHANGED <<durable, connection, lock, pc, latest, cancels, readers, crashes>>

\* Mutants of CheckCreate: the key of the existing Run is not compared; the
\* existing Run is not looked for.
CheckCreateAnyKey(c) == IF key[Request[c].run] = None THEN "insert" ELSE "ok"
CheckCreateReplace(c) ==
  IF key[Request[c].run] = Request[c].key THEN "ok" ELSE "insert"

\* What the checks inside the transaction answer; "insert" means go on.
CheckCreate(c) ==
  LET r == Request[c].run
  IN  IF key[r] = None THEN "insert" ELSE IF key[r] = Request[c].key THEN "ok" ELSE "exists"

\* Mutant of Fits: no compare-and-swap.
FitsAnywhere(c, last) == TRUE

Fits(c, last) == last = Request[c].expected

CheckAppend(c) ==
  LET r == Request[c].run
      last == LastSequence(table[r])
  IN  IF key[r] = None THEN "unknown"
      ELSE IF table[r][last].kind \in Terminal THEN "terminal"
      ELSE IF ~Fits(c, last) THEN "conflict"
      ELSE "insert"

Verdict(c) == IF Request[c].op = "create" THEN CheckCreate(c) ELSE CheckAppend(c)

\* The transaction reads the Run and ends at once (commit or rollback of
\* nothing) unless there is something to insert.
Check(c) ==
  /\ job[c] = "begun"
  /\ IF Verdict(c) = "insert"
       THEN /\ job' = [job EXCEPT ![c] = "inserting"]
            /\ UNCHANGED <<txn, outcome, latest>>
       ELSE /\ job' = [job EXCEPT ![c] = "done"]
            /\ outcome' = [outcome EXCEPT ![c] = Verdict(c)]
            /\ latest' = [latest EXCEPT ![c] =
                 IF Verdict(c) = "conflict" THEN LastSequence(table[Request[c].run]) ELSE @]
            /\ txn' = [txn EXCEPT ![Home[c]] = None]
  /\ UNCHANGED <<durable, staged, lock, pc, cancels, readers, crashes>>

\* One INSERT INTO journal_events, inside the open transaction.
Insert(c) ==
  /\ job[c] = "inserting"
  /\ \E n \in 1..Len(Request[c].kinds) :
       /\ DOMAIN staged[Home[c]] = Places(c, n - 1)
       /\ staged' = [staged EXCEPT ![Home[c]] =
            Overlay([s \in {Request[c].expected + n} |-> DraftRow(c, n)], @)]
  /\ UNCHANGED <<durable, txn, writers, readers, crashes>>

\* Mutant of AllInserted: a commit after every row.
SomeInserted(c) == DOMAIN staged[Home[c]] # {}

\* Mutant of KeyAfter: the row of journal_runs is forgotten.
KeyForgotten(c) == key

\* The loop over the drafts has come to its end.
AllInserted(c) == DOMAIN staged[Home[c]] = Places(c, Len(Request[c].kinds))

\* A create() has inserted its row of journal_runs as well.
KeyAfter(c) ==
  [key EXCEPT ![Request[c].run] = IF Request[c].op = "create" THEN Request[c].key ELSE @]

\* connection.commit(): the staged rows become durable together.
Commit(c) ==
  LET p == Home[c]
  IN  /\ job[c] = "inserting"
      /\ AllInserted(c)
      /\ table' = [table EXCEPT ![Request[c].run] = Overlay(staged[p], @)]
      /\ key' = KeyAfter(c)
      /\ txn' = [txn EXCEPT ![p] = None]
      /\ staged' = [staged EXCEPT ![p] = EmptyTable]
      /\ job' = [job EXCEPT ![c] = "done"]
      /\ outcome' = [outcome EXCEPT ![c] = "ok"]
      /\ UNCHANGED <<lock, pc, latest, cancels, readers, crashes>>

\* An INSERT or the commit itself fails: the except clause rolls back whatever
\* the transaction has inserted and the error goes to the caller.
RollBack(c) ==
  /\ job[c] = "inserting"
  /\ txn' = [txn EXCEPT ![Home[c]] = None]
  /\ staged' = [staged EXCEPT ![Home[c]] = EmptyTable]
  /\ job' = [job EXCEPT ![c] = "done"]
  /\ outcome' = [outcome EXCEPT ![c] = "error"]
  /\ UNCHANGED <<durable, lock, pc, latest, cancels, readers, crashes>>

-----------------------------------------------------------------------------
(* read() and tail().                                                      *)

StartReader(t) ==
  /\ reader[t] = "ready"
  /\ reader' = [reader EXCEPT ![t] = "opening"]
  /\ UNCHANGED <<durable, connection, writers, cursor, buffer, delivered, crashes>>

\* The rows after a sequence number that a SELECT on p's connection returns.
RowsAfter(p, r, after) ==
  [s \in {u \in DOMAIN Visible(p, r) : u > after} |-> Visible(p, r)[s]]

\* _rows_after_sync under the lock; only the first fetch of an iteration
\* insists that the Run is known.  A read() makes one fetch and no more.
Fetch(t) ==
  LET p == Home[t]
      rows == RowsAfter(p, View[t].run, cursor[t])
  IN  /\ reader[t] \in {"opening", "fetching"}
      /\ lock[p] = None
      /\ IF reader[t] = "opening" /\ key[View[t].run] = None
           THEN /\ reader' = [reader EXCEPT ![t] = "unknown"]
                /\ UNCHANGED buffer
           ELSE /\ buffer' = [buffer EXCEPT ![t] = rows]
                /\ reader' = [reader EXCEPT ![t] =
                     IF DOMAIN rows # {} THEN "yielding"
                     ELSE IF View[t].op = "read" THEN "finished" ELSE "checking"]
      /\ UNCHANGED <<durable, connection, writers, cursor, delivered, crashes>>

\* The consumer takes the next fetched event, in ascending order; a tail stops
\* after a terminal one, a read() after the last one it fetched.
Yield(t) ==
  LET s == FirstSequence(buffer[t])
      row == buffer[t][s]
      rest == [u \in DOMAIN buffer[t] \ {s} |-> buffer[t][u]]
  IN  /\ reader[t] = "yielding"
      /\ cursor' = [cursor EXCEPT ![t] = s]
      /\ delivered' = [delivered EXCEPT ![t] = Overlay([u \in {s} |-> row], @)]
      /\ buffer' = [buffer EXCEPT ![t] = rest]
      /\ reader' = [reader EXCEPT ![t] =
           IF View[t].op = "tail" /\ row.kind \in Terminal THEN "finished"
           ELSE IF DOMAIN rest # {} THEN "yielding"
           ELSE IF View[t].op = "read" THEN "finished" ELSE "fetching"]
      /\ UNCHANGED <<durable, connection, writers, crashes>>

\* Mutant of TerminalReached: the cursor is not compared.
TerminalCommitted(p, r, after) ==
  LET rows == Visible(p, r)
      last == LastSequence(rows)
  IN  last # 0 /\ rows[last].kind \in Terminal

\* _terminal_reached_sync: is the last event terminal and not after cursor?
TerminalReached(p, r, after) ==
  LET rows == Visible(p, r)
      last == LastSequence(rows)
  IN  last # 0 /\ rows[last].kind \in Terminal /\ last <= after

\* A fetch that found nothing is followed by the terminal check, in a lock
\* section of its own; then the tail waits on the condition.
CheckTerminal(t) ==
  /\ reader[t] = "checking"
  /\ lock[Home[t]] = None
  /\ reader' = [reader EXCEPT ![t] =
       IF TerminalReached(Home[t], View[t].run, cursor[t]) THEN "finished" ELSE "waiting"]
  /\ UNCHANGED <<durable, connection, writers, cursor, buffer, delivered, crashes>>

\* Mutant of Poll: the wait has no timeout.
PollNever(t) == reader[t] = "waiting" /\ UNCHANGED vars

\* wait_for times out after _TAIL_POLL_SECONDS and the tail fetches again.
Poll(t) ==
  /\ reader[t] = "waiting"
  /\ reader' = [reader EXCEPT ![t] = "fetching"]
  /\ UNCHANGED <<durable, connection, writers, cursor, buffer, delivered, crashes>>

-----------------------------------------------------------------------------
\* A backend process dies: its open transaction is rolled back by SQLite, its
\* coroutines, threads and iterations are gone.
Crash(p) ==
  /\ crashes < MaxCrashes
  /\ crashes' = crashes + 1
  /\ txn' = [txn EXCEPT ![p] = None]
  /\ staged' = [staged EXCEPT ![p] = EmptyTable]
  /\ lock' = [lock EXCEPT ![p] = None]
  /\ pc' = [c \in Calls |->
       IF Home[c] = p /\ pc[c] \in {"locking", "working", "settling", "notifying"}
       THEN "lost" ELSE pc[c]]
  /\ job' = [c \in Calls |->
       IF Home[c] = p /\ job[c] \in {"queued", "begun", "inserting"} THEN "dead" ELSE job[c]]
  /\ reader' = [t \in Readers |->
       IF Home[t] = p /\ reader[t] \notin {"ready", "unknown", "finished"}
       THEN "lost" ELSE reader[t]]
  /\ UNCHANGED <<durable, outcome, latest, cancels, cursor, buffer, delivered>>

Worker(c) ==
  BeginFails(c) \/ Begin(c) \/ Check(c) \/ Insert(c) \/ Commit(c) \/ RollBack(c)
Coroutine(c) == Submit(c) \/ AcquireLock(c) \/ Settle(c) \/ Notify(c)
Iteration(t) == StartReader(t) \/ Fetch(t) \/ Yield(t) \/ CheckTerminal(t) \/ Poll(t)

Next ==
  \/ \E c \in Calls : Coroutine(c) \/ Cancel(c) \/ Worker(c)
  \/ \E t \in Readers : Iteration(t)
  \/ \E p \in Procs : Crash(p)

\* The event loop runs every ready coroutine, the pool runs every thread and
\* the consumer of a started iteration keeps pulling.  Nobody has to make a
\* call, cancel one or crash.
Fairness ==
  /\ \A c \in Calls : WF_vars(AcquireLock(c)) /\ WF_vars(Settle(c)) /\ WF_vars(Notify(c))
                      /\ WF_vars(Worker(c))
  /\ \A t \in Readers : WF_vars(Fetch(t)) /\ WF_vars(Yield(t)) /\ WF_vars(CheckTerminal(t))
                        /\ WF_vars(Poll(t))

Spec == Init /\ [][Next]_vars
FairSpec == Spec /\ Fairness
-----------------------------------------------------------------------------
(* Properties.                                                             *)

Effective(c) == \E s \in DOMAIN table[Request[c].run] : table[Request[c].run][s].batch = c

\* Every variable has its type.
TypeOK ==
  /\ key \in [Runs -> Keys \cup {None}]
  /\ DOMAIN table = Runs /\ \A r \in Runs : IsTable(table[r])
  /\ txn \in [Procs -> Calls \cup {None}]
  /\ DOMAIN staged = Procs /\ \A p \in Procs : IsTable(staged[p])
  /\ lock \in [Procs -> Calls \cup {None}]
  /\ pc \in [Calls -> {"ready", "locking", "working", "settling", "notifying",
                       "returned", "cancelled", "lost"}]
  /\ job \in [Calls -> {"none", "queued", "begun", "inserting", "done", "dead"}]
  /\ outcome \in [Calls -> {"none", "ok", "invalid", "exists", "unknown", "terminal",
                            "conflict", "error"}]
  /\ latest \in [Calls -> Nat]
  /\ cancels \in [Calls -> 0..MaxCancels]
  /\ reader \in [Readers -> {"ready", "opening", "fetching", "yielding", "checking",
                             "waiting", "finished", "unknown", "lost"}]
  /\ cursor \in [Readers -> Nat]
  /\ DOMAIN buffer = Readers /\ \A t \in Readers : IsTable(buffer[t])
  /\ DOMAIN delivered = Readers /\ \A t \in Readers : IsTable(delivered[t])
  /\ crashes \in 0..MaxCrashes

\* "Run-local sequence values are contiguous 1..N": whatever interleaving of
\* compare-and-swap appends, cancellations and crashes wrote them.
Contiguous ==
  \A r \in Runs :
    /\ LastSequence(table[r]) \in Nat
    /\ DOMAIN table[r] = 1..LastSequence(table[r])
    /\ key[r] = None <=> DOMAIN table[r] = {}

\* A Run opens with run.opened and with nothing else, and at most one event is
\* terminal, the last: two racing terminal appends never both commit.
ClosedByTerminal ==
  \A r \in Runs : \A s \in DOMAIN table[r] :
    /\ table[r][s].kind = Opened <=> s = 1
    /\ table[r][s].kind \in Terminal => s = LastSequence(table[r])

\* The log a reader may rely on: contiguous, opened once, closed for good.
LogSound == Contiguous /\ ClosedByTerminal

\* append() is all or nothing: the rows a call has in the journal are its whole
\* batch, in order, right after the sequence it expected.
BatchAtomic ==
  \A c \in Calls : Effective(c) =>
    LET r == Request[c].run
        mine == {s \in DOMAIN table[r] : table[r][s].batch = c}
    IN  /\ mine = Places(c, Len(Request[c].kinds))
        /\ \A s \in mine : table[r][s] = DraftRow(c, s - Request[c].expected)

\* What a caller was told is true ever after: an accepted batch is in the
\* journal (a repeated create() finds its Run under its own key), a refused
\* one never gets there, and a conflict names a sequence that is committed.
HonestAnswers ==
  \A c \in Calls : pc[c] = "returned" =>
    LET r == Request[c].run
    IN  IF outcome[c] = "ok"
        THEN Effective(c) \/ (Request[c].op = "create" /\ key[r] = Request[c].key)
        ELSE ~Effective(c) /\ (outcome[c] = "conflict" =>
               latest[c] \in DOMAIN table[r] \ {Request[c].expected})

\* A caller and the table agree: atomic batches and answers that stay true.
AnswersAtomic == BatchAtomic /\ HonestAnswers

\* read() and tail() deliver committed events only, in sequence order without
\* a gap, starting strictly after after_sequence.
DeliversCommitted ==
  \A t \in Readers :
    LET rows == table[View[t].run]
    IN  /\ DOMAIN delivered[t] = (View[t].after + 1)..cursor[t]
        /\ \A s \in DOMAIN delivered[t] : s \in DOMAIN rows /\ delivered[t][s] = rows[s]

\* A tail finishes only when its Run is closed and nothing is left to deliver.
TailEndsAtTerminal ==
  \A t \in Readers : View[t].op = "tail" /\ reader[t] = "finished" =>
    LET rows == table[View[t].run]
        last == LastSequence(rows)
    IN  last > 0 /\ rows[last].kind \in Terminal /\ last <= cursor[t]

\* A committed event is never changed or removed, not even by a crash.
AppendOnly ==
  [][\A r \in Runs : \A s \in DOMAIN table[r] :
       s \in DOMAIN table'[r] /\ table'[r][s] = table[r][s]]_vars

\* The journal implements the log it promises.
Log == INSTANCE RunLog WITH
  RunOf <- [c \in Calls |-> Request[c].run],
  BatchOf <- [c \in Calls |-> Request[c].kinds],
  log <- [r \in Runs |-> [s \in DOMAIN table[r] |-> table[r][s].kind]],
  effective <- {c \in Calls : Effective(c)}

ImplementsRunLog == Log!LogSpec

\* Every write call comes back, whoever holds the lock and whoever is
\* cancelled, and leaves its lock free.
CallsEnd ==
  \A c \in Calls : pc[c] = "locking" ~> pc[c] \in {"returned", "cancelled", "lost"}

\* A live tail of a closed Run comes to its end although the notification it
\* waits for can fall between its check and its wait, be lost with a cancelled
\* writer, or happen in another process.
TailsEnd ==
  \A t \in Readers :
    (/\ View[t].op = "tail" /\ reader[t] # "ready"
     /\ \E s \in DOMAIN table[View[t].run] : table[View[t].run][s].kind \in Terminal)
      ~> reader[t] \in {"finished", "unknown", "lost"}

\* Nobody waits for ever at the journal: writers return, tails end.
NobodyWaits == CallsEnd /\ TailsEnd
-----------------------------------------------------------------------------
(* The inductive invariant behind the safety properties.                   *)

\* One transaction is open at a time in the whole file, and it is the one of
\* the thread that says so.
ThreadInv ==
  /\ \A p \in Procs : txn[p] # None =>
       Home[txn[p]] = p /\ job[txn[p]] \in {"begun", "inserting"}
  /\ \A c \in Calls : job[c] \in {"begun", "inserting"} => txn[Home[c]] = c
  /\ \A p, q \in Procs : txn[p] # None /\ txn[q] # None => p = q
  /\ \A c \in Calls : pc[c] \in {"ready", "locking"} => job[c] = "none"
  /\ \A c \in Calls : Request[c].op = "append" /\ (pc[c] = "locking" \/ job[c] # "none")
       => ValidBatch(Request[c].kinds)

\* What the checks answered still holds while the rows go in, the staged rows
\* are a prefix of the batch placed right after the last committed row, and a
\* call whose thread has not committed has no row in the table.
StagedInv ==
  /\ \A p \in Procs : txn[p] = None => DOMAIN staged[p] = {}
  /\ \A c \in Calls : job[c] = "begun" => DOMAIN staged[Home[c]] = {}
  /\ \A c \in Calls : job[c] = "inserting" =>
       /\ Verdict(c) = "insert"
       /\ \E k \in 0..Len(Request[c].kinds) : DOMAIN staged[Home[c]] = Places(c, k)
       /\ \A s \in DOMAIN staged[Home[c]] :
            staged[Home[c]][s] = DraftRow(c, s - Request[c].expected)
  /\ \A c \in Calls : job[c] \in {"none", "queued", "begun", "inserting"} => ~Effective(c)

\* What an iteration has fetched follows its cursor without a gap.
BufferInv ==
  \A t \in Readers :
    /\ \A s \in DOMAIN buffer[t] :
         s > cursor[t] /\ ((cursor[t] + 1)..s) \subseteq DOMAIN buffer[t]
    /\ reader[t] = "yielding" => DOMAIN buffer[t] # {}

\* With at most one cancellation per caller, a process that has a thread at
\* work has its lock taken, by the caller of that thread.
LockInv ==
  \A c \in Calls :
    /\ pc[c] \in {"working", "settling"} => lock[Home[c]] = c
    /\ job[c] \in {"queued", "begun", "inserting"} => pc[c] \in {"working", "settling"}
    /\ pc[c] = "settling" => cancels[c] > 0

\* Then what an iteration fetched and what it yielded is committed.
IterationInv(t) ==
  LET rows == table[View[t].run]
      last == LastSequence(rows)
  IN  /\ View[t].after <= cursor[t]
      /\ DOMAIN delivered[t] = (View[t].after + 1)..cursor[t]
      /\ \A s \in DOMAIN delivered[t] : s \in DOMAIN rows /\ delivered[t][s] = rows[s]
      /\ \A s \in DOMAIN buffer[t] : s \in DOMAIN rows /\ buffer[t][s] = rows[s]
      /\ View[t].op = "tail" /\ reader[t] = "finished" =>
           last > 0 /\ rows[last].kind \in Terminal /\ last <= cursor[t]

DeliveryInv == LockInv /\ \A t \in Readers : IterationInv(t)

JournalInv ==
  TypeOK /\ Contiguous /\ ClosedByTerminal /\ ThreadInv /\ StagedInv /\ BufferInv
=============================================================================
