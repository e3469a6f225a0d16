------------------------------- MODULE RunLog -------------------------------
(***************************************************************************)
(* What an EventJournal promises its callers, with nothing about how it is *)
(* kept: one log of Canonical Run Events per Run, opened once, extended by *)
(* whole batches, closed by its first terminal event (the contract written *)
(* in journal/journal.py, class EventJournal).                             *)
(***************************************************************************)
EXTENDS Naturals, Sequences

CONSTANTS
  Runs,      \* run ids
  Calls,     \* one-shot create() and append() calls
  RunOf,     \* RunOf[c]: the Run call c is about
  BatchOf,   \* BatchOf[c]: the kinds of the events it wants to commit
  Opened,    \* the kind of the first event of a Run
  Terminal   \* the kinds that end a Run

VARIABLES
  log,       \* log[r]: the kinds of the committed events of r, in order
  effective  \* the calls whose batch is in a log

logVars == <<log, effective>>

\* The rules every log obeys: it starts with Opened, Opened occurs nowhere
\* else, and only its last event may be terminal.
WellFormed(s) ==
  /\ \A i \in 1..Len(s) : s[i] = Opened <=> i = 1
  /\ \A i \in 1..Len(s) : s[i] \in Terminal => i = Len(s)

LogInit ==
  /\ log = [r \in Runs |-> << >>]
  /\ effective = {}

\* A call takes effect, at most once: its whole batch is appended to the log
\* of its Run, and the log stays well formed, so a closed one never grows.
TakeEffect(c) ==
  /\ c \notin effective
  /\ BatchOf[c] # << >>
  /\ WellFormed(log[RunOf[c]] \o BatchOf[c])
  /\ log' = [log EXCEPT ![RunOf[c]] = @ \o BatchOf[c]]
  /\ effective' = effective \cup {c}

LogNext == \E c \in Calls : TakeEffect(c)

LogSpec == LogInit /\ [][LogNext]_logVars
=============================================================================
