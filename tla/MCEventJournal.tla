--------------------------- MODULE MCEventJournal ---------------------------
(***************************************************************************)
(* Instances of EventJournal for TLC: one Run, two backend processes on    *)
(* the same file, racing creates, compare-and-swap appends that fit, are   *)
(* stale or close the Run, and readers in both processes.                  *)
(***************************************************************************)
EXTENDS EventJournal

CONSTANTS r1, k1, k2, p1, p2, open1, open2, batch, close1, close2, bad, t1, t2, t3

MCRuns == {r1}
MCKeys == {k1, k2}
MCProcs == {p1, p2}

Create(k) == [op |-> "create", run |-> r1, expected |-> 0, kinds |-> <<Opened>>, key |-> k]
Extend(n, kinds) ==
  [op |-> "append", run |-> r1, expected |-> n, kinds |-> kinds, key |-> None]

\* open1 and open2 race with different keys; batch and close2 race for the
\* same place after open; close1 fits only after batch; bad is never valid.
MCRequest == [c \in Calls |->
  CASE c = open1 -> Create(k1)
    [] c = open2 -> Create(k2)
    [] c = batch -> Extend(1, <<"artifact.committed", "activity.changed">>)
    [] c = close1 -> Extend(3, <<"run.completed">>)
    [] c = close2 -> Extend(1, <<"run.failed">>)
    [] c = bad -> Extend(1, <<"run.failed", "activity.changed">>)]

MCHome == [a \in Calls \cup Readers |-> IF a \in {open2, close2, t2} THEN p2 ELSE p1]

\* t1 and t2 tail the Run in the writers' process and in the other one, t2
\* from a cursor; t3 is a read() from that cursor.
MCView == [t \in Readers |->
  CASE t = t1 -> [op |-> "tail", run |-> r1, after |-> 0]
    [] t = t2 -> [op |-> "tail", run |-> r1, after |-> 1]
    [] t = t3 -> [op |-> "read", run |-> r1, after |-> 1]]
=============================================================================
