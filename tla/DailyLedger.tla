----------------------------- MODULE DailyLedger -----------------------------
(***************************************************************************)
(* What daily tracking promises of a signal, with nothing about locks,     *)
(* threads or crashes: a cursor and the result of each day.  Work records  *)
(* one day and carries the cursor past it, never back; besides that only a *)
(* user moves the cursor, and only a restart of the tracking forgets a     *)
(* successful day (docs/api-endpoints.md on daily measurement).            *)
(***************************************************************************)
EXTENDS Naturals

CONSTANTS
  Signals,
  Ends,     \* the midnights at which a tracked day ends
  Length    \* the length of a day

VARIABLES
  cursor,   \* cursor[s]: end of the next day to run, 0 before registration
  result    \* result[s][d]: "none", "success" or "unavailable"

ledger == <<cursor, result>>

Outcomes == {"success", "unavailable"}
Blank == [d \in Ends |-> "none"]

LedgerInit ==
  /\ cursor = [s \in Signals |-> 0]
  /\ result = [s \in Signals |-> Blank]

\* A day is worked: its result is recorded and the cursor is past it.
Work(s, d) ==
  /\ cursor[s] # 0
  /\ \E o \in Outcomes : result' = [result EXCEPT ![s][d] = o]
  /\ cursor' = [cursor EXCEPT ![s] = IF @ >= d + Length THEN @ ELSE d + Length]

\* A failed day is taken back, to be tried again.
Retract(s, d) ==
  /\ result[s][d] = "unavailable"
  /\ result' = [result EXCEPT ![s][d] = "none"]
  /\ UNCHANGED cursor

\* Registration, or a user's choice of the next day.
Place(s) ==
  /\ cursor'[s] \in Nat \ {0}
  /\ cursor' = [cursor EXCEPT ![s] = cursor'[s]]
  /\ UNCHANGED result

\* The tracking of some signals starts over.
StartOver(ss) ==
  /\ \A s \in ss : cursor[s] # 0 /\ cursor'[s] \in Nat \ {0}
  /\ \A s \in Signals \ ss : cursor'[s] = cursor[s]
  /\ DOMAIN cursor' = Signals
  /\ result' = [s \in Signals |-> IF s \in ss THEN Blank ELSE result[s]]

LedgerNext ==
  \/ \E s \in Signals : Place(s) \/ (\E d \in Ends : Work(s, d) \/ Retract(s, d))
  \/ \E ss \in SUBSET Signals : StartOver(ss)

LedgerSpec == LedgerInit /\ [][LedgerNext]_ledger
=============================================================================
