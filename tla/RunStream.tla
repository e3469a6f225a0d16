------------------------------ MODULE RunStream ------------------------------
(***************************************************************************)
(* The event streams of a Run: RunStore.stream_events (runtime/            *)
(* run_store.py) behind GET /api/runs/{run_id}/events (api.py), composed   *)
(* with the life of the Run.  A stream is an iteration of its own: it      *)
(* takes what the store has, hands it out one event at a time, other tasks *)
(* running in between, and waits on the Run's condition when nothing is    *)
(* left and the Run goes on.  Connections are lost, and clients come back  *)
(* with the id of the last event they have as their Last-Event-ID.         *)
(***************************************************************************)
EXTENDS RunLifecycle, FiniteSets

CONSTANTS
  Clients,   \* clients that follow a Run
  Follows    \* Follows[c]: the Run client c asks for

ASSUME StreamAssumption == Follows \in [Clients -> Runs]

VARIABLES
  offset,  \* RunStore: event_id_offset[r], ids of events it no longer has
  saved,   \* last_event_id in the Artifact of r
  phase,   \* phase[c]: "away", "ready", "yielding", "waiting", "over", "refused"
  cursor,  \* cursor[c]: id of the last event the stream yielded
  upto,    \* upto[c]: id of the last event of the slice being yielded
  got,     \* got[c]: the events client c has received
  round    \* round[c]: answers the Run had when the server ended c's stream

streams == <<phase, cursor, upto, got, round>>
ids == <<offset, saved>>
allVars == <<vars, ids, streams>>

Connected == {"ready", "yielding", "waiting"}

StreamInit ==
  /\ Init
  /\ offset = [r \in Runs |-> 0]
  /\ saved = [r \in Runs |-> 0]
  /\ phase = [c \in Clients |-> "away"]
  /\ cursor = [c \in Clients |-> 0]
  /\ upto = [c \in Clients |-> 0]
  /\ got = [c \in Clients |-> << >>]
  /\ round = [c \in Clients |-> 0]

LastId(r) == offset[r] + Len(wire[r])

-----------------------------------------------------------------------------
(* A step of the Run: every method of the store that changes it notifies.  *)

\* Mutant of Wakes: only append_event notifies.
WakesOnEvents(r) == wire'[r] # wire[r]

\* append_event and the status changes call condition.notify_all().
Wakes(r) == wire'[r] # wire[r] \/ status'[r] # status[r]

\* restore_artifact keeps the ids of a history that restore_events does not
\* bring back, because the journal does not know the Run.
Restores(r) == IF journal[r] = << >> THEN saved[r] ELSE 0

\* The snapshot that names the Run's status also names its last event id; one
\* that cannot be saved leaves both.
Checkpointed(r) ==
  IF process = "down" \/ wire'[r] = wire[r] THEN {saved[r]}
  ELSE (IF artifact'[r] = status'[r] THEN {offset[r] + Len(wire'[r])} ELSE {})
       \cup (IF DiskMayFail /\ artifact'[r] = artifact[r] THEN {saved[r]} ELSE {})

RunStep ==
  /\ Next
  /\ offset' = [r \in Runs |-> IF process = "down" /\ process' = "up" THEN Restores(r) ELSE offset[r]]
  /\ saved' \in {f \in [Runs -> UNION {Checkpointed(r) : r \in Runs}] : \A r \in Runs : f[r] \in Checkpointed(r)}
  /\ phase' = [c \in Clients |->
                IF process' = "down" /\ phase[c] \in Connected THEN "away"
                ELSE IF phase[c] = "waiting" /\ Wakes(Follows[c]) THEN "ready" ELSE phase[c]]
  /\ UNCHANGED <<cursor, upto, got, round>>

-----------------------------------------------------------------------------
(* A stream and its client.                                                *)

\* The client has its done and does not come back.
Told(c) == got[c] # << >> /\ Last(got[c]) \in Done

\* validate_last_event_id.
Acceptable(r, id) == id <= LastId(r)

\* A client connects: for the first time, or after its connection or the
\* server's stream ended short of a done.
Connect(c) ==
  /\ phase[c] \in {"away", "over"} /\ process # "down"
  /\ status[Follows[c]] # "none"
  /\ ~Told(c)
  /\ phase' = [phase EXCEPT ![c] = IF Acceptable(Follows[c], Len(got[c])) THEN "ready" ELSE "refused"]
  /\ cursor' = [cursor EXCEPT ![c] = Len(got[c])]
  /\ UNCHANGED <<vars, ids, upto, got, round>>

\* Mutant of From: the event the cursor names is sent again.
FromCursor(c) == IF cursor[c] > offset[Follows[c]] THEN cursor[c] - offset[Follows[c]] - 1 ELSE 0

\* Where in the store's list the stream goes on.
From(c) == IF cursor[c] > offset[Follows[c]] THEN cursor[c] - offset[Follows[c]] ELSE 0

Available(c) == From(c) < Len(wire[Follows[c]])

\* Nothing is left: the stream ends when the Run asks or is over.
Settled(c) ==
  LET r == Follows[c]
  IN  \/ status[r] = "awaiting_clarification" \/ status[r] \in Ends
      \/ wire[r] # << >> /\ Last(wire[r]) \in Done

\* The stream looks, holding the condition.
Look(c) ==
  /\ phase[c] = "ready"
  /\ IF Available(c)
     THEN /\ phase' = [phase EXCEPT ![c] = "yielding"]
          /\ upto' = [upto EXCEPT ![c] = LastId(Follows[c])]
          /\ UNCHANGED round
     ELSE /\ phase' = [phase EXCEPT ![c] = IF Settled(c) THEN "over" ELSE "waiting"]
          /\ round' = [round EXCEPT ![c] = answers[Follows[c]]]
          /\ UNCHANGED upto
  /\ UNCHANGED <<vars, ids, cursor, got>>

\* One event is handed to the client; after a done the stream is over.
Yield(c) ==
  LET at == From(c) + 1
      event == wire[Follows[c]][at]
      id == offset[Follows[c]] + at
  IN  /\ phase[c] = "yielding"
      /\ cursor' = [cursor EXCEPT ![c] = id]
      /\ got' = [got EXCEPT ![c] = Append(@, event)]
      /\ phase' = [phase EXCEPT ![c] =
                    IF event \in Done THEN "over" ELSE IF id = upto[c] THEN "ready" ELSE "yielding"]
      /\ round' = [round EXCEPT ![c] = answers[Follows[c]]]
      /\ UNCHANGED <<vars, ids, upto>>

\* The connection is lost, with what was on its way.
Drop(c) ==
  /\ phase[c] \in Connected
  /\ phase' = [phase EXCEPT ![c] = "away"]
  /\ UNCHANGED <<vars, ids, cursor, upto, got, round>>

StreamStep(c) == Look(c) \/ Yield(c)

StreamNext == RunStep \/ \E c \in Clients : Connect(c) \/ StreamStep(c) \/ Drop(c)

StreamSpec ==
  /\ StreamInit /\ [][StreamNext]_allVars
  /\ Fairness
  /\ \A c \in Clients : WF_allVars(StreamStep(c))

-----------------------------------------------------------------------------
(* Properties.                                                             *)

\* What client c received before it was told of an error.
BeforeError(c) == SubSeq(got[c], 1, Cardinality({n \in 1..Len(got[c]) : "error" \notin ToSet(SubSeq(got[c], 1, n))}))

\* A client that follows a Run over lost connections and restarts has, in
\* order, once and without a gap, what the journal has of it, up to an error
\* (a Run is given up with events no journal has, or with a committed event
\* left out, so ids after an error differ in the next process); and a client
\* whose stream the server ended has all the journal has, unless the Run was
\* resumed since or the client has that error.
ClientsFollow ==
  \A c \in Clients :
    LET r == Follows[c]
    IN  /\ IsPrefix(BeforeError(c), Projection(journal[r]))
        /\ phase[c] = "over" /\ round[c] = answers[r]
             => got[c] = Projection(journal[r]) \/ "error" \in ToSet(got[c])

\* No client waits for ever: as long as the process is not stopped, a stream of
\* a Run the journal knows ends, whichever way the Run ends or asks, and the
\* status a client may still read as running after its done becomes final.
StreamsEnd ==
  /\ \A c \in Clients :
       phase[c] \in Connected /\ journal[Follows[c]] # << >> ~> phase[c] \notin Connected
  /\ \A c \in Clients :
       Told(c) /\ got[c] = wire[Follows[c]] /\ task[Follows[c]] \notin Idle
         ~> status[Follows[c]] \in Ends \/ process = "down"
=============================================================================
