------------------------------ MODULE RunPhases ------------------------------
(***************************************************************************)
(* What the API promises of a Run's status, with nothing about tasks,      *)
(* journal, stream or snapshot file: a Run is worked on, may stop to ask   *)
(* its user and go on with the answer, and ends once.  A shutdown, a crash *)
(* or a restart moves any number of Runs at a time, each along these moves *)
(* (the Run statuses of runtime/run_store.py).                             *)
(***************************************************************************)
CONSTANT Runs

VARIABLE phase  \* phase[r]: "absent", "working", "asking" or how r has ended

Ends == {"completed", "degraded", "failed"}
Phases == {"absent", "working", "asking"} \cup Ends

Moves == {<<"absent", "working">>, <<"working", "asking">>, <<"asking", "working">>}
         \cup ({"working"} \X Ends)

PhaseInit == phase = [r \in Runs |-> "absent"]

PhaseNext ==
  /\ phase' \in [Runs -> Phases]
  /\ \A r \in Runs : phase'[r] # phase[r] => <<phase[r], phase'[r]>> \in Moves

PhaseSpec == PhaseInit /\ [][PhaseNext]_phase
=============================================================================
