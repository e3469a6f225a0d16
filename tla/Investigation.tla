---------------------------- MODULE Investigation ----------------------------
(***************************************************************************)
(* One investigation: InvestigationRunner.run (investigation/runner.py)    *)
(* asks a gate whether to proceed, loads the data space, has a coordinator *)
(* hand out tasks, investigators find candidates side by side, one         *)
(* verifier per candidate judge it on evidence of its own, sends           *)
(* candidates back to be investigated again, and reports.  Proposals of    *)
(* signals are kept by the workbench of the Run (signals/workbench.py) and *)
(* only what was confirmed independently is saved.                         *)
(*                                                                         *)
(* The roles are models with tools (investigation/model.py): they answer   *)
(* anything their contracts allow, in any order, or fail.  A step is what  *)
(* one role does between two awaits.  What a verifier did for its          *)
(* candidate is kept as "read", its own query of the cohort with the       *)
(* journeys of its representatives, and as the definitions it measured     *)
(* with that very cohort.                                                  *)
(***************************************************************************)
EXTENDS Naturals, FiniteSets, SequencesExt

CONSTANTS
  Ids,         \* candidate ids
  Tasks,       \* the tasks a coordinator may hand out, at most 3 in the code
  Defs,        \* definitions of signals
  Concurrency, \* VERIFIER_CONCURRENCY, 6 in the code
  Deadlines,   \* whether the runner was given deadlines; the API gives none
  MaxRounds,   \* bound of the instance: so many rounds of reinvestigation are followed;
               \* the code has no limit
  MaxFound     \* candidates in one result, 6 in the code

ASSUME InvestigationAssumption ==
  /\ Concurrency \in Nat \ {0} /\ MaxRounds \in Nat /\ MaxFound \in Nat
  /\ Deadlines \in BOOLEAN

VARIABLES
  phase,      \* where the runner stands
  round,      \* round_index
  crew,       \* the roles being gathered: task or candidate id -> their state
  found,      \* what the investigators of this round returned
  candidates, \* sequence of [id, by, owner]: by names the result it came in, owner
              \* whose query its cohort is
  decisions,  \* id -> its decision, or Undecided
  proposals,  \* id -> the definition proposed last, or NoDef
  work,       \* id -> what its verifier of this round has done
  cut,        \* what the report's limitations say cut the rounds short: "no",
              \* "deadline" or "refused"
  saved,      \* id -> the Proposal saved, or NoProposal
  status      \* of the outcome

state == <<candidates, decisions, proposals, work>>
teamVars == <<phase, round, crew, found, state, cut, saved, status>>

NoDef == "no definition"
Undecided == [verdict |-> "none"]
NoProposal == [def |-> NoDef]
NoWork == [i \in Ids |-> {}]
NoCrew == [m \in {} |-> "done"]

TeamInit ==
  /\ phase = "intake" /\ round = 0 /\ crew = NoCrew /\ found = NoCrew
  /\ candidates = << >> /\ decisions = [i \in Ids |-> Undecided]
  /\ proposals = [i \in Ids |-> NoDef] /\ work = NoWork
  /\ cut = "no" /\ saved = [i \in Ids |-> NoProposal] /\ status = "none"

End(with) == phase' = "ended" /\ status' = with
Go(to) == phase' = to /\ UNCHANGED status

\* The task id a verifier runs under, which owns its queries (query_owner), and
\* the owners of all others.
Team == <<"team", 0, "others">>
Verifier(id) == <<"verifier", round, id>>

Candidate(id) == CHOOSE c \in ToSet(candidates) : c.id = id
IdsIn(cands) == {cands[i].id : i \in DOMAIN cands}

-----------------------------------------------------------------------------
(* The gate, the data space and the coordinator.                           *)

\* classify_input is answered, or fails, which blocks too.
Intake(action) ==
  /\ phase = "intake"
  /\ CASE action = "proceed" -> Go("loading")
       [] action = "clarify" -> End("awaiting")
       [] OTHER -> End("failed")
  /\ UNCHANGED <<round, crew, found, state, cut, saved>>

\* data_factory returns or raises.
Load(ok) ==
  /\ phase = "loading"
  /\ IF ok THEN Go("coordinating") ELSE End("failed")
  /\ UNCHANGED <<round, crew, found, state, cut, saved>>

\* The coordinator's tasks are investigated together; without them the Run fails.
Coordinate(tasks) ==
  /\ phase = "coordinating"
  /\ IF tasks = {} THEN End("failed") /\ UNCHANGED <<crew, found>>
     ELSE /\ Go("investigating")
          /\ crew' = [t \in tasks |-> "working"] /\ found' = [t \in tasks |-> << >>]
  /\ UNCHANGED <<round, state, cut, saved>>

-----------------------------------------------------------------------------
(* Investigators.                                                          *)

\* propose_signal by an investigator, of a definition it has measured: for any
\* candidate.
Propose(m, id, def) ==
  /\ phase = "investigating" /\ crew[m] = "working"
  /\ proposals' = [proposals EXCEPT ![id] = def]
  /\ UNCHANGED <<phase, round, crew, found, candidates, decisions, work, cut, saved, status>>

\* In the first round a candidate that is there stays, later it is replaced.
Placed(cands, c) ==
  IF c.id \notin IdsIn(cands) THEN Append(cands, c)
  ELSE IF c.by[1] = 0 THEN cands
  ELSE [i \in DOMAIN cands |-> IF cands[i].id = c.id THEN c ELSE cands[i]]

\* Whose queries a candidate may cite: those of any role that has run, for only
\* their place in the data space is looked at.  The coordinator and the
\* investigators are one owner here, as no verifier is taken for one of them.
Citable ==
  {Team} \cup {<<"verifier", r, id>> : r \in 0..(round - 1), id \in {i \in Ids : decisions[i] # Undecided}}

\* investigate() returns: finish accepted the references, or the role failed and
\* its result is empty.
Investigated(m, result) ==
  /\ phase = "investigating" /\ crew[m] = "working"
  /\ crew' = [crew EXCEPT ![m] = "done"]
  /\ found' = [found EXCEPT ![m] = result]
  /\ candidates' = FoldLeft(Placed, candidates, result)
  /\ UNCHANGED <<phase, round, decisions, proposals, work, cut, saved, status>>

Results(m) ==
  LET one == {[id |-> i, by |-> <<round, m>>, owner |-> o] : i \in Ids, o \in Citable}
  IN  UNION {[1..n -> one] : n \in 0..MaxFound}

AllDone == \A m \in DOMAIN crew : crew[m] = "done"

\* Mutant of Changed: only the candidates that were sent back.
SentBackOnly == {id \in Ids : decisions[id].verdict = "reinvestigate"}

\* The candidates a round has to judge: those returned and those sent back.
Changed ==
  {id \in Ids : decisions[id].verdict = "reinvestigate"}
  \cup UNION {IdsIn(found[m]) : m \in DOMAIN found}

\* The candidates of the round in the order of its tasks, which is the order of
\* the decisions that sent them back.
MergeOf(cands, c) == IF c.id \in DOMAIN found THEN FoldLeft(Placed, cands, found[c.id]) ELSE cands
Merged == FoldLeft(MergeOf, candidates, candidates)

\* The gather of the investigators ends; with candidates, verifiers are made.
Gathered ==
  /\ phase = "investigating" /\ AllDone
  /\ candidates' = IF round = 0 THEN candidates ELSE Merged
  /\ IF candidates = << >> THEN Go("reporting") /\ crew' = NoCrew
     ELSE Go("verifying") /\ crew' = [id \in Changed |-> "waiting"]
  /\ found' = NoCrew
  /\ UNCHANGED <<round, decisions, proposals, work, cut, saved>>

-----------------------------------------------------------------------------
(* Verifiers.                                                              *)

\* recheck_candidate: the candidate's own query and journeys again, and a
\* measurement of what is proposed for it.
Precheck(id) == {"read"} \cup ({proposals[id]} \ {NoDef})

\* A verifier gets a place and the server prepares its checks, each of which may
\* fail.
StartVerifier(id) ==
  /\ phase = "verifying" /\ crew[id] = "waiting"
  /\ Cardinality({m \in DOMAIN crew : crew[m] = "working"}) < Concurrency
  /\ crew' = [crew EXCEPT ![id] = "working"]
  /\ \E got \in SUBSET Precheck(id) : work' = [work EXCEPT ![id] = got]
  /\ UNCHANGED <<phase, round, found, candidates, decisions, proposals, cut, saved, status>>

\* query_data with customer_journey, or measure_signal, by a verifier.
VerifierLooks(id, what) ==
  /\ phase = "verifying" /\ crew[id] = "working" /\ what \notin work[id]
  /\ work' = [work EXCEPT ![id] = @ \cup {what}]
  /\ UNCHANGED <<phase, round, crew, found, candidates, decisions, proposals, cut, saved, status>>

\* propose_signal by a verifier: of its own candidate and its own measurement.
VerifierProposes(id, def) ==
  /\ phase = "verifying" /\ crew[id] = "working" /\ def \in work[id]
  /\ proposals' = [proposals EXCEPT ![id] = def]
  /\ UNCHANGED <<phase, round, crew, found, candidates, decisions, work, cut, saved, status>>

\* Mutant of VerifiedMeasurement: whoever measured it.
MeasuredBySomeone(id, done) == proposals[id] # NoDef

\* SignalWorkbench.verified_measurement, done being the work of one verifier.
VerifiedMeasurement(id, done) == proposals[id] \in done

\* What _reference_feedback and verify_candidate ask of a confirmation.
Independent(id) == "read" \in work[id] /\ VerifiedMeasurement(id, work[id])

DecisionOf(id, verdict) ==
  [verdict |-> verdict, of |-> Candidate(id).by, owner |-> Verifier(id),
   done |-> IF verdict = "confirmed" THEN work[id] ELSE {}]

Decided(id, decision) ==
  /\ phase = "verifying" /\ crew[id] = "working"
  /\ crew' = [crew EXCEPT ![id] = "done"]
  /\ decisions' = [decisions EXCEPT ![id] = decision]
  /\ work' = [work EXCEPT ![id] = {}]
  /\ UNCHANGED <<phase, round, found, candidates, proposals, cut, saved, status>>

\* A verifier finishes with its verdict.
Judge(id, verdict) ==
  /\ verdict = "confirmed" => Independent(id)
  /\ Decided(id, DecisionOf(id, verdict))

\* Mutant of Unfinished: what was decided before stays.
StaysDecided(id) == decisions[id]

Unfinished(id) == DecisionOf(id, "candidate")

\* A verifier fails or decides nothing of its candidate.
VerifierFails(id) == Decided(id, Unfinished(id))

SentBack == {id \in Ids : decisions[id].verdict = "reinvestigate"}

\* verify() returns, and nothing was sent back.
RoundsDone ==
  /\ SentBack = {}
  /\ Go("reporting") /\ crew' = NoCrew /\ UNCHANGED <<round, found, cut>>

\* What was sent back is investigated again, under a Task of its own each.
NextRound ==
  /\ SentBack # {} /\ round < MaxRounds
  /\ Go("investigating") /\ round' = round + 1
  /\ crew' = [id \in SentBack |-> "working"] /\ found' = [id \in SentBack |-> << >>]
  /\ UNCHANGED cut

\* The question of such a Task, a sentence of the server's before the verifier's
\* text, may be longer than a Task admits: the report follows at once, with a
\* limitation that says so, and what was sent back stays open.
FollowupRefused ==
  /\ SentBack # {}
  /\ Go("reporting") /\ cut' = "refused" /\ crew' = NoCrew /\ UNCHANGED <<round, found>>

Verified ==
  /\ phase = "verifying" /\ AllDone
  /\ RoundsDone \/ NextRound \/ FollowupRefused
  /\ UNCHANGED <<state, saved>>

-----------------------------------------------------------------------------
(* Deadlines, the report and the end.                                      *)

\* The investigation's deadline: every role is cancelled, what was found is kept.
InvestigationTimeout ==
  /\ Deadlines /\ phase \in {"coordinating", "investigating", "verifying"}
  /\ cut' = "deadline" /\ Go("reporting")
  /\ crew' = NoCrew /\ found' = NoCrew
  /\ UNCHANGED <<round, state, saved>>

\* The reporter's answer, or the server's narrative: both leave the decisions
\* alone, which the projection reports.
Report ==
  /\ phase = "reporting" /\ Go("saving")
  /\ UNCHANGED <<round, crew, found, state, cut, saved>>

\* persist: a candidate has a Proposal to save if its decision and a measurement
\* of its verifier allow it.
Savable(c) ==
  LET d == decisions[c.id]
  IN  /\ d.verdict = "confirmed"
      /\ d.owner # c.owner
      /\ VerifiedMeasurement(c.id, d.done)

SavedUpTo(n) ==
  [id \in Ids |->
     IF \E i \in 1..n : candidates[i].id = id /\ Savable(candidates[i])
       THEN [def |-> proposals[id], by |-> decisions[id].owner]
       ELSE NoProposal]

\* One save after the other, in a thread; the store may fail in the middle.  The
\* facts and the result follow.
Persist(n) ==
  /\ phase = "saving"
  /\ saved' = SavedUpTo(n)
  /\ End(IF n = Len(candidates) THEN "completed" ELSE "failed")
  /\ UNCHANGED <<round, crew, found, state, cut>>

\* The Run is cancelled, or its own deadline fails it: roles are cancelled, a
\* thread that saves goes on.
Stop ==
  /\ phase \notin {"intake", "ended"}
  /\ End("stopped")
  /\ saved' = IF phase = "saving" THEN SavedUpTo(Len(candidates)) ELSE saved
  /\ crew' = NoCrew /\ found' = NoCrew
  /\ UNCHANGED <<round, state, cut>>

Investigating ==
  \E m \in DOMAIN crew :
    \/ \E id \in Ids, def \in Defs : Propose(m, id, def)
    \/ phase = "investigating" /\ \E result \in Results(m) : Investigated(m, result)

Verifying ==
  \E id \in DOMAIN crew \cap Ids :
    \/ StartVerifier(id)
    \/ \E what \in Defs \cup {"read"} : VerifierLooks(id, what)
    \/ \E def \in Defs : VerifierProposes(id, def)
    \/ phase = "verifying" /\
         \E verdict \in {"confirmed", "candidate", "rejected", "reinvestigate"} : Judge(id, verdict)
    \/ phase = "verifying" /\ VerifierFails(id)

TeamNext ==
  \/ \E action \in {"proceed", "clarify", "block", "raise"} : Intake(action)
  \/ \E ok \in BOOLEAN : Load(ok)
  \/ \E tasks \in SUBSET Tasks : Coordinate(tasks)
  \/ Investigating \/ Gathered \/ Verifying \/ Verified
  \/ InvestigationTimeout
  \/ Report \/ \E n \in 0..Len(candidates) : Persist(n)
  \/ Stop

TeamSpec == TeamInit /\ [][TeamNext]_teamVars

\* A verifier of the last round this instance follows has sent its candidate back.
BeyondBound ==
  /\ phase = "verifying" /\ AllDone /\ round = MaxRounds
  /\ \E id \in SentBack : decisions[id].owner = Verifier(id)

\* Roles end: they finish or their model fails.  Without deadlines nothing in
\* the code bounds a role's tool calls, so this is asked of the model.
RolesEnd ==
  \/ \E m \in DOMAIN crew : phase = "investigating" /\ Investigated(m, << >>)
  \/ \E id \in DOMAIN crew \cap Ids : StartVerifier(id) \/ (phase = "verifying" /\ VerifierFails(id))

RunnerSteps ==
  \/ \E action \in {"proceed", "clarify", "block", "raise"} : Intake(action)
  \/ \E ok \in BOOLEAN : Load(ok)
  \/ \E tasks \in SUBSET Tasks : Coordinate(tasks)
  \/ Gathered \/ (Verified /\ cut' # "refused") \/ Report
  \/ \E n \in 0..Len(candidates) : Persist(n)

FairTeamSpec == TeamSpec /\ WF_teamVars(RolesEnd) /\ WF_teamVars(RunnerSteps)

-----------------------------------------------------------------------------
(* Properties.                                                             *)

\* Every variable holds a value the code can give it, and only candidates that
\* are there are judged or being judged.
TeamTypeOK ==
  /\ phase \in {"intake", "loading", "coordinating", "investigating", "verifying", "reporting",
                "saving", "ended"}
  /\ round \in 0..MaxRounds
  /\ \A m \in DOMAIN crew : crew[m] \in {"waiting", "working", "done"}
  /\ phase \in {"investigating", "verifying"} \/ crew = NoCrew
  /\ IsInjective([i \in DOMAIN candidates |-> candidates[i].id])
  /\ \A id \in Ids : decisions[id] # Undecided => id \in IdsIn(candidates)
  /\ cut \in {"no", "deadline", "refused"}
  /\ status \in {"none", "awaiting", "failed", "completed", "stopped"}

\* Whatever the roles answer and propose, and whenever a deadline or a failing
\* store cuts the Run short, a saved Proposal is that of a candidate which a
\* verifier other than the author of its cohort confirmed, on a query and on
\* journeys of its own, and whose definition this verifier measured itself
\* (SignalWorkbench.persist).
ProposalsBacked ==
  TeamTypeOK /\ \A id \in Ids : saved[id] # NoProposal =>
    LET p == saved[id]
    IN  /\ decisions[id].verdict = "confirmed" /\ decisions[id].owner = p.by
        /\ p.by[1] = "verifier" /\ p.by[3] = id /\ p.by # Candidate(id).owner
        /\ {"read", p.def} \subseteq decisions[id].done

\* The report follows the verifiers.  A candidate it confirms was confirmed on
\* evidence of the verifier's own; unless the deadline cut the rounds short, every
\* candidate was judged in the very version that is reported; and one that is
\* still to be investigated again is only reported beside a limitation that says
\* the rounds were cut short.
ReportedAsVerified ==
  phase = "saving" =>
    \A i \in DOMAIN candidates :
      LET c == candidates[i]
          d == decisions[c.id]
      IN  /\ d.verdict = "confirmed" => "read" \in d.done
          /\ cut # "deadline" => d # Undecided /\ d.of = c.by
          /\ cut = "no" => d.verdict # "reinvestigate"

\* An investigation ends, in a report or in a failure that is told, whichever of
\* its roles fail: another round needs a verifier of this very round that
\* answers and sends its candidate back, which is asked no more than MaxRounds
\* times here.  The code sets no limit (`while followups`, runner.py:498), so
\* verifiers that always send something back keep a Run going.
RunEnds == <>((phase = "ended" /\ status # "none") \/ BeyondBound)
=============================================================================
