---------------------------- MODULE FinalEpisode ----------------------------
(***************************************************************************)
(* What the finalization of a task promises: an episode only moves forward *)
(* through its substates and a terminal substate absorbs it, and whatever  *)
(* number of episodes commit, the task has one result: the first one, and  *)
(* an episode that ends well was told that very result.                    *)
(***************************************************************************)
EXTENDS Naturals, Sequences

CONSTANTS Episode, Result, NoResult

VARIABLES substate,    \* the substate of each episode
          result,      \* the result of the task
          told         \* what each episode answered

vars == <<substate, result, told>>

FORWARD_ORDER == <<"CREATED", "SNAPSHOT_BOUND", "MODEL_RUNNING", "CANDIDATE_STAGED",
                   "VALIDATING", "REPAIRING", "ACCEPTED", "ASSEMBLING", "COMMITTING",
                   "COMMITTED">>
Forward == {FORWARD_ORDER[i] : i \in DOMAIN FORWARD_ORDER} \ {"COMMITTED"}
FINAL_TERMINAL_SUBSTATES == {"INVALIDATED_STALE", "FAILED", "CANCELLED"}

Position(s) == CHOOSE i \in DOMAIN FORWARD_ORDER : FORWARD_ORDER[i] = s

Init == /\ substate = [e \in Episode |-> "CREATED"]
        /\ result = NoResult
        /\ told = [e \in Episode |-> NoResult]

\* advance_substate refuses every other target; steps may be skipped.
MayAdvance(s, target) ==
  /\ s \notin FINAL_TERMINAL_SUBSTATES
  /\ target \notin FINAL_TERMINAL_SUBSTATES => Position(target) > Position(s)

advance_substate(e, target) ==
  /\ MayAdvance(substate[e], target)
  /\ substate' = [substate EXCEPT ![e] = target]

Advance(e) ==
  /\ \E target \in FINAL_TERMINAL_SUBSTATES \union Forward : advance_substate(e, target)
  /\ UNCHANGED <<result, told>>

\* The first commit decides; a later one of the same result is a replay of it.
Commit(e) ==
  /\ advance_substate(e, "COMMITTED")
  /\ result = NoResult => result' \in Result
  /\ result # NoResult => result' = result
  /\ UNCHANGED told

Answer(e) ==
  /\ substate[e] = "COMMITTED"
  /\ told' = [told EXCEPT ![e] = result]
  /\ UNCHANGED <<substate, result>>

Next == \E e \in Episode : Advance(e) \/ Commit(e) \/ Answer(e)

Spec == Init /\ [][Next]_vars
=============================================================================
