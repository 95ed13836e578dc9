------------------------- MODULE GoalPlanningProofs -------------------------
(***************************************************************************)
(* Theorems about GoalPlanning, for any set of supervisors, attempts,      *)
(* goals and drafts and any number of crashes.                             *)
(*                                                                         *)
(* The properties hold together: an answer is true because the rows it is  *)
(* about are never taken back (Kept), and rows are consistent because an   *)
(* execution knows, at each of its steps, that what it did before is still *)
(* stored (ExecutionTrue).  IInv joins the two.                            *)
(*                                                                         *)
(* That an active plan can be finished rests on the search for a cycle:    *)
(* its recursion has a solution, and a search that does not come back has  *)
(* seen everything it could go on to.                                      *)
(***************************************************************************)
EXTENDS GoalPlanning, FiniteSetTheorems, WellFoundedInduction, TLAPS

\* A stored goal is told by its attempt, by its goal and by the version it used up.
GoalsUnique ==
  /\ \A r \in goals : r.version < task.version
  /\ \A x, y \in goals :
       x.attempt = y.attempt \/ x.goal = y.goal \/ x.version = y.version => x = y

\* The active plan rests on a goal whose execution also ended the plan's attempt.
PlanRests ==
  plan # None =>
    \E r \in goals :
      /\ r.goal = plan.goal /\ r.goal \notin Blocking
      /\ attempt[plan.attempt] =
           [status |-> "COMPLETED", result |-> plan.draft, endedBy |-> r.attempt]

\* While the task is being planned nothing was asked and no plan is active.
PlanningIsEarly == task.status = "PLANNING" => requests = {} /\ plan = None

RowInv == /\ IsFiniteSet(goals) /\ GoalsUnique /\ PlanRests /\ PlanningIsEarly
          /\ RowsAgree /\ QuestionExcludesPlan

HasGoal(e) == \E r \in goals : r.attempt = e.attempt /\ r.goal = e.goal

\* What an execution knows at each of its steps, and what it answered.
ExecutionTrue(e) ==
  /\ e.pc # "idle" => e.answer = "none"
  /\ e.pc # "idle" \/ e.answer = "activated" =>
       e.attempt \in GoalAttempt /\ materials[e.attempt] # None
  /\ e.pc \in {"complete", "draft", "activate"} => e.goal \in Goal
  /\ e.pc \in {"draft", "activate"} => e.goal \notin Blocking /\ HasGoal(e)
  /\ e.pc = "activate" => e.draft \in Draft
  /\ e.answer = "activated" => plan # None /\ plan = PlanOf(e)
  /\ e.answer = "waiting" => e.goal \in Blocking /\ e.attempt \in requests /\ HasGoal(e)

ExecutionsTrue == \A s \in Supervisor : ExecutionTrue(run[s])

IInv == TypeOK /\ RowInv /\ ExecutionsTrue

-----------------------------------------------------------------------------
(* Executions *)

LEMMA IdleFacts == Idle \in Execution /\ ExecutionTrue(Idle)
  BY DEF Idle, Execution, Answer, ExecutionTrue

Point == {"idle", "understand", "complete", "draft", "activate"}

LEMMA AnsweredFields ==
  ASSUME NEW e \in Execution, NEW a \in Answer
  PROVE LET x == [e EXCEPT !.pc = "idle", !.answer = a]
        IN /\ x \in Execution /\ x.pc = "idle" /\ x.answer = a
           /\ x.attempt = e.attempt /\ x.goal = e.goal /\ x.draft = e.draft
  BY DEF Execution

LEMMA PointFields ==
  ASSUME NEW e \in Execution, NEW p \in Point
  PROVE LET x == [e EXCEPT !.pc = p]
        IN /\ x \in Execution /\ x.pc = p /\ x.answer = e.answer
           /\ x.attempt = e.attempt /\ x.goal = e.goal /\ x.draft = e.draft
  BY DEF Execution, Point

LEMMA GoalFields ==
  ASSUME NEW e \in Execution, NEW g \in Goal
  PROVE LET x == [e EXCEPT !.pc = "complete", !.goal = g]
        IN /\ x \in Execution /\ x.pc = "complete" /\ x.answer = e.answer
           /\ x.attempt = e.attempt /\ x.goal = g /\ x.draft = e.draft
  BY DEF Execution

LEMMA DraftFields ==
  ASSUME NEW e \in Execution, NEW d \in Draft
  PROVE LET x == [e EXCEPT !.pc = "activate", !.draft = d]
        IN /\ x \in Execution /\ x.pc = "activate" /\ x.answer = e.answer
           /\ x.attempt = e.attempt /\ x.goal = e.goal /\ x.draft = d
  BY DEF Execution

\* One execution takes a step, the others stand still.
LEMMA OneBecomes ==
  ASSUME TypeOK, NEW s \in Supervisor, NEW e \in Execution, Becomes(s, e)
  PROVE /\ run' \in [Supervisor -> Execution] /\ run'[s] = e
        /\ \A t \in Supervisor \ {s} : run'[t] = run[t]
  BY DEF TypeOK, Becomes

\* What was stored or fixed is not taken back.
Kept == /\ goals \subseteq goals' /\ requests \subseteq requests'
        /\ plan # None => plan' = plan
        /\ \A g \in GoalAttempt : materials[g] # None => materials'[g] = materials[g]

LEMMA ExecutionKept ==
  ASSUME Kept, NEW e \in Execution, ExecutionTrue(e)
  PROVE ExecutionTrue(e)'
  <1>1. HasGoal(e) => HasGoal(e)' BY DEF HasGoal, Kept
  <1>2. e.attempt \in GoalAttempt /\ materials[e.attempt] # None =>
          materials'[e.attempt] # None /\ PlanOf(e)' = PlanOf(e)
    BY DEF Kept, PlanOf
  <1>3. e.attempt \in requests => e.attempt \in requests' BY DEF Kept
  <1>4. plan # None => plan' = plan BY DEF Kept
  <1>. QED BY <1>1, <1>2, <1>3, <1>4, Zenon DEF ExecutionTrue

\* One execution takes a step whose outcome is true, and nothing is taken back.
LEMMA ExecutionStep ==
  ASSUME IInv, Kept, NEW s \in Supervisor, NEW e \in Execution, Becomes(s, e), ExecutionTrue(e)'
  PROVE run' \in [Supervisor -> Execution] /\ ExecutionsTrue'
  <1>1. /\ run' \in [Supervisor -> Execution] /\ run'[s] = e
        /\ \A t \in Supervisor \ {s} : run'[t] = run[t]
    BY OneBecomes DEF IInv
  <1>2. ASSUME NEW t \in Supervisor PROVE ExecutionTrue(run[t])'
    <2>1. CASE t = s BY <1>1, <2>1, Zenon DEF ExecutionTrue, HasGoal, PlanOf
    <2>2. CASE t # s
      <3>1. run[t] \in Execution /\ ExecutionTrue(run[t]) BY DEF IInv, TypeOK, ExecutionsTrue
      <3>2. PICK x \in Execution : x = run[t] /\ ExecutionTrue(x) BY <3>1
      <3>3. ExecutionTrue(x)' BY <3>2, ExecutionKept
      <3>4. run'[t] = x BY <1>1, <2>2, <3>2
      <3>. QED BY <3>3, <3>4, Zenon DEF ExecutionTrue, HasGoal, PlanOf
    <2>. QED BY <2>1, <2>2
  <1>. QED BY <1>1, <1>2 DEF ExecutionsTrue

\* The executions stand still.
LEMMA ExecutionsStill ==
  ASSUME IInv, Kept, UNCHANGED run
  PROVE ExecutionsTrue'
  <1> SUFFICES ASSUME NEW t \in Supervisor PROVE ExecutionTrue(run[t])' BY DEF ExecutionsTrue
  <1>1. run[t] \in Execution /\ ExecutionTrue(run[t]) BY DEF IInv, TypeOK, ExecutionsTrue
  <1>2. PICK x \in Execution : x = run[t] /\ ExecutionTrue(x) BY <1>1
  <1>3. ExecutionTrue(x)' BY <1>2, ExecutionKept
  <1>. QED BY <1>2, <1>3, Zenon DEF ExecutionTrue, HasGoal, PlanOf

-----------------------------------------------------------------------------
(* The rows, transaction by transaction *)

\* A step that moves the task on without touching a row.
LEMMA RowsStill ==
  ASSUME IInv, UNCHANGED <<goals, requests, plan, attempt, events>>,
         task'.version = task.version, task'.active = task.active,
         task'.status = "PLANNING" => task.status = "PLANNING"
  PROVE RowInv'
  <1>1. GoalsUnique' BY DEF IInv, RowInv, GoalsUnique
  <1>2. PlanRests' BY DEF IInv, RowInv, PlanRests
  <1>3. PlanningIsEarly' BY DEF IInv, RowInv, PlanningIsEarly
  <1>4. RowsAgree' BY DEF IInv, RowInv, RowsAgree, OneGoalPerVersion
  <1>. QED BY <1>1, <1>2, <1>3, <1>4 DEF IInv, RowInv, QuestionExcludesPlan

\* The workflow ends a plan attempt that is still running.
LEMMA EndAttemptRows ==
  ASSUME IInv, NEW p \in PlanAttempt, EndAttempt(p)
  PROVE RowInv' /\ attempt' \in [PlanAttempt -> AttemptRow]
  <1>1. /\ attempt' \in [PlanAttempt -> AttemptRow] /\ attempt'[p].status = "ENDED"
        /\ attempt[p].status = "RUNNING"
        /\ \A q \in PlanAttempt \ {p} : attempt'[q] = attempt[q]
    BY DEF EndAttempt, IInv, TypeOK, AttemptRow
  <1>2. UNCHANGED <<task, goals, requests, plan, events>> BY DEF EndAttempt
  <1>3. plan # None => plan.attempt \in PlanAttempt \ {p}
    BY <1>1 DEF IInv, RowInv, RowsAgree, TypeOK, PlanVersion
  <1>4. plan # None => attempt'[plan.attempt] = attempt[plan.attempt] BY <1>1, <1>3
  <1>5. PlanRests' BY <1>2, <1>4 DEF IInv, RowInv, PlanRests
  <1>6. RowsAgree'
    <2>1. \A q \in PlanAttempt :
            attempt'[q].status = "COMPLETED" => plan # None /\ plan.attempt = q
      BY <1>1 DEF IInv, RowInv, RowsAgree
    <2>. QED BY <1>2, <1>4, <2>1 DEF IInv, RowInv, RowsAgree, OneGoalPerVersion
  <1>7. GoalsUnique' BY <1>2 DEF IInv, RowInv, GoalsUnique
  <1>8. PlanningIsEarly' /\ QuestionExcludesPlan'
    BY <1>2 DEF IInv, RowInv, PlanningIsEarly, QuestionExcludesPlan
  <1>. QED BY <1>1, <1>2, <1>5, <1>6, <1>7, <1>8 DEF IInv, RowInv

NewGoal(e) == [attempt |-> e.attempt, goal |-> e.goal, version |-> materials[e.attempt].version]

\* What storing a goal finds and does, field by field.
LEMMA StoreGoalFields ==
  ASSUME IInv, NEW e \in Execution, e.attempt \in GoalAttempt, materials[e.attempt] # None,
         e.goal \in Goal, GoalFits(e), StoreGoal(e)
  PROVE /\ NewGoal(e) \in GoalRow /\ NewGoal(e).version = task.version
        /\ goals' = goals \union {NewGoal(e)} /\ NewGoal(e) \notin goals
        /\ task.status = "PLANNING" /\ requests = {} /\ plan = None
        /\ task' \in Task /\ task'.version = task.version + 1 /\ task'.active = task.active
        /\ e.goal \in Blocking => task'.status # "PLANNING" /\ requests' = {e.attempt}
        /\ e.goal \notin Blocking => task'.status = "PLANNING" /\ requests' = {}
        /\ events' \in [goal : Nat, request : Nat, plan : Nat]
        /\ events'.goal = events.goal + 1 /\ events'.plan = events.plan
        /\ e.goal \in Blocking => events'.request = events.request + 1
        /\ e.goal \notin Blocking => events'.request = events.request
  <1>1. task.status = "PLANNING" /\ task.version = materials[e.attempt].version
        /\ \A r \in goals : r.attempt # e.attempt
    BY DEF GoalFits, VersionFits
  <1>2. requests = {} /\ plan = None BY <1>1 DEF IInv, RowInv, PlanningIsEarly
  <1>3. task \in Task /\ events \in [goal : Nat, request : Nat, plan : Nat] BY DEF IInv, TypeOK
  <1>4. /\ NewGoal(e) \in GoalRow /\ NewGoal(e).version = task.version /\ NewGoal(e) \notin goals
    <2>1. task.version \in Nat BY <1>3 DEF Task
    <2>. QED BY <1>1, <2>1 DEF NewGoal, GoalRow
  <1>5. goals' = goals \union {NewGoal(e)} BY DEF StoreGoal, NewGoal
  <1>6. /\ task' \in Task /\ task'.version = task.version + 1 /\ task'.active = task.active
        /\ e.goal \in Blocking => task'.status # "PLANNING"
        /\ e.goal \notin Blocking => task'.status = "PLANNING"
    <2>1. \A n \in Nat, x \in Status :
            LET t == [task EXCEPT !.version = n, !.status = x]
            IN t \in Task /\ t.version = n /\ t.status = x /\ t.active = task.active
      BY <1>3 DEF Task
    <2>2. task.version + 1 \in Nat BY <1>3 DEF Task
    <2>3. task' = [task EXCEPT !.version = task.version + 1,
                     !.status = IF e.goal \in Blocking THEN "WAITING_USER_INPUT" ELSE "PLANNING"]
      BY DEF StoreGoal
    <2>4. "WAITING_USER_INPUT" \in Status BY DEF Status
    <2>5. "PLANNING" \in Status BY DEF Status
    <2>6. CASE e.goal \in Blocking
      <3>1. task' = [task EXCEPT !.version = task.version + 1, !.status = "WAITING_USER_INPUT"]
        BY <2>3, <2>6
      <3>2. LET t == [task EXCEPT !.version = task.version + 1, !.status = "WAITING_USER_INPUT"]
            IN /\ t \in Task /\ t.version = task.version + 1
               /\ t.status = "WAITING_USER_INPUT" /\ t.active = task.active
        BY <2>1, <2>2, <2>4, Zenon
      <3>. QED BY <2>6, <3>1, <3>2, Zenon
    <2>7. CASE e.goal \notin Blocking
      <3>1. task' = [task EXCEPT !.version = task.version + 1, !.status = "PLANNING"]
        BY <2>3, <2>7
      <3>2. LET t == [task EXCEPT !.version = task.version + 1, !.status = "PLANNING"]
            IN /\ t \in Task /\ t.version = task.version + 1
               /\ t.status = "PLANNING" /\ t.active = task.active
        BY <2>1, <2>2, <2>5, Zenon
      <3>. QED BY <2>7, <3>1, <3>2, Zenon
    <2>. QED BY <2>6, <2>7
  <1>7. requests' = IF e.goal \in Blocking THEN {e.attempt} ELSE {}
    BY <1>2 DEF StoreGoal
  <1>8. /\ events' \in [goal : Nat, request : Nat, plan : Nat]
        /\ events'.goal = events.goal + 1 /\ events'.plan = events.plan
        /\ e.goal \in Blocking => events'.request = events.request + 1
        /\ e.goal \notin Blocking => events'.request = events.request
    <2>1. \A n, m \in Nat :
            LET v == [events EXCEPT !.goal = n, !.request = m]
            IN /\ v \in [goal : Nat, request : Nat, plan : Nat]
               /\ v.goal = n /\ v.request = m /\ v.plan = events.plan
      BY <1>3
    <2>2. events.goal + 1 \in Nat /\ events.request \in Nat /\ events.request + 1 \in Nat
      BY <1>3
    <2>3. events' = [events EXCEPT !.goal = events.goal + 1,
                       !.request = IF e.goal \in Blocking THEN events.request + 1 ELSE events.request]
      BY <1>3 DEF StoreGoal
    <2>4. CASE e.goal \in Blocking
      <3>1. events' = [events EXCEPT !.goal = events.goal + 1, !.request = events.request + 1]
        BY <2>3, <2>4
      <3>. QED BY <2>1, <2>2, <2>4, <3>1, Zenon
    <2>5. CASE e.goal \notin Blocking
      <3>1. events' = [events EXCEPT !.goal = events.goal + 1, !.request = events.request]
        BY <2>3, <2>5
      <3>. QED BY <2>1, <2>2, <2>5, <3>1, Zenon
    <2>. QED BY <2>4, <2>5
  <1>. QED BY <1>1, <1>2, <1>4, <1>5, <1>6, <1>7, <1>8, Zenon

LEMMA StoreGoalRows ==
  ASSUME IInv, NEW e \in Execution, e.attempt \in GoalAttempt, materials[e.attempt] # None,
         e.goal \in Goal, GoalFits(e), StoreGoal(e), UNCHANGED <<plan, attempt, materials>>
  PROVE RowInv' /\ Kept
  <1>1. \A r \in goals : r.attempt # e.attempt /\ r.goal # e.goal BY DEF GoalFits
  <1>2. \A r \in goals : r \in GoalRow /\ r.version \in Nat /\ r.version < task.version
    BY DEF IInv, TypeOK, RowInv, GoalsUnique, GoalRow
  <1>3. task.version \in Nat BY DEF IInv, TypeOK, Task
  <1>4. /\ NewGoal(e).attempt = e.attempt /\ NewGoal(e).goal = e.goal
        /\ NewGoal(e).version = task.version
    BY StoreGoalFields DEF NewGoal
  <1>5. GoalsUnique'
    <2>1. \A r \in goals' : r.version < task'.version
      BY <1>2, <1>3, <1>4, StoreGoalFields
    <2>2. ASSUME NEW x \in goals', NEW y \in goals',
                 x.attempt = y.attempt \/ x.goal = y.goal \/ x.version = y.version
          PROVE x = y
      <3>1. CASE x \in goals /\ y \in goals BY <2>2, <3>1 DEF IInv, RowInv, GoalsUnique
      <3>2. CASE x = NewGoal(e) /\ y \in goals BY <1>1, <1>2, <1>3, <1>4, <2>2, <3>2
      <3>3. CASE y = NewGoal(e) /\ x \in goals BY <1>1, <1>2, <1>3, <1>4, <2>2, <3>3
      <3>. QED BY <3>1, <3>2, <3>3, StoreGoalFields
    <2>. QED BY <2>1, <2>2 DEF GoalsUnique
  <1>6. IsFiniteSet(goals') /\ Cardinality(goals') = Cardinality(goals) + 1
    BY StoreGoalFields, FS_AddElement DEF IInv, RowInv
  <1>7. requests' = {r.attempt : r \in {x \in goals' : x.goal \in Blocking}}
    <2>1. {r.attempt : r \in {x \in goals : x.goal \in Blocking}} = {}
      BY StoreGoalFields DEF IInv, RowInv, RowsAgree
    <2>2. {x \in goals : x.goal \in Blocking} = {} BY <2>1
    <2>3. {x \in goals' : x.goal \in Blocking} =
             IF e.goal \in Blocking THEN {NewGoal(e)} ELSE {}
      BY <1>4, <2>2, StoreGoalFields
    <2>. QED BY <1>4, <2>3, StoreGoalFields
  <1>8. events' = [goal |-> Cardinality(goals'), request |-> Cardinality(requests'), plan |-> 0]
    <2>1. events.goal = Cardinality(goals) /\ events.request = Cardinality(requests)
          /\ events.plan = 0
      BY StoreGoalFields DEF IInv, RowInv, RowsAgree
    <2>2. Cardinality({}) = 0 /\ Cardinality({e.attempt}) = 1 BY FS_EmptySet, FS_Singleton
    <2>3. events'.goal = Cardinality(goals') /\ events'.plan = 0
      BY <1>6, <2>1, StoreGoalFields
    <2>4. events'.request = Cardinality(requests')
      <3>1. Cardinality(requests) = 0 BY <2>2, StoreGoalFields
      <3>2. CASE e.goal \in Blocking BY <2>1, <2>2, <3>1, <3>2, StoreGoalFields
      <3>3. CASE e.goal \notin Blocking BY <2>1, <2>2, <3>1, <3>3, StoreGoalFields
      <3>. QED BY <3>2, <3>3
    <2>. QED BY <2>3, <2>4, StoreGoalFields
  <1>9. plan' = None /\ task'.active = FALSE
    BY StoreGoalFields DEF IInv, RowInv, RowsAgree, TypeOK, Task
  <1>10. \A p \in PlanAttempt : attempt'[p].status # "COMPLETED"
    BY StoreGoalFields DEF IInv, RowInv, RowsAgree
  <1>11. RowsAgree' BY <1>5, <1>7, <1>8, <1>9, <1>10 DEF RowsAgree, GoalsUnique, OneGoalPerVersion
  <1>12. PlanRests' /\ QuestionExcludesPlan' BY <1>9 DEF PlanRests, QuestionExcludesPlan
  <1>13. PlanningIsEarly' BY <1>9, StoreGoalFields DEF PlanningIsEarly
  <1>14. Kept BY StoreGoalFields DEF Kept
  <1>. QED BY <1>5, <1>6, <1>11, <1>12, <1>13, <1>14 DEF RowInv

\* What activating a plan finds and does, field by field.
LEMMA StorePlanFields ==
  ASSUME IInv, NEW e \in Execution, ExecutionTrue(e), e.pc = "activate",
         ~ task.active, PlanFits(e), StorePlan(e)
  PROVE /\ requests = {} /\ plan = None
        /\ plan' = PlanOf(e) /\ PlanOf(e) \in PlanVersion /\ PlanOf(e) # None
        /\ attempt' \in [PlanAttempt -> AttemptRow]
        /\ attempt'[PlanOf(e).attempt] =
             [status |-> "COMPLETED", result |-> e.draft, endedBy |-> e.attempt]
        /\ \A q \in PlanAttempt \ {PlanOf(e).attempt} : attempt'[q] = attempt[q]
        /\ task' \in Task /\ task'.version = task.version
        /\ task'.active = TRUE /\ task'.status = "RUNNING"
        /\ events' \in [goal : Nat, request : Nat, plan : Nat]
        /\ events'.plan = events.plan + 1 /\ events'.goal = events.goal
        /\ events'.request = events.request
  <1>1. requests = {} /\ plan = None
    BY DEF PlanFits, TaskTakesPlan, IInv, RowInv, PlanningIsEarly
  <1>2. /\ e.attempt \in GoalAttempt /\ materials[e.attempt] \in Materials
        /\ e.goal \in Goal /\ e.draft \in Draft
    BY DEF ExecutionTrue, IInv, TypeOK
  <1>3. /\ PlanOf(e) \in PlanVersion /\ PlanOf(e) # None /\ PlanOf(e).attempt \in PlanAttempt
        /\ PlanOf(e).attempt = materials[e.attempt].plan
    BY <1>2, PlanningAssumption DEF PlanOf, PlanVersion, Materials
  <1>4. plan' = PlanOf(e) BY DEF StorePlan
  <1>5. /\ attempt' \in [PlanAttempt -> AttemptRow]
        /\ attempt'[PlanOf(e).attempt] =
             [status |-> "COMPLETED", result |-> e.draft, endedBy |-> e.attempt]
        /\ \A q \in PlanAttempt \ {PlanOf(e).attempt} : attempt'[q] = attempt[q]
    <2>1. [status |-> "COMPLETED", result |-> e.draft, endedBy |-> e.attempt] \in AttemptRow
      BY <1>2 DEF AttemptRow
    <2>2. attempt \in [PlanAttempt -> AttemptRow] BY DEF IInv, TypeOK
    <2>. QED BY <1>3, <2>1, <2>2 DEF StorePlan, EndedAttempt
  <1>6. /\ task' \in Task /\ task'.version = task.version
        /\ task'.active = TRUE /\ task'.status = "RUNNING"
    <2>1. LET t == [task EXCEPT !.status = "RUNNING", !.active = TRUE]
          IN /\ t \in Task /\ t.version = task.version
             /\ t.active = TRUE /\ t.status = "RUNNING"
      BY DEF IInv, TypeOK, Task, Status
    <2>. QED BY <2>1, Zenon DEF StorePlan
  <1>7. /\ events' \in [goal : Nat, request : Nat, plan : Nat]
        /\ events'.plan = events.plan + 1 /\ events'.goal = events.goal
        /\ events'.request = events.request
    BY DEF StorePlan, IInv, TypeOK
  <1>. QED BY <1>1, <1>3, <1>4, <1>5, <1>6, <1>7, Zenon

LEMMA StorePlanRows ==
  ASSUME IInv, NEW e \in Execution, ExecutionTrue(e), e.pc = "activate",
         ~ task.active, PlanFits(e), StorePlan(e), UNCHANGED <<goals, requests, materials>>
  PROVE RowInv' /\ Kept
  <1>1. PICK r \in goals : r.attempt = e.attempt /\ r.goal = e.goal
    BY DEF ExecutionTrue, HasGoal
  <1>2. e.goal \notin Blocking BY DEF ExecutionTrue
  <1>3. PlanOf(e).goal = e.goal /\ PlanOf(e).draft = e.draft BY DEF PlanOf
  <1>4. /\ r \in goals' /\ r.goal = plan'.goal /\ r.goal \notin Blocking
        /\ attempt'[plan'.attempt] =
             [status |-> "COMPLETED", result |-> plan'.draft, endedBy |-> r.attempt]
    BY <1>1, <1>2, <1>3, StorePlanFields
  <1>5. PlanRests' BY <1>4 DEF PlanRests
  <1>6. RowsAgree'
    <2>1. task'.active /\ plan' # None BY StorePlanFields
    <2>2. /\ \E x \in goals' : x.goal = plan'.goal /\ x.goal \notin Blocking
          /\ attempt'[plan'.attempt].status = "COMPLETED"
          /\ attempt'[plan'.attempt].result = plan'.draft
      BY <1>4
    <2>3. ASSUME NEW q \in PlanAttempt, attempt'[q].status = "COMPLETED" PROVE plan'.attempt = q
      <3>1. plan = None /\ plan' = PlanOf(e) BY StorePlanFields, Zenon
      <3>2. attempt[q].status # "COMPLETED" BY <3>1 DEF IInv, RowInv, RowsAgree
      <3>3. q # PlanOf(e).attempt => attempt'[q] = attempt[q] BY StorePlanFields, Zenon
      <3>. QED BY <2>3, <3>1, <3>2, <3>3
    <2>4. requests' = {x.attempt : x \in {y \in goals' : y.goal \in Blocking}}
      BY DEF IInv, RowInv, RowsAgree
    <2>5. events' = [goal |-> Cardinality(goals'), request |-> Cardinality(requests'), plan |-> 1]
      <3>1. events.goal = Cardinality(goals) /\ events.request = Cardinality(requests)
            /\ events.plan = 0
        BY StorePlanFields DEF IInv, RowInv, RowsAgree
      <3>2. /\ events' \in [goal : Nat, request : Nat, plan : Nat]
            /\ events'.plan = events.plan + 1 /\ events'.goal = events.goal
            /\ events'.request = events.request
        BY StorePlanFields, Zenon
      <3>. QED BY <3>1, <3>2
    <2>6. OneGoalPerVersion' BY StorePlanFields DEF IInv, RowInv, GoalsUnique, OneGoalPerVersion
    <2>. QED BY <2>1, <2>2, <2>3, <2>4, <2>5, <2>6 DEF RowsAgree
  <1>7. GoalsUnique' BY StorePlanFields DEF IInv, RowInv, GoalsUnique
  <1>8. PlanningIsEarly' BY StorePlanFields DEF PlanningIsEarly
  <1>9. QuestionExcludesPlan' BY StorePlanFields DEF QuestionExcludesPlan
  <1>10. Kept BY StorePlanFields DEF Kept
  <1>. QED BY <1>5, <1>6, <1>7, <1>8, <1>9, <1>10 DEF RowInv, IInv

-----------------------------------------------------------------------------
(* The invariant, action by action *)

\* A step of the environment.
LEMMA EnvironmentInv ==
  ASSUME IInv, \/ \E g \in GoalAttempt, p \in PlanAttempt : AssembleMaterials(g, p)
               \/ \E p \in PlanAttempt : EndAttempt(p)
               \/ TimePasses \/ RequestCancel \/ CloseTask \/ UNCHANGED vars
  PROVE IInv'
  <1>1. ASSUME NEW g \in GoalAttempt, NEW p \in PlanAttempt, AssembleMaterials(g, p) PROVE IInv'
    <2>1. UNCHANGED <<task, goals, requests, plan, attempt, events, run>>
      BY <1>1 DEF AssembleMaterials, tables
    <2>2. materials' \in [GoalAttempt -> Materials \union {None}] /\ Kept
      <3>1. [version |-> task.version, plan |-> p, clock |-> clock] \in Materials
        BY DEF IInv, TypeOK, Task, Materials
      <3>. QED BY <1>1, <2>1, <3>1 DEF AssembleMaterials, IInv, TypeOK, Kept
    <2>3. TypeOK' BY <1>1, <2>1, <2>2 DEF AssembleMaterials, IInv, TypeOK
    <2>. QED BY <2>1, <2>2, <2>3, RowsStill, ExecutionsStill DEF IInv
  <1>2. ASSUME NEW p \in PlanAttempt, EndAttempt(p) PROVE IInv'
    <2>1. UNCHANGED <<task, goals, requests, plan, events, clock, materials, run, faults>> /\ Kept
      BY <1>2 DEF EndAttempt, Kept
    <2>2. RowInv' /\ TypeOK' BY <1>2, <2>1, EndAttemptRows DEF IInv, TypeOK
    <2>. QED BY <2>1, <2>2, ExecutionsStill DEF IInv
  <1>3. CASE TimePasses
    <2>1. UNCHANGED <<task, goals, requests, plan, attempt, events, materials, run, faults>>
      BY <1>3 DEF TimePasses, tables
    <2>2. TypeOK' /\ Kept BY <1>3, <2>1 DEF TimePasses, IInv, TypeOK, Kept, Clock
    <2>. QED BY <2>1, <2>2, RowsStill, ExecutionsStill DEF IInv
  <1>4. CASE RequestCancel \/ CloseTask
    <2>1. PICK to \in {"CANCEL_REQUESTED", "ENDED"} :
            /\ task' = [task EXCEPT !.status = to]
            /\ UNCHANGED <<goals, requests, plan, attempt, events, clock, materials, run, faults>>
      BY <1>4 DEF RequestCancel, CloseTask, MoveTask
    <2>2. /\ task' \in Task /\ task'.version = task.version /\ task'.active = task.active
          /\ task'.status # "PLANNING"
      BY <2>1 DEF IInv, TypeOK, Task, Status
    <2>3. TypeOK' /\ Kept BY <2>1, <2>2 DEF IInv, TypeOK, Kept
    <2>. QED BY <2>1, <2>2, <2>3, RowsStill, ExecutionsStill DEF IInv
  <1>5. CASE UNCHANGED vars
    <2>1. UNCHANGED <<task, goals, requests, plan, attempt, events, clock, materials, run, faults>>
      BY <1>5 DEF vars, tables
    <2>2. TypeOK' /\ Kept BY <2>1 DEF IInv, TypeOK, Kept
    <2>. QED BY <2>1, <2>2, RowsStill, ExecutionsStill DEF IInv
  <1>. QED BY <1>1, <1>2, <1>3, <1>4, <1>5

\* A step of one execution that leaves the tables alone.
LEMMA QuietStep ==
  ASSUME IInv, NEW s \in Supervisor, NEW e \in Execution, Becomes(s, e), ExecutionTrue(e),
         UNCHANGED <<tables, clock, materials>>, faults' \in 0..MaxFaults
  PROVE IInv'
  <1>1. UNCHANGED <<task, goals, requests, plan, attempt, events>> BY DEF tables
  <1>2. Kept BY <1>1 DEF Kept
  <1>3. ExecutionTrue(e)' BY <1>2, ExecutionKept
  <1>4. run' \in [Supervisor -> Execution] /\ ExecutionsTrue' BY <1>2, <1>3, ExecutionStep
  <1>5. TypeOK' BY <1>1, <1>4 DEF IInv, TypeOK
  <1>. QED BY <1>1, <1>4, <1>5, RowsStill DEF IInv

\* An execution that ends without having done anything.
LEMMA RefusedStep ==
  ASSUME IInv, NEW s \in Supervisor, NEW why \in {"refused", "expires late"},
         Answered(s, why), UNCHANGED <<tables, clock, materials, faults>>
  PROVE IInv'
  <1> DEFINE e == [run[s] EXCEPT !.pc = "idle", !.answer = why]
  <1>1. run[s] \in Execution /\ faults \in 0..MaxFaults BY DEF IInv, TypeOK
  <1>2. why \in Answer BY DEF Answer
  <1>3. e \in Execution /\ e.pc = "idle" /\ e.answer = why BY <1>1, <1>2, AnsweredFields, Zenon
  <1>4. ExecutionTrue(e) BY <1>3 DEF ExecutionTrue
  <1>5. Becomes(s, e) BY DEF Answered
  <1> HIDE DEF e
  <1>. QED BY <1>1, <1>3, <1>4, <1>5, QuietStep

LEMMA StartInv ==
  ASSUME IInv, NEW s \in Supervisor, NEW g \in GoalAttempt, Start(s, g)
  PROVE IInv'
  <1> DEFINE e == [Idle EXCEPT !.pc = "understand", !.attempt = g]
  <1>1. /\ e \in Execution /\ e.pc = "understand" /\ e.attempt = g /\ e.answer = "none"
    BY DEF Idle, Execution, Answer
  <1>2. /\ materials[g] # None /\ Becomes(s, e)
        /\ UNCHANGED <<tables, clock, materials, faults>>
    BY DEF Start
  <1>3. faults' \in 0..MaxFaults BY <1>2 DEF IInv, TypeOK
  <1> HIDE DEF e
  <1>4. ExecutionTrue(e) BY <1>1, <1>2 DEF ExecutionTrue
  <1>. QED BY <1>1, <1>2, <1>3, <1>4, QuietStep

LEMMA UnderstandGoalInv ==
  ASSUME IInv, NEW s \in Supervisor, UnderstandGoal(s)
  PROVE IInv'
  <1>1. run[s] \in Execution /\ ExecutionTrue(run[s]) /\ faults \in 0..MaxFaults
    BY DEF IInv, TypeOK, ExecutionsTrue
  <1>2. run[s].pc = "understand" /\ UNCHANGED <<tables, clock, materials, faults>>
    BY DEF UnderstandGoal
  <1>3. ASSUME NEW u \in Goal, Becomes(s, [run[s] EXCEPT !.pc = "complete", !.goal = u])
        PROVE IInv'
    <2> DEFINE e == [run[s] EXCEPT !.pc = "complete", !.goal = u]
    <2>1. /\ e \in Execution /\ e.pc = "complete" /\ e.goal = u
          /\ e.attempt = run[s].attempt /\ e.answer = run[s].answer
      BY <1>1, GoalFields, Zenon
    <2>2. Becomes(s, e) BY <1>3
    <2> HIDE DEF e
    <2>3. ExecutionTrue(e) BY <1>1, <1>2, <2>1 DEF ExecutionTrue
    <2>. QED BY <1>1, <1>2, <2>1, <2>2, <2>3, QuietStep
  <1>4. CASE Answered(s, "refused") BY <1>2, <1>4, RefusedStep
  <1>. QED BY <1>3, <1>4 DEF UnderstandGoal

LEMMA DraftPlanInv ==
  ASSUME IInv, NEW s \in Supervisor, DraftPlan(s)
  PROVE IInv'
  <1>1. run[s] \in Execution /\ ExecutionTrue(run[s]) /\ faults \in 0..MaxFaults
    BY DEF IInv, TypeOK, ExecutionsTrue
  <1>2. run[s].pc = "draft" /\ UNCHANGED <<tables, clock, materials, faults>>
    BY DEF DraftPlan
  <1>3. ASSUME NEW d \in Draft, Becomes(s, [run[s] EXCEPT !.pc = "activate", !.draft = d])
        PROVE IInv'
    <2> DEFINE e == [run[s] EXCEPT !.pc = "activate", !.draft = d]
    <2>1. /\ e \in Execution /\ e.pc = "activate" /\ e.goal = run[s].goal /\ e.draft = d
          /\ e.attempt = run[s].attempt /\ e.answer = run[s].answer
      BY <1>1, DraftFields, Zenon
    <2>2. Becomes(s, e) BY <1>3
    <2> HIDE DEF e
    <2>3. ExecutionTrue(e) BY <1>1, <1>2, <2>1 DEF ExecutionTrue, HasGoal
    <2>. QED BY <1>1, <1>2, <2>1, <2>2, <2>3, QuietStep
  <1>4. CASE Answered(s, "refused") BY <1>2, <1>4, RefusedStep
  <1>. QED BY <1>3, <1>4 DEF DraftPlan

LEMMA CrashInv ==
  ASSUME IInv, NEW s \in Supervisor, Crash(s)
  PROVE IInv'
  <1>1. /\ Becomes(s, Idle) /\ UNCHANGED <<tables, clock, materials>>
        /\ faults < MaxFaults /\ faults' = faults + 1
    BY DEF Crash
  <1>2. faults' \in 0..MaxFaults BY <1>1, PlanningAssumption DEF IInv, TypeOK
  <1>. QED BY <1>1, <1>2, IdleFacts, QuietStep

\* What an execution is after the gate, when its goal is stored.
LEMMA AfterGoalTrue ==
  ASSUME IInv, NEW s \in Supervisor, NEW x \in Execution, x = run[s], ExecutionTrue(x),
         x.pc = "complete", AfterGoal(s), HasGoal(x)', materials' = materials,
         x.goal \in Blocking => x.attempt \in requests'
  PROVE \E e \in Execution : Becomes(s, e) /\ ExecutionTrue(e)'
  <1>1. /\ x.attempt \in GoalAttempt /\ materials'[x.attempt] # None
        /\ x.goal \in Goal /\ x.answer = "none"
    BY DEF ExecutionTrue
  <1>2. CASE x.goal \in Blocking
    <2> DEFINE e == [x EXCEPT !.pc = "idle", !.answer = "waiting"]
    <2>1. "waiting" \in Answer BY DEF Answer
    <2>2. /\ e \in Execution /\ e.pc = "idle" /\ e.answer = "waiting"
          /\ e.attempt = x.attempt /\ e.goal = x.goal
      BY ONLY <2>1, x \in Execution, AnsweredFields, Zenon
    <2>3. Becomes(s, e) BY <1>2 DEF AfterGoal, Answered
    <2> HIDE DEF e
    <2>4. ExecutionTrue(e)' BY <1>2, <2>2 DEF ExecutionTrue, HasGoal
    <2>. QED BY <2>2, <2>3, <2>4
  <1>3. CASE x.goal \notin Blocking
    <2> DEFINE e == [x EXCEPT !.pc = "draft"]
    <2>1. /\ e \in Execution /\ e.pc = "draft" /\ e.answer = x.answer
          /\ e.attempt = x.attempt /\ e.goal = x.goal
      <3>1. "draft" \in Point BY DEF Point
      <3>. QED BY ONLY <3>1, x \in Execution, PointFields, Zenon
    <2>2. Becomes(s, e) BY <1>3 DEF AfterGoal, GoesOn
    <2> HIDE DEF e
    <2>3. ExecutionTrue(e)' BY <1>1, <1>3, <2>1 DEF ExecutionTrue, HasGoal
    <2>. QED BY <2>1, <2>2, <2>3
  <1>. QED BY <1>2, <1>3

LEMMA CompleteGoalInv ==
  ASSUME IInv, NEW s \in Supervisor, CompleteGoal(s)
  PROVE IInv'
  <1>1. run[s] \in Execution /\ ExecutionTrue(run[s]) BY DEF IInv, TypeOK, ExecutionsTrue
  <1>2. PICK x \in Execution : x = run[s] /\ ExecutionTrue(x) BY <1>1
  <1>3. x.pc = "complete" /\ UNCHANGED <<clock, materials, faults>>
    BY <1>2 DEF CompleteGoal
  <1>4. /\ x.attempt \in GoalAttempt /\ materials[x.attempt] # None /\ x.goal \in Goal
    BY <1>2, <1>3 DEF ExecutionTrue
  <1>5. CASE GoalStored(x) /\ AfterGoal(s) /\ UNCHANGED tables
    <2>1. UNCHANGED <<task, goals, requests, plan, attempt, events>> BY <1>5 DEF tables
    <2>2. Kept BY <1>3, <2>1 DEF Kept
    <2>3. HasGoal(x)' BY <1>5, <2>1 DEF GoalStored, HasGoal
    <2>4. x.goal \in Blocking => x.attempt \in requests'
      BY <1>5, <2>1 DEF GoalStored, IInv, RowInv, RowsAgree
    <2>5. PICK e \in Execution : Becomes(s, e) /\ ExecutionTrue(e)'
      BY <1>2, <1>3, <1>5, <2>3, <2>4, AfterGoalTrue
    <2>6. run' \in [Supervisor -> Execution] /\ ExecutionsTrue' BY <2>2, <2>5, ExecutionStep
    <2>7. TypeOK' BY <1>3, <2>1, <2>6 DEF IInv, TypeOK
    <2>. QED BY <2>1, <2>6, <2>7, RowsStill DEF IInv
  <1>6. CASE GoalFits(x) /\ StoreGoal(x) /\ AfterGoal(s) /\ UNCHANGED <<plan, attempt>>
    <2>1. RowInv' /\ Kept BY <1>3, <1>4, <1>6, StoreGoalRows
    <2>2. HasGoal(x)'
      <3>1. NewGoal(x) \in goals' BY <1>4, <1>6, StoreGoalFields
      <3>. QED BY <3>1 DEF HasGoal, NewGoal
    <2>3. x.goal \in Blocking => x.attempt \in requests' BY <1>4, <1>6, StoreGoalFields
    <2>4. PICK e \in Execution : Becomes(s, e) /\ ExecutionTrue(e)'
      BY <1>2, <1>3, <1>6, <2>2, <2>3, AfterGoalTrue
    <2>5. run' \in [Supervisor -> Execution] /\ ExecutionsTrue' BY <2>1, <2>4, ExecutionStep
    <2>6. /\ task' \in Task /\ goals' \subseteq GoalRow /\ requests' \subseteq GoalAttempt
          /\ events' \in [goal : Nat, request : Nat, plan : Nat]
      BY <1>4, <1>6, StoreGoalFields DEF IInv, TypeOK
    <2>7. TypeOK' BY <1>3, <1>6, <2>5, <2>6 DEF IInv, TypeOK
    <2>. QED BY <2>1, <2>5, <2>7 DEF IInv
  <1>7. CASE \E why \in {"refused", "expires late"} : Answered(s, why) /\ UNCHANGED tables
    BY <1>3, <1>7, RefusedStep
  <1>. QED BY <1>2, <1>5, <1>6, <1>7 DEF CompleteGoal

LEMMA ActivatePlanInv ==
  ASSUME IInv, NEW s \in Supervisor, ActivatePlan(s)
  PROVE IInv'
  <1>1. run[s] \in Execution /\ ExecutionTrue(run[s]) BY DEF IInv, TypeOK, ExecutionsTrue
  <1>2. PICK x \in Execution : x = run[s] /\ ExecutionTrue(x) BY <1>1
  <1>3. x.pc = "activate" /\ UNCHANGED <<clock, materials, faults>>
    BY <1>2 DEF ActivatePlan
  <1> DEFINE e == [x EXCEPT !.pc = "idle", !.answer = "activated"]
  <1>4. /\ e \in Execution /\ e.pc = "idle" /\ e.answer = "activated"
        /\ e.attempt = x.attempt /\ e.goal = x.goal /\ e.draft = x.draft
    <2>1. "activated" \in Answer BY DEF Answer
    <2>. QED BY ONLY <2>1, x \in Execution, AnsweredFields, Zenon
  <1>5. Answered(s, "activated") => Becomes(s, e) BY <1>2 DEF Answered
  <1> HIDE DEF e
  <1>6. x.attempt \in GoalAttempt /\ materials'[x.attempt] # None /\ PlanOf(x)' = PlanOf(x)
    BY <1>2, <1>3 DEF ExecutionTrue, PlanOf
  <1>7. plan' # None /\ plan' = PlanOf(x) => ExecutionTrue(e)'
    BY <1>3, <1>4, <1>6 DEF ExecutionTrue, PlanOf
  <1>8. CASE task.active /\ PlanStored(x) /\ Answered(s, "activated") /\ UNCHANGED tables
    <2>1. UNCHANGED <<task, goals, requests, plan, attempt, events>> BY <1>8 DEF tables
    <2>2. Kept BY <1>3, <2>1 DEF Kept
    <2>3. plan' # None /\ plan' = PlanOf(x)
      BY <1>8, <2>1 DEF PlanStored, IInv, RowInv, RowsAgree
    <2>4. run' \in [Supervisor -> Execution] /\ ExecutionsTrue'
      BY <1>4, <1>5, <1>7, <1>8, <2>2, <2>3, ExecutionStep
    <2>5. TypeOK' BY <1>3, <2>1, <2>4 DEF IInv, TypeOK
    <2>. QED BY <2>1, <2>4, <2>5, RowsStill DEF IInv
  <1>9. CASE /\ ~ task.active /\ PlanFits(x) /\ StorePlan(x) /\ Answered(s, "activated")
             /\ UNCHANGED <<goals, requests>>
    <2>1. RowInv' /\ Kept BY <1>2, <1>3, <1>9, StorePlanRows
    <2>2. /\ plan' = PlanOf(x) /\ plan' # None /\ plan' \in PlanVersion
          /\ attempt' \in [PlanAttempt -> AttemptRow] /\ task' \in Task
          /\ events' \in [goal : Nat, request : Nat, plan : Nat]
      BY <1>2, <1>3, <1>9, StorePlanFields
    <2>3. run' \in [Supervisor -> Execution] /\ ExecutionsTrue'
      BY <1>4, <1>5, <1>7, <1>9, <2>1, <2>2, ExecutionStep
    <2>4. TypeOK' BY <1>3, <1>9, <2>2, <2>3 DEF IInv, TypeOK
    <2>. QED BY <2>1, <2>3, <2>4 DEF IInv
  <1>10. CASE Answered(s, "refused") /\ UNCHANGED tables
    BY <1>3, <1>10, RefusedStep
  <1>. QED BY <1>2, <1>8, <1>9, <1>10 DEF ActivatePlan

LEMMA InitInv == Init => IInv
  <1> SUFFICES ASSUME Init PROVE IInv
    OBVIOUS
  <1>1. TypeOK
    <2>1. task \in Task BY DEF Init, Task, Status
    <2>2. attempt \in [PlanAttempt -> AttemptRow] BY DEF Init, Running, AttemptRow
    <2>3. faults \in 0..MaxFaults BY PlanningAssumption DEF Init
    <2>4. run \in [Supervisor -> Execution] BY IdleFacts DEF Init
    <2>. QED BY <2>1, <2>2, <2>3, <2>4 DEF Init, TypeOK, Clock
  <1>2. RowInv
    <2>1. IsFiniteSet(goals) /\ Cardinality(goals) = 0 /\ Cardinality(requests) = 0
      BY FS_EmptySet DEF Init
    <2>2. \A p \in PlanAttempt : attempt[p].status # "COMPLETED" BY DEF Init, Running
    <2>3. RowsAgree BY <2>1, <2>2 DEF Init, RowsAgree, OneGoalPerVersion
    <2>. QED BY <2>1, <2>3 DEF Init, RowInv, GoalsUnique, PlanRests, PlanningIsEarly, QuestionExcludesPlan
  <1>3. ExecutionsTrue BY IdleFacts DEF Init, ExecutionsTrue
  <1>. QED BY <1>1, <1>2, <1>3 DEF IInv

LEMMA NextInv == IInv /\ [Next]_vars => IInv'
  <1> SUFFICES ASSUME IInv, [Next]_vars PROVE IInv'
    OBVIOUS
  <1>1. ASSUME NEW s \in Supervisor, Supervise(s) PROVE IInv'
    BY <1>1, StartInv, UnderstandGoalInv, CompleteGoalInv, DraftPlanInv, ActivatePlanInv, CrashInv
       DEF Supervise
  <1>2. CASE \/ \E g \in GoalAttempt, p \in PlanAttempt : AssembleMaterials(g, p)
             \/ \E p \in PlanAttempt : EndAttempt(p)
             \/ TimePasses \/ RequestCancel \/ CloseTask \/ UNCHANGED vars
    BY <1>2, EnvironmentInv
  <1>. QED BY <1>1, <1>2 DEF Next

THEOREM Invariant == Spec => []IInv
  BY InitInv, NextInv, PTL DEF Spec

-----------------------------------------------------------------------------
(* The validation of a draft *)

\* A set of numbers that has 0, and with a number the next one, has them all.
Below == {p \in Nat \X Nat : p[1] < p[2]}

LEMMA EveryNumber ==
  ASSUME NEW S, 0 \in S, \A n \in Nat : n \in S => n + 1 \in S
  PROVE Nat \subseteq S
  <1> DEFINE T == Nat \ S
  <1> SUFFICES ASSUME T # {} PROVE FALSE OBVIOUS
  <1>1. IsWellFoundedOn(Below, Nat)
    <2>1. OpToRel(<, Nat) = Below BY DEF OpToRel, Below
    <2>. QED BY <2>1, NatLessThanWellFounded
  <1>2. PICK x \in T : \A y \in T : ~ (<<y, x>> \in Below)
    <2>1. T \subseteq Nat /\ T # {} OBVIOUS
    <2> HIDE DEF T
    <2>. QED BY <1>1, <2>1, WFMin
  <1>3. x \in Nat /\ x # 0 /\ x \notin S OBVIOUS
  <1>4. x - 1 \in Nat /\ x = (x - 1) + 1 BY <1>3
  <1>5. <<x - 1, x>> \in Below BY <1>3, <1>4 DEF Below
  <1>6. x - 1 \in S BY <1>2, <1>4, <1>5
  <1>. QED BY <1>3, <1>4, <1>6

\* comesBack is defined by what it finds: a function that satisfies its equation
\* is the set of the items that begin a walk along the needs which ends at an item
\* of the path or at one it has passed.
Search(f, d) ==
  f = [path \in SUBSET Item |->
         {i \in Item : i \in path \/ \E j \in d.needs[i] : j \in f[path \union {i}]}]

Walk(d, i, path, n, w) ==
  /\ n \in Nat /\ w \in [Nat -> Item] /\ w[0] = i
  /\ \A k \in Nat : k < n => w[k + 1] \in d.needs[w[k]]
  /\ w[n] \in path \/ \E k \in Nat : k < n /\ w[k] = w[n]

WalksBack(d) ==
  [path \in SUBSET Item |-> {i \in Item : \E n, w : Walk(d, i, path, n, w)}]

\* A walk that has not come back yet goes on with the rest of it.
LEMMA WalkBegins ==
  ASSUME NEW d \in DraftShape, NEW path \in SUBSET Item, NEW i \in Item,
         NEW n, NEW w, Walk(d, i, path, n, w), i \notin path
  PROVE \E j \in d.needs[i] : j \in WalksBack(d)[path \union {i}]
  <1>1. n # 0 BY DEF Walk
  <1> DEFINE v == [k \in Nat |-> w[k + 1]]
  <1>2. n - 1 \in Nat /\ n - 1 + 1 = n BY <1>1 DEF Walk
  <1>3. v \in [Nat -> Item] /\ \A k \in Nat : v[k] = w[k + 1] BY DEF Walk
  <1>4. w[1] \in d.needs[i] /\ w[1] \in Item BY <1>1 DEF Walk
  <1> HIDE DEF v
  <1>5. Walk(d, w[1], path \union {i}, n - 1, v)
    <2>1. ASSUME NEW k \in Nat, k < n - 1 PROVE v[k + 1] \in d.needs[v[k]]
      <3>1. k + 1 \in Nat /\ k + 1 < n BY <1>2, <2>1 DEF Walk
      <3>. QED BY <1>3, <3>1 DEF Walk
    <2>2. v[n - 1] = w[n] BY <1>2, <1>3
    <2>3. w[n] \in path \union {i} \/ \E k \in Nat : k < n - 1 /\ v[k] = v[n - 1]
      <3>1. CASE w[n] \in path BY <3>1
      <3>2. ASSUME NEW k \in Nat, k < n, w[k] = w[n]
            PROVE w[n] \in path \union {i} \/ \E l \in Nat : l < n - 1 /\ v[l] = v[n - 1]
        <4>1. CASE k = 0 BY <3>2, <4>1 DEF Walk
        <4>2. CASE k # 0
          <5>1. k - 1 \in Nat /\ k - 1 < n - 1 /\ (k - 1) + 1 = k BY <1>2, <3>2, <4>2 DEF Walk
          <5>2. v[k - 1] = w[k] BY <1>3, <5>1
          <5>. QED BY <2>2, <3>2, <5>1, <5>2
        <4>. QED BY <4>1, <4>2
      <3>. QED BY <3>1, <3>2 DEF Walk
    <2>. QED BY <1>2, <1>3, <2>1, <2>2, <2>3 DEF Walk
  <1>6. path \union {i} \in SUBSET Item OBVIOUS
  <1>. QED BY <1>4, <1>5, <1>6 DEF WalksBack

\* An item before a walk begins one, too.
LEMMA WalkGoesOn ==
  ASSUME NEW d \in DraftShape, NEW path \in SUBSET Item, NEW i \in Item,
         NEW j \in d.needs[i], j \in WalksBack(d)[path \union {i}]
  PROVE i \in WalksBack(d)[path]
  <1>1. PICK n, v : Walk(d, j, path \union {i}, n, v) BY DEF WalksBack
  <1> DEFINE w == [k \in Nat |-> IF k = 0 THEN i ELSE v[k - 1]]
  <1>2. /\ w \in [Nat -> Item] /\ w[0] = i
        /\ \A k \in Nat : w[k + 1] = v[k]
    BY <1>1 DEF Walk
  <1> HIDE DEF w
  <1>3. n + 1 \in Nat BY <1>1 DEF Walk
  <1>4. ASSUME NEW k \in Nat, k < n + 1 PROVE w[k + 1] \in d.needs[w[k]]
    <2>1. CASE k = 0 BY <1>1, <1>2, <2>1 DEF Walk
    <2>2. CASE k # 0
      <3>1. k - 1 \in Nat /\ k - 1 < n /\ (k - 1) + 1 = k BY <1>1, <1>4, <2>2 DEF Walk
      <3>2. v[k] \in d.needs[v[k - 1]] BY <1>1, <3>1 DEF Walk
      <3>. QED BY <1>2, <3>1, <3>2
    <2>. QED BY <2>1, <2>2
  <1>5. w[n + 1] = v[n] BY <1>1, <1>2 DEF Walk
  <1>6. w[n + 1] \in path \/ \E k \in Nat : k < n + 1 /\ w[k] = w[n + 1]
    <2>1. CASE v[n] \in path BY <1>5, <2>1
    <2>2. CASE v[n] = i BY <1>1, <1>2, <1>5, <2>2 DEF Walk
    <2>3. ASSUME NEW k \in Nat, k < n, v[k] = v[n]
          PROVE \E l \in Nat : l < n + 1 /\ w[l] = w[n + 1]
      <3>1. k + 1 \in Nat /\ k + 1 < n + 1 /\ w[k + 1] = v[k] BY <1>1, <1>2, <2>3 DEF Walk
      <3>. QED BY <1>5, <2>3, <3>1
    <2>. QED BY <1>1, <2>1, <2>2, <2>3 DEF Walk
  <1>7. Walk(d, i, path, n + 1, w) BY <1>2, <1>3, <1>4, <1>6 DEF Walk
  <1>. QED BY <1>7 DEF WalksBack

LEMMA SearchExists ==
  ASSUME NEW d \in DraftShape
  PROVE Search(WalksBack(d), d)
  <1>1. ASSUME NEW path \in SUBSET Item, NEW i \in Item
        PROVE i \in WalksBack(d)[path]
                <=> (i \in path \/ \E j \in d.needs[i] : j \in WalksBack(d)[path \union {i}])
    <2>1. ASSUME i \in path PROVE i \in WalksBack(d)[path]
      <3> DEFINE w == [k \in Nat |-> i]
      <3>1. Walk(d, i, path, 0, w) BY <2>1 DEF Walk
      <3>. QED BY <3>1 DEF WalksBack
    <2>2. ASSUME i \in WalksBack(d)[path], i \notin path
          PROVE \E j \in d.needs[i] : j \in WalksBack(d)[path \union {i}]
      <3>1. PICK n, w : Walk(d, i, path, n, w) BY <2>2 DEF WalksBack
      <3>. QED BY <2>2, <3>1, WalkBegins
    <2>. QED BY <2>1, <2>2, WalkGoesOn
  <1> DEFINE F == WalksBack(d)
             G == [path \in SUBSET Item |->
                     {i \in Item : i \in path \/ \E j \in d.needs[i] : j \in F[path \union {i}]}]
  <1>2. DOMAIN F = SUBSET Item /\ \A path \in SUBSET Item : F[path] \subseteq Item BY DEF WalksBack
  <1>3. F = [path \in SUBSET Item |-> F[path]] BY DEF WalksBack
  <1> HIDE DEF F
  <1>4. \A path \in SUBSET Item : F[path] = G[path] BY <1>1, <1>2 DEF F
  <1>. QED BY <1>3, <1>4 DEF Search, F

\* The recursion of the search is sound: some function satisfies it, and the search
\* is one that does.
LEMMA CyclicIsSearch ==
  ASSUME NEW d \in DraftShape
  PROVE \E f : Search(f, d) /\ (Cyclic(d) <=> d.items \intersect f[{}] # {})
  <1> DEFINE f == CHOOSE h : Search(h, d)
  <1>1. Search(f, d) BY SearchExists
  <1>2. Cyclic(d) <=> d.items \intersect f[{}] # {} BY DEF Cyclic, Search
  <1>. QED BY <1>1, <1>2

\* A draft in which the search does not come back can be done item by item.  If in
\* some of its items each needed another of them, the search could go on among
\* them without end, along ever longer paths, and there are only so many items.
LEMMA AcyclicCanFinish ==
  ASSUME NEW d \in DraftShape, IsFiniteSet(d.items), ~ Cyclic(d),
         NEW left \in SUBSET d.items, left # {}
  PROVE \E i \in left : d.needs[i] \intersect left = {}
  <1> SUFFICES ASSUME \A i \in left : d.needs[i] \intersect left # {} PROVE FALSE OBVIOUS
  <1>1. PICK f : Search(f, d) /\ d.items \intersect f[{}] = {} BY CyclicIsSearch
  <1>2. left \subseteq Item BY DEF DraftShape
  <1>3. IsFiniteSet(left) BY FS_Subset
  <1> DEFINE S == {n \in Nat : \E path \in SUBSET left, i \in left :
                                Cardinality(path) = n /\ i \notin f[path]}
  <1>4. 0 \in S BY <1>1, FS_EmptySet
  <1>5. ASSUME NEW n \in Nat, n \in S PROVE n + 1 \in S
    <2>1. PICK path \in SUBSET left, i \in left : Cardinality(path) = n /\ i \notin f[path] BY <1>5
    <2>2. path \in SUBSET Item /\ i \in Item BY <1>2
    <2>3. i \notin path /\ \A j \in d.needs[i] : j \notin f[path \union {i}]
      BY <1>1, <2>1, <2>2 DEF Search
    <2>4. PICK j \in left : j \in d.needs[i] OBVIOUS
    <2>5. Cardinality(path \union {i}) = n + 1 BY <1>3, <2>1, <2>3, FS_Subset, FS_AddElement
    <2>6. path \union {i} \in SUBSET left OBVIOUS
    <2>. QED BY <2>3, <2>4, <2>5, <2>6
  <1>6. Nat \subseteq S
    <2> HIDE DEF S
    <2>. QED BY <1>4, <1>5, EveryNumber
  <1>7. Cardinality(left) \in Nat BY <1>3, FS_CardinalityType
  <1>8. Cardinality(left) + 1 \in S BY <1>6, <1>7
  <1>9. PICK path \in SUBSET left : Cardinality(path) = Cardinality(left) + 1 BY <1>8
  <1>10. Cardinality(path) <= Cardinality(left) BY <1>3, FS_Subset
  <1>. QED BY <1>7, <1>9, <1>10

\* What is about to be activated was accepted, and what is active was about to be.
PlansSound ==
  /\ \A s \in Supervisor : run[s].pc = "activate" => ~ Cyclic(run[s].draft)
  /\ plan # None => ~ Cyclic(plan.draft)

\* A step of one execution that does not touch the plan.
LEMMA PlansSoundMove ==
  ASSUME TypeOK, PlansSound, NEW s \in Supervisor, NEW e, Becomes(s, e), UNCHANGED plan,
         e.pc = "activate" => ~ Cyclic(e.draft)
  PROVE PlansSound'
  <1>1. \A t \in Supervisor : run'[t] = run[t] \/ run'[t] = e BY DEF TypeOK, Becomes
  <1>. QED BY <1>1 DEF PlansSound

LEMMA PlansSoundAnswer ==
  ASSUME TypeOK, PlansSound, NEW s \in Supervisor, NEW why, Answered(s, why), UNCHANGED plan
  PROVE PlansSound'
  <1>1. run[s] \in Execution BY DEF TypeOK
  <1>2. [run[s] EXCEPT !.pc = "idle", !.answer = why].pc = "idle" BY <1>1 DEF Execution
  <1>. QED BY <1>2, PlansSoundMove DEF Answered

LEMMA PlansSoundSupervise ==
  ASSUME TypeOK, PlansSound, NEW s \in Supervisor, Supervise(s)
  PROVE PlansSound'
  <1>1. run[s] \in Execution BY DEF TypeOK
  <1>2. ASSUME NEW g \in GoalAttempt, Start(s, g) PROVE PlansSound'
    <2>1. [Idle EXCEPT !.pc = "understand", !.attempt = g].pc = "understand" BY DEF Idle
    <2>. QED BY <1>2, <2>1, PlansSoundMove DEF Start, tables
  <1>3. CASE UnderstandGoal(s)
    <2>1. UNCHANGED plan BY <1>3 DEF UnderstandGoal, tables
    <2>2. ASSUME NEW u \in Goal, Becomes(s, [run[s] EXCEPT !.pc = "complete", !.goal = u])
          PROVE PlansSound'
      <3>1. [run[s] EXCEPT !.pc = "complete", !.goal = u].pc = "complete" BY <1>1 DEF Execution
      <3>. QED BY <2>1, <2>2, <3>1, PlansSoundMove
    <2>. QED BY <1>3, <2>1, <2>2, PlansSoundAnswer DEF UnderstandGoal
  <1>4. CASE CompleteGoal(s)
    <2>1. UNCHANGED plan /\ (AfterGoal(s) \/ \E why : Answered(s, why))
      BY <1>4 DEF CompleteGoal, tables
    <2>2. CASE GoesOn(s, "draft")
      <3>1. [run[s] EXCEPT !.pc = "draft"].pc = "draft" BY <1>1 DEF Execution
      <3>. QED BY <2>1, <2>2, <3>1, PlansSoundMove DEF GoesOn
    <2>. QED BY <2>1, <2>2, PlansSoundAnswer DEF AfterGoal
  <1>5. CASE DraftPlan(s)
    <2>1. UNCHANGED plan BY <1>5 DEF DraftPlan, tables
    <2>2. ASSUME NEW d \in Draft, Accepted(d, run[s].goal, materials[run[s].attempt]),
                 Becomes(s, [run[s] EXCEPT !.pc = "activate", !.draft = d])
          PROVE PlansSound'
      <3>1. [run[s] EXCEPT !.pc = "activate", !.draft = d].draft = d BY <1>1 DEF Execution
      <3>2. ~ Cyclic(d) BY <2>2 DEF Accepted
      <3>. QED BY <2>1, <2>2, <3>1, <3>2, PlansSoundMove
    <2>. QED BY <1>5, <2>1, <2>2, PlansSoundAnswer DEF DraftPlan
  <1>6. CASE ActivatePlan(s)
    <2>1. CASE StorePlan(run[s]) /\ Answered(s, "activated")
      <3>1. plan' = PlanOf(run[s]) /\ run[s].pc = "activate" BY <1>6, <2>1 DEF StorePlan, ActivatePlan
      <3>2. ~ Cyclic(plan'.draft) BY <3>1 DEF PlansSound, PlanOf
      <3>3. [run[s] EXCEPT !.pc = "idle", !.answer = "activated"].pc = "idle" BY <1>1 DEF Execution
      <3>4. \A t \in Supervisor : run'[t] = run[t] \/ run'[t].pc = "idle"
        BY <2>1, <3>3 DEF TypeOK, Answered, Becomes
      <3>. QED BY <3>2, <3>4 DEF PlansSound
    <2>2. CASE UNCHANGED plan /\ \E why : Answered(s, why) BY <2>2, PlansSoundAnswer
    <2>. QED BY <1>6, <2>1, <2>2 DEF ActivatePlan, tables
  <1>7. CASE Crash(s)
    <2>1. Idle.pc = "idle" BY DEF Idle
    <2>. QED BY <1>7, <2>1, PlansSoundMove DEF Crash, tables
  <1>. QED BY <1>2, <1>3, <1>4, <1>5, <1>6, <1>7 DEF Supervise

LEMMA PlansSoundStep == TypeOK /\ PlansSound /\ [Next]_vars => PlansSound'
  <1> SUFFICES ASSUME TypeOK, PlansSound, [Next]_vars PROVE PlansSound' OBVIOUS
  <1>1. CASE UNCHANGED <<run, plan>> BY <1>1 DEF PlansSound
  <1>. QED BY <1>1, PlansSoundSupervise DEF Next, AssembleMaterials, EndAttempt, TimePasses, RequestCancel,
       CloseTask, MoveTask, vars, tables

-----------------------------------------------------------------------------
(* The properties *)

\* The rows and the executions keep their shapes.
THEOREM TypeCorrect == Spec => []TypeOK
  <1>1. IInv => TypeOK BY DEF IInv
  <1>. QED BY <1>1, Invariant, PTL

\* The rows written by complete_goal_understanding and activate_plan_version tell one story.
THEOREM TablesAgree == Spec => []RowsAgree
  <1>1. IInv => RowsAgree BY DEF IInv, RowInv
  <1>. QED BY <1>1, Invariant, PTL

\* What activate answers is what is stored.
THEOREM AnswersHold == Spec => []AnswersAreTrue
  <1>1. IInv => AnswersAreTrue
    BY DEF IInv, ExecutionsTrue, ExecutionTrue, AnswersAreTrue, HasGoal
  <1>. QED BY <1>1, Invariant, PTL

\* Of the goal attempts that read one version of the task, one is stored.
THEOREM VersionFences == Spec => []OneGoalPerVersion
  <1>1. IInv => OneGoalPerVersion BY DEF IInv, RowInv, GoalsUnique, OneGoalPerVersion
  <1>. QED BY <1>1, Invariant, PTL

\* A question to the user excludes a plan.
THEOREM QuestionOrPlan == Spec => []QuestionExcludesPlan
  <1>1. IInv => QuestionExcludesPlan BY DEF IInv, RowInv
  <1>. QED BY <1>1, Invariant, PTL

\* The items of an active plan can be done one after the other, for any draft a model
\* may give: validate_plan_relations refuses what waits for itself, and nothing but an
\* accepted draft is activated.
THEOREM PlanCanFinish == Spec => []ActivePlanCanFinish
  <1>1. Init => PlansSound BY DEF Init, Idle, PlansSound
  <1>2. TypeOK /\ PlansSound => ActivePlanCanFinish
    <2> SUFFICES ASSUME TypeOK, PlansSound, plan # None,
                        NEW left \in SUBSET plan.draft.items, left # {}
                 PROVE \E i \in left : plan.draft.needs[i] \intersect left = {}
      BY DEF ActivePlanCanFinish
    <2>1. plan.draft \in Draft /\ ~ Cyclic(plan.draft) BY DEF TypeOK, PlanVersion, PlansSound
    <2>2. plan.draft \in DraftShape /\ IsFiniteSet(plan.draft.items) BY <2>1, PlanningAssumption
    <2>. QED BY <2>1, <2>2, AcyclicCanFinish
  <1>. QED BY <1>1, <1>2, PlansSoundStep, TypeCorrect, PTL DEF Spec

\* A stored plan and the end of its attempt are those of every execution that repeats it.
LEMMA RepeatedPlanIsStored ==
  ASSUME IInv, NEW e \in Execution, ExecutionTrue(e), e.pc = "activate", plan = PlanOf(e)
  PROVE task.active /\ PlanStored(e)
  <1>1. e.attempt \in GoalAttempt /\ materials[e.attempt] \in Materials /\ e.goal \in Goal
        /\ e.draft \in Draft
    BY DEF ExecutionTrue, IInv, TypeOK
  <1>2. PlanOf(e) \in PlanVersion BY <1>1 DEF PlanOf, PlanVersion, Materials
  <1>3. plan # None BY <1>2, PlanningAssumption
  <1>4. PICK x \in goals : x.attempt = e.attempt /\ x.goal = e.goal BY DEF ExecutionTrue, HasGoal
  <1>5. PICK r \in goals :
          /\ r.goal = plan.goal
          /\ attempt[plan.attempt] =
               [status |-> "COMPLETED", result |-> plan.draft, endedBy |-> r.attempt]
    BY <1>3 DEF IInv, RowInv, PlanRests
  <1>6. plan.goal = e.goal /\ plan.draft = e.draft BY DEF PlanOf
  <1>7. r = x BY <1>4, <1>5, <1>6 DEF IInv, RowInv, GoalsUnique
  <1>8. task.active BY <1>3 DEF IInv, RowInv, RowsAgree
  <1>. QED BY <1>4, <1>5, <1>6, <1>7, <1>8 DEF PlanStored

\* Repeating what is stored is never refused, by any execution at any time.
THEOREM ReplaysAccepted == Spec => ReplayAccepted
  <1> DEFINE Repeats(e) ==
        \/ e.pc = "complete" /\ \E r \in goals : r.attempt = e.attempt /\ r.goal = e.goal
        \/ e.pc = "activate" /\ plan = PlanOf(e)
  <1>1. ASSUME IInv, Next, NEW s \in Supervisor, Repeats(run[s])
        PROVE run'[s].answer # "refused"
    <2>1. run[s] \in Execution /\ ExecutionTrue(run[s])
      BY <1>1 DEF IInv, TypeOK, ExecutionsTrue
    <2>2. PICK x \in Execution : x = run[s] /\ ExecutionTrue(x) BY <2>1
    <2>3. x.answer = "none" BY <1>1, <2>2 DEF ExecutionTrue
    <2>4. CASE run'[s] = run[s] BY <2>2, <2>3, <2>4
    <2>5. CASE Crash(s)
      <3>1. run'[s] = Idle BY <1>1, <2>5, OneBecomes, IdleFacts DEF Crash, IInv
      <3>. QED BY <3>1 DEF Idle
    <2>6. ASSUME NEW why \in Answer \ {"refused"}, Answered(s, why) PROVE run'[s].answer # "refused"
      <3>1. run'[s] = [x EXCEPT !.pc = "idle", !.answer = why]
        BY <1>1, <2>2, <2>6 DEF Answered, Becomes, IInv, TypeOK
      <3>2. [x EXCEPT !.pc = "idle", !.answer = why].answer = why
        BY ONLY x \in Execution, why \in Answer, AnsweredFields, Zenon
      <3>. QED BY <3>1, <3>2
    <2>7. CASE CompleteGoal(s)
      <3>1. x.pc = "complete" BY <2>2, <2>7 DEF CompleteGoal
      <3>2. GoalStored(x) BY <1>1, <2>2, <3>1 DEF GoalStored
      <3>3. AfterGoal(s) BY <2>2, <2>7, <3>2 DEF CompleteGoal
      <3>4. CASE Answered(s, "waiting")
        <4>1. "waiting" \in Answer \ {"refused"} BY DEF Answer
        <4>. QED BY <2>6, <3>4, <4>1
      <3>5. CASE GoesOn(s, "draft")
        <4>1. run'[s] = [x EXCEPT !.pc = "draft"]
          BY <1>1, <2>2, <3>5 DEF GoesOn, Becomes, IInv, TypeOK
        <4>2. "draft" \in Point BY DEF Point
        <4>3. run'[s].answer = x.answer BY <4>1, <4>2, PointFields
        <4>. QED BY <2>3, <4>3
      <3>. QED BY <3>3, <3>4, <3>5 DEF AfterGoal
    <2>8. CASE ActivatePlan(s)
      <3>1. x.pc = "activate" BY <2>2, <2>8 DEF ActivatePlan
      <3>2. plan = PlanOf(x) BY <1>1, <2>2, <3>1
      <3>3. task.active /\ PlanStored(x) BY <1>1, <2>2, <3>1, <3>2, RepeatedPlanIsStored
      <3>4. Answered(s, "activated") BY <2>2, <2>8, <3>3 DEF ActivatePlan
      <3>5. "activated" \in Answer \ {"refused"} BY DEF Answer
      <3>. QED BY <2>6, <3>4, <3>5
    <2>9. \/ run'[s] = run[s] \/ CompleteGoal(s) \/ ActivatePlan(s) \/ Crash(s)
      <3>1. x.pc \in {"complete", "activate"} BY <1>1, <2>2
      <3>2. ASSUME NEW t \in Supervisor, Supervise(t), t # s PROVE run'[s] = run[s]
        BY <1>1, <3>2 DEF Supervise, Start, UnderstandGoal, CompleteGoal, DraftPlan, ActivatePlan,
             Crash, Answered, AfterGoal, GoesOn, Becomes, IInv, TypeOK
      <3>3. CASE Supervise(s)
        BY <2>2, <3>1, <3>3 DEF Supervise, Start, UnderstandGoal, DraftPlan
      <3>4. CASE \/ \E g \in GoalAttempt, p \in PlanAttempt : AssembleMaterials(g, p)
                 \/ \E p \in PlanAttempt : EndAttempt(p)
                 \/ TimePasses \/ RequestCancel \/ CloseTask
        BY <3>4 DEF AssembleMaterials, EndAttempt, TimePasses, RequestCancel, CloseTask, MoveTask
      <3>. QED BY <1>1, <3>2, <3>3, <3>4 DEF Next
    <2>. QED BY <2>4, <2>5, <2>7, <2>8, <2>9
  <1>2. IInv /\ [Next]_vars =>
          [\A s \in Supervisor : Repeats(run[s]) => run'[s].answer # "refused"]_vars
    BY <1>1
  <1>3. IInv /\ [Next]_vars =>
          [\A s \in Supervisor :
             LET e == run[s]
             IN /\ \/ e.pc = "complete"
                      /\ \E r \in goals : r.attempt = e.attempt /\ r.goal = e.goal
                   \/ e.pc = "activate" /\ plan = PlanOf(e)
                => run'[s].answer # "refused"]_vars
    BY <1>2
  <1>. QED BY <1>3, Invariant, PTL DEF Spec, ReplayAccepted
=============================================================================
