---------------------------- MODULE GoalPlanning ----------------------------
(***************************************************************************)
(* Goal understanding and plan activation of one task                      *)
(* (supervisor_activation.py, persistence/planning.py).                    *)
(*                                                                         *)
(* A supervisor asks a model for a goal, stores it in one transaction,     *)
(* asks for a plan, and activates it in a second one.  Executions of the   *)
(* supervisor may overlap, crash between the two transactions and be run   *)
(* again with the same materials but with other answers of the model.      *)
(*                                                                         *)
(* A definition Name_Fault is not part of the model: it is Name with a     *)
(* plausible fault, kept to confirm that a property notices it.            *)
(***************************************************************************)
EXTENDS Naturals, FiniteSets

CONSTANTS Supervisor,    \* executions of SupervisorActivationService.activate
          GoalAttempt,   \* attempts of kind GOAL_UNDERSTANDING, all COMPLETED
          PlanAttempt,   \* attempts of kind PLAN
          Goal,          \* understandings a model may give, by their digest
          Blocking,      \* those with blocking issues
          Item,          \* local ids of plan items
          Draft,         \* plans a model may give
          None,
          MaxFaults      \* bound: crashed executions

\* What validation looks at in a draft: the dependencies of its items (all of
\* them known items), the items declared ready, the goals whose criteria it
\* covers, and whether the planning view has the capabilities it asks for.
DraftShape == [items : SUBSET Item, needs : [Item -> SUBSET Item], ready : SUBSET Item,
               covers : SUBSET Goal, resolved : BOOLEAN]

Clock == {"ample", "short", "past"}
Status == {"PLANNING", "WAITING_USER_INPUT", "RUNNING", "CANCEL_REQUESTED", "ENDED"}
Task == [status : Status, version : Nat, active : BOOLEAN]
GoalRow == [attempt : GoalAttempt, goal : Goal, version : Nat]
PlanVersion == [attempt : PlanAttempt, goal : Goal, draft : Draft]
AttemptRow == [status : {"RUNNING", "COMPLETED", "ENDED"}, result : Draft \union {None},
               endedBy : GoalAttempt \union {None}]   \* whose clock reading is ended_at
Running == [status |-> "RUNNING", result |-> None, endedBy |-> None]
Materials == [version : Nat, plan : PlanAttempt, clock : Clock]
Answer == {"none", "activated", "waiting", "refused", "expires late"}
Execution == [pc : {"idle", "understand", "complete", "draft", "activate"},
              attempt : GoalAttempt \union {None}, goal : Goal \union {None},
              draft : Draft \union {None}, answer : Answer]
Idle == [pc |-> "idle", attempt |-> None, goal |-> None, draft |-> None, answer |-> "none"]

ASSUME PlanningAssumption ==
  /\ Blocking \subseteq Goal /\ MaxFaults \in Nat /\ Draft \subseteq DraftShape
  /\ IsFiniteSet(GoalAttempt) /\ \A d \in Draft : IsFiniteSet(d.items)
  /\ None \notin Goal \union Draft \union GoalAttempt \union PlanAttempt
  /\ None \notin PlanVersion /\ None \notin Materials

VARIABLES task,        \* intelligent_task
          clock,       \* time left: 30 minutes or more, less, none
          goals,       \* task_goal_understanding
          requests,    \* user_input_request, all PENDING
          plan,        \* task_plan_version with its items
          attempt,     \* task_attempt of kind PLAN
          events,      \* number of events of each type
          materials,   \* what an attempt was given, fixed when it is assembled
          run,         \* executions of activate
          faults

tables == <<task, goals, requests, plan, attempt, events>>
vars == <<tables, clock, materials, run, faults>>

TypeOK == /\ task \in Task /\ clock \in Clock
          /\ goals \subseteq GoalRow /\ requests \subseteq GoalAttempt
          /\ plan \in PlanVersion \union {None}
          /\ attempt \in [PlanAttempt -> AttemptRow]
          /\ events \in [goal : Nat, request : Nat, plan : Nat]
          /\ materials \in [GoalAttempt -> Materials \union {None}]
          /\ run \in [Supervisor -> Execution] /\ faults \in 0..MaxFaults

Init == /\ task = [status |-> "PLANNING", version |-> 1, active |-> FALSE]
        /\ clock \in {"ample", "short"}
        /\ goals = {} /\ requests = {} /\ plan = None
        /\ attempt = [p \in PlanAttempt |-> Running]
        /\ events = [goal |-> 0, request |-> 0, plan |-> 0]
        /\ materials = [g \in GoalAttempt |-> None]
        /\ run = [s \in Supervisor |-> Idle] /\ faults = 0

-----------------------------------------------------------------------------
(* The rest of the system *)

\* The materials of an attempt: the task version that was read, a plan attempt
\* and one reading of the clock, the same in every execution of the attempt.
AssembleMaterials(g, p) ==
  /\ materials[g] = None /\ task.status = "PLANNING"
  /\ materials' = [materials EXCEPT ![g] = [version |-> task.version, plan |-> p, clock |-> clock]]
  /\ UNCHANGED <<tables, clock, run, faults>>

TimePasses ==
  /\ clock # "past" /\ clock' = IF clock = "ample" THEN "short" ELSE "past"
  /\ UNCHANGED <<tables, materials, run, faults>>

\* A cancel request, and the terminal commit of the root workflow.
MoveTask(from, to) ==
  /\ task.status \in from /\ task' = [task EXCEPT !.status = to]
  /\ UNCHANGED <<goals, requests, plan, attempt, events, clock, materials, run, faults>>

RequestCancel == MoveTask({"PLANNING", "WAITING_USER_INPUT", "RUNNING"}, "CANCEL_REQUESTED")
CloseTask == MoveTask(Status \ {"ENDED"}, "ENDED")

\* The child workflow gives a plan attempt another end (a timeout, a failure, a
\* cancellation), though a late execution may still be at work for it.
EndAttempt(p) ==
  /\ attempt[p].status = "RUNNING"
  /\ attempt' = [attempt EXCEPT ![p].status = "ENDED"]
  /\ UNCHANGED <<task, goals, requests, plan, events, clock, materials, run, faults>>

-----------------------------------------------------------------------------
(* Validation of a draft (validate_plan_relations, validate_plan) *)

\* Fault: only an item that needs itself is noticed.
Cyclic_SelfOnly(d) == \E i \in d.items : i \in d.needs[i]

\* The depth-first search for a cycle.  comesBack[path] are the items from which a
\* search that came along this path comes back to an item of it.
Cyclic(d) ==
  LET comesBack[path \in SUBSET Item] ==
        {i \in Item : i \in path \/ \E j \in d.needs[i] : j \in comesBack[path \union {i}]}
  IN d.items \intersect comesBack[{}] # {}

Accepted(d, goal, m) ==
  /\ d.items # {} /\ d.ready # {} /\ d.ready \subseteq d.items
  /\ \A i \in d.items : d.needs[i] \subseteq d.items
  /\ \A i \in d.ready : d.needs[i] = {}
  /\ ~ Cyclic(d) /\ goal \in d.covers /\ d.resolved /\ m.clock # "past"

-----------------------------------------------------------------------------
(* One execution of activate *)

\* How an execution ends or goes on.
Becomes(s, e) == run' = [run EXCEPT ![s] = e]
Answered(s, why) == Becomes(s, [run[s] EXCEPT !.pc = "idle", !.answer = why])
GoesOn(s, pc) == Becomes(s, [run[s] EXCEPT !.pc = pc])

Start(s, g) ==
  /\ run[s].pc = "idle" /\ materials[g] # None
  /\ Becomes(s, [Idle EXCEPT !.pc = "understand", !.attempt = g])
  /\ UNCHANGED <<tables, clock, materials, faults>>

\* The model's goal, or an exception for one whose references are invalid.
UnderstandGoal(s) ==
  /\ run[s].pc = "understand"
  /\ \/ \E u \in Goal : Becomes(s, [run[s] EXCEPT !.pc = "complete", !.goal = u])
     \/ Answered(s, "refused")
  /\ UNCHANGED <<tables, clock, materials, faults>>

\* The gate: a goal with blocking issues asks the user, any other goes on to a plan.
AfterGoal(s) == IF run[s].goal \in Blocking THEN Answered(s, "waiting") ELSE GoesOn(s, "draft")

\* Fault: a replay is recognised only while the task version is the one that was read.
GoalStored_FencedFirst(e) ==
  \E r \in goals : r.attempt = e.attempt /\ r.goal = e.goal /\ r.version = task.version

\* The same goal of the same attempt once more.
GoalStored(e) == \E r \in goals : r.attempt = e.attempt /\ r.goal = e.goal

\* Fault: the version of the task is not compared.
VersionFits_Unchecked(m) == TRUE

\* The version fence of the task.
VersionFits(m) == task.version = m.version

\* What the code asks of the task before a goal is stored, in both places.
GoalFits(e) ==
  /\ \A r \in goals : r.attempt # e.attempt /\ r.goal # e.goal
  /\ task.status = "PLANNING" /\ ~ task.active /\ VersionFits(materials[e.attempt])

\* The question expires 30 minutes after the materials were assembled, which
\* must not be after the deadline; its round is always 1.
QuestionFits(e) == materials[e.attempt].clock = "ample"
RoundFits == requests = {}

StoreGoal(e) ==
  LET asks == e.goal \in Blocking
  IN /\ goals' = goals \union {[attempt |-> e.attempt, goal |-> e.goal,
                              version |-> materials[e.attempt].version]}
     /\ requests' = IF asks THEN requests \union {e.attempt} ELSE requests
     /\ task' = [task EXCEPT !.version = @ + 1,
                             !.status = IF asks THEN "WAITING_USER_INPUT" ELSE "PLANNING"]
     /\ events' = [events EXCEPT !.goal = @ + 1, !.request = IF asks THEN @ + 1 ELSE @]

\* complete_goal_understanding, one transaction: a replay, a new row, or an
\* exception that leaves nothing behind.
CompleteGoal(s) ==
  LET e == run[s]
      asks == e.goal \in Blocking
      fits == GoalFits(e) /\ (asks => QuestionFits(e) /\ RoundFits) /\ clock # "past"
  IN /\ e.pc = "complete"
     /\ \/ GoalStored(e) /\ AfterGoal(s) /\ UNCHANGED tables
        \/ ~ GoalStored(e) /\ fits /\ StoreGoal(e) /\ AfterGoal(s) /\ UNCHANGED <<plan, attempt>>
        \/ /\ ~ GoalStored(e) /\ ~ fits
           /\ Answered(s, IF GoalFits(e) /\ asks /\ ~ QuestionFits(e) THEN "expires late" ELSE "refused")
           /\ UNCHANGED tables
     /\ UNCHANGED <<clock, materials, faults>>

\* The model's plan, validated and compiled, or an exception.
DraftPlan(s) ==
  /\ run[s].pc = "draft"
  /\ \E d \in Draft :
       IF Accepted(d, run[s].goal, materials[run[s].attempt])
         THEN Becomes(s, [run[s] EXCEPT !.pc = "activate", !.draft = d])
         ELSE Answered(s, "refused")
  /\ UNCHANGED <<tables, clock, materials, faults>>

PlanOf(e) == [attempt |-> materials[e.attempt].plan, goal |-> e.goal, draft |-> e.draft]

\* The same activation once more: the plan and the end of its attempt are alike.
PlanStored(e) ==
  /\ plan = PlanOf(e)
  /\ attempt[plan.attempt] = [status |-> "COMPLETED", result |-> e.draft, endedBy |-> e.attempt]

\* Fault: activation looks at the plan pointer only.
TaskTakesPlan_NoStatus == ~ task.active
TaskTakesPlan == task.status = "PLANNING"

PlanFits(e) ==
  /\ TaskTakesPlan
  /\ \E r \in goals : r.goal = e.goal /\ r.goal \notin Blocking
  /\ attempt[materials[e.attempt].plan].status = "RUNNING" /\ clock # "past"

\* Fault: the plan is activated and its attempt is left running.
EndedAttempt_Forgotten(e) == attempt

EndedAttempt(e) ==
  [attempt EXCEPT ![materials[e.attempt].plan] =
     [status |-> "COMPLETED", result |-> e.draft, endedBy |-> e.attempt]]

StorePlan(e) ==
  /\ plan' = PlanOf(e) /\ attempt' = EndedAttempt(e)
  /\ task' = [task EXCEPT !.status = "RUNNING", !.active = TRUE]
  /\ events' = [events EXCEPT !.plan = @ + 1]

\* activate_plan_version, one transaction as well.
ActivatePlan(s) ==
  LET e == run[s]
      replay == task.active /\ PlanStored(e)
      fits == ~ task.active /\ PlanFits(e)
  IN /\ e.pc = "activate"
     /\ \/ replay /\ Answered(s, "activated") /\ UNCHANGED tables
        \/ fits /\ StorePlan(e) /\ Answered(s, "activated") /\ UNCHANGED <<goals, requests>>
        \/ ~ replay /\ ~ fits /\ Answered(s, "refused") /\ UNCHANGED tables
     /\ UNCHANGED <<clock, materials, faults>>

Crash(s) ==
  /\ run[s].pc # "idle" /\ faults < MaxFaults
  /\ Becomes(s, Idle) /\ faults' = faults + 1
  /\ UNCHANGED <<tables, clock, materials>>

Supervise(s) == \/ \E g \in GoalAttempt : Start(s, g)
                \/ UnderstandGoal(s) \/ CompleteGoal(s) \/ DraftPlan(s) \/ ActivatePlan(s)
                \/ Crash(s)

Next == \/ \E s \in Supervisor : Supervise(s)
        \/ \E g \in GoalAttempt, p \in PlanAttempt : AssembleMaterials(g, p)
        \/ \E p \in PlanAttempt : EndAttempt(p)
        \/ TimePasses \/ RequestCancel \/ CloseTask

Spec == Init /\ [][Next]_vars

-----------------------------------------------------------------------------
(* Properties *)

\* Concurrent goals: of all attempts that read the same task version, one wins.
OneGoalPerVersion ==
  \A x, y \in goals : x.version = y.version => x = y

\* The tables written by the two transactions tell one story: an active plan
\* has its version row, rests on a stored goal that asks nothing, and its
\* attempt is completed with that very plan; no attempt is completed without a
\* plan; every row was announced by one event; and of the goals that were made for
\* one version of the task one is stored (complete_goal_understanding and
\* activate_plan_version).
RowsAgree ==
  /\ OneGoalPerVersion
  /\ task.active <=> plan # None
  /\ plan # None =>
       /\ \E r \in goals : r.goal = plan.goal /\ r.goal \notin Blocking
       /\ attempt[plan.attempt].status = "COMPLETED" /\ attempt[plan.attempt].result = plan.draft
  /\ \A p \in PlanAttempt :
       attempt[p].status = "COMPLETED" => plan # None /\ plan.attempt = p
  /\ {r.attempt : r \in {x \in goals : x.goal \in Blocking}} = requests
  /\ events = [goal |-> Cardinality(goals), request |-> Cardinality(requests),
                plan |-> IF plan = None THEN 0 ELSE 1]

\* What an execution answers is what is stored: a replay with other answers of
\* the model is not told that its own plan or question was taken.
AnswersAreTrue ==
  \A s \in Supervisor :
    /\ run[s].answer = "activated" => plan = PlanOf(run[s])
    /\ run[s].answer = "waiting" =>
         /\ run[s].goal \in Blocking /\ run[s].attempt \in requests
         /\ \E r \in goals : r.attempt = run[s].attempt /\ r.goal = run[s].goal

\* A question to the user excludes a plan, whichever of two overlapping
\* executions is first.
QuestionExcludesPlan == requests = {} \/ plan = None

\* Repeating what is stored is accepted, after a crash between the transactions
\* or by an execution that runs twice, however far the task has moved on.
ReplayAccepted ==
  [][\A s \in Supervisor :
       LET e == run[s]
       IN /\ \/ e.pc = "complete"
                /\ \E r \in goals : r.attempt = e.attempt /\ r.goal = e.goal
             \/ e.pc = "activate" /\ plan = PlanOf(e)
          => run'[s].answer # "refused"]_vars

\* The items of the active plan can be done one after the other, each when those
\* it needs are done: nothing in it waits for itself.
ActivePlanCanFinish ==
  plan # None =>
    \A left \in SUBSET plan.draft.items :
      left # {} => \E i \in left : plan.draft.needs[i] \intersect left = {}

=============================================================================
