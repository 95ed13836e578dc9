---------------------------- MODULE TaskExecution ----------------------------
(***************************************************************************)
(* Reliable execution of one intelligent task: the PostgreSQL rows written *)
(* by task creation, cancellation, plan activation and the control         *)
(* activities; the two outbox rows that start the root workflow and signal *)
(* it (module Outbox, composed here); the root AgentTaskWorkflow and the   *)
(* AgentAttemptWorkflow it runs for each attempt.                          *)
(*                                                                         *)
(* A workflow advances from one await to the next.  Activities run at      *)
(* least once: a worker may be so slow that its activity is retried or     *)
(* cancelled and still commits afterwards ("late").                        *)
(*                                                                         *)
(* A definition Name_Fault is not part of the model: it is Name with a     *)
(* plausible fault, kept to confirm that a property notices it.            *)
(***************************************************************************)
EXTENDS Naturals, Sequences, FiniteSets

CONSTANTS NumAttempts,       \* attempts of the task, in attempt_no order
          GoalAttempt,       \* the attempts of kind GOAL_UNDERSTANDING
          PlanAttempt,       \* the attempts of kind PLAN
          MaxPerRun,         \* MAX_ATTEMPTS_PER_ROOT_RUN (10 in the code)
          StartPublisher,    \* pollers of destination TEMPORAL_START
          SignalPublisher,   \* pollers of destination TEMPORAL_SIGNAL
          MaxAttempts,       \* max_attempts of an outbox row
          MaxFaults,         \* bound: crashes, overrun leases, lost activities
          NoOne

Attempt == 1..NumAttempts
Message == {"START", "SIGNAL"}
Publisher == StartPublisher \union SignalPublisher

ASSUME ExecutionAssumption ==
  /\ NumAttempts \in Nat
  /\ GoalAttempt \subseteq Attempt /\ PlanAttempt \subseteq Attempt
  /\ GoalAttempt \intersect PlanAttempt = {}
  /\ MaxPerRun \in Nat \ {0} /\ MaxAttempts \in Nat \ {0} /\ MaxFaults \in Nat
  /\ StartPublisher \intersect SignalPublisher = {}
  /\ NoOne \notin Publisher /\ NoOne \notin Message

VARIABLES status,    \* intelligent_task.status ("NONE": no row)
          goal,      \* outcome of the task's goal gate
          events,    \* task_event, by sequence
          overdue,   \* now >= deadline_at
          root,      \* the root workflow
          child,     \* the child workflow of each attempt
          att,       \* task_attempt rows
          late,      \* activity executions whose workflow has moved on
          row, poll, delivered, faults   \* the outbox

taskVars == <<status, goal, events, overdue>>
flowVars == <<root, child, att, late>>
outboxVars == <<row, poll, delivered>>
vars == <<status, goal, events, overdue, root, child, att, late, row, poll, delivered, faults>>

O == INSTANCE Outbox WITH Invalid <- {}, BatchSize <- 1

-----------------------------------------------------------------------------
(* State *)

Cancellable == {"QUEUED", "PLANNING", "WAITING_USER_INPUT", "RUNNING"}
OpenStatus == Cancellable \union {"CANCEL_REQUESTED"}
TerminalStatus == {"FAILED", "CANCELLED"}
Outcome == {"COMPLETED", "FAILED", "CANCELLED"}

OpenRoot == {"loop", "applying", "applied", "claiming", "attempt", "waiting", "committing"}
OpenChild == {"executing", "committing", "cancelling"}

\* An activity execution that nobody waits for any more.
ClaimActivity == [kind |-> "claim", attempt |-> 0, outcome |-> "NONE"]
RootCommit(o) == [kind |-> "root", attempt |-> 0, outcome |-> o]
AttemptCommit(a, o) == [kind |-> "attempt", attempt |-> a, outcome |-> o]
Activity == {ClaimActivity} \union {RootCommit(o) : o \in TerminalStatus}
              \union {AttemptCommit(a, o) : a \in Attempt, o \in Outcome}

Root == [pc : {"absent", "completed", "cancelled", "failed"} \union OpenRoot,
         pending : BOOLEAN,                       \* _events_pending
         cursor : Nat,                            \* _event_cursor
         dispatched : Nat,                        \* _attempts_dispatched
         att : Attempt \union {0},                \* attempt whose child it awaits
         target : TerminalStatus \union {"NONE"}, \* terminal state being committed
         cancel : {"none", "asked", "swallowed", "unwinding"}]  \* Temporal-level

Child == [pc : {"none", "completed", "cancelled", "failed"} \union OpenChild,
          gen : Nat, rv : Nat,                    \* fencing tokens it was started with
          outcome : Outcome \union {"NONE"}]

AttemptRow == [status : {"ABSENT", "CREATED", "RUNNING"} \union Outcome, gen : Nat, rv : Nat]

EventType == {"TASK_CREATED", "GOAL_UNDERSTANDING_COMPLETED", "USER_INPUT_REQUESTED",
              "PLAN_ACTIVATED", "TASK_CANCELLED"}
GateOutcome == {"READY_TO_PLAN", "REQUEST_USER_INPUT"}

TypeOK == /\ status \in {"NONE"} \union OpenStatus \union TerminalStatus
          /\ goal \in GateOutcome \union {"NONE"}
          /\ events \in Seq(EventType)
          /\ overdue \in BOOLEAN
          /\ root \in Root
          /\ child \in [Attempt -> Child]
          /\ att \in [Attempt -> AttemptRow]
          /\ late \subseteq Activity
          /\ O!TypeOK

Init == /\ status = "NONE" /\ goal = "NONE" /\ events = <<>> /\ overdue = FALSE
        /\ root = [pc |-> "absent", pending |-> FALSE, cursor |-> 0, dispatched |-> 0,
                   att |-> 0, target |-> "NONE", cancel |-> "none"]
        /\ child = [a \in Attempt |-> [pc |-> "none", gen |-> 0, rv |-> 0, outcome |-> "NONE"]]
        /\ att = [a \in Attempt |-> [status |-> "ABSENT", gen |-> 0, rv |-> 0]]
        /\ late = {}
        /\ O!Init

-----------------------------------------------------------------------------
(* The API and the planner *)

\* One transaction: task, TASK_CREATED as event 1, TEMPORAL_START row.
CreateTask ==
  /\ status = "NONE"
  /\ status' = "QUEUED" /\ events' = <<"TASK_CREATED">>
  /\ O!Enqueue("START")
  /\ UNCHANGED <<goal, overdue, root, child, att, late, poll, delivered, faults>>

\* One transaction under the task's row lock: open status -> CANCEL_REQUESTED,
\* TASK_CANCELLED event, TEMPORAL_SIGNAL row.
RequestCancel ==
  /\ status \in Cancellable
  /\ status' = "CANCEL_REQUESTED" /\ events' = Append(events, "TASK_CANCELLED")
  /\ O!Enqueue("SIGNAL")
  /\ UNCHANGED <<goal, overdue, root, child, att, late, poll, delivered, faults>>

\* Admission of the task to planning, and the creation of its attempts.
StartPlanning ==
  /\ status = "QUEUED" /\ status' = "PLANNING"
  /\ UNCHANGED <<goal, events, overdue, root, child, att, late, row, poll, delivered, faults>>

CreateAttempt(a) ==
  /\ status \in Cancellable
  /\ att[a].status = "ABSENT" /\ \A b \in 1..(a - 1) : att[b].status # "ABSENT"
  /\ att' = [att EXCEPT ![a] = [status |-> "CREATED", gen |-> 0, rv |-> 1]]
  /\ UNCHANGED <<status, goal, events, overdue, root, child, late, row, poll, delivered, faults>>

\* complete_goal_understanding: the gate decides on the result of a COMPLETED goal
\* attempt; a clarification puts the task on hold.
CompleteGoal(a, outcome) ==
  /\ a \in GoalAttempt /\ att[a].status = "COMPLETED"
  /\ goal = "NONE" /\ status = "PLANNING" /\ ~ overdue
  /\ goal' = outcome
  /\ IF outcome = "REQUEST_USER_INPUT"
     THEN /\ status' = "WAITING_USER_INPUT"
          /\ events' = events \o <<"GOAL_UNDERSTANDING_COMPLETED", "USER_INPUT_REQUESTED">>
     ELSE events' = Append(events, "GOAL_UNDERSTANDING_COMPLETED") /\ UNCHANGED status
  /\ UNCHANGED <<overdue, root, child, att, late, row, poll, delivered, faults>>

\* The attempt gets its outcome, and a new row version.
EndRow(a, o) == [att EXCEPT ![a] = [status |-> o, gen |-> @.gen, rv |-> @.rv + 1]]

\* Fault: a plan activation that does not check the status of the task.
PlanWanted_AnyStatus == goal = "READY_TO_PLAN" /\ ~ overdue

PlanWanted == status = "PLANNING" /\ goal = "READY_TO_PLAN" /\ ~ overdue

\* activate_plan_version, called by the attempt's execution activity (or by one
\* that was already given up): completes the PLAN attempt in the same transaction.
ActivatePlan(a) ==
  /\ a \in PlanAttempt /\ child[a].pc # "none"
  /\ PlanWanted
  /\ att[a].status = "RUNNING" /\ att[a].rv = child[a].rv
  /\ status' = "RUNNING" /\ events' = Append(events, "PLAN_ACTIVATED")
  /\ att' = EndRow(a, "COMPLETED")
  /\ UNCHANGED <<goal, overdue, root, child, late, row, poll, delivered, faults>>

DeadlinePasses ==
  /\ status # "NONE" /\ ~ overdue /\ overdue' = TRUE
  /\ UNCHANGED <<status, goal, events, root, child, att, late, row, poll, delivered, faults>>

-----------------------------------------------------------------------------
(* Outbox publishers meeting the root workflow *)

\* start_workflow with USE_EXISTING and REJECT_DUPLICATE: starts the root, or
\* finds it running; refused once the root has closed.
StartRoot(p, acked) ==
  /\ root.pc \in {"absent"} \union OpenRoot
  /\ O!Send(p, "START", TRUE, acked)
  /\ root' = IF root.pc = "absent" THEN [root EXCEPT !.pc = "loop", !.cursor = 1] ELSE root
  /\ UNCHANGED <<status, goal, events, overdue, child, att, late>>

\* business_event_available: only a running root can be signalled.
SignalRoot(p, acked) ==
  /\ root.pc \in OpenRoot
  /\ O!Send(p, "SIGNAL", TRUE, acked)
  /\ root' = [root EXCEPT !.pending = TRUE]
  /\ UNCHANGED <<status, goal, events, overdue, child, att, late>>

\* The call fails: refused by Temporal, or lost on the way.
SendFails(p, m) == O!Send(p, m, FALSE, FALSE) /\ UNCHANGED <<taskVars, flowVars>>

Destination(p) == IF p \in StartPublisher THEN "START" ELSE "SIGNAL"

PublisherStep(p) ==
  \/ O!ClaimBatch(p, {Destination(p)}) /\ UNCHANGED <<taskVars, flowVars>>
  \/ \E acked \in BOOLEAN : StartRoot(p, acked) \/ SignalRoot(p, acked)
  \/ \E m \in Message : SendFails(p, m)
  \/ (O!MarkPublished(p) \/ O!MarkFailed(p)) /\ UNCHANGED <<taskVars, flowVars>>

OutboxClock(m) == (O!BackoffElapses(m) \/ O!LeaseLapses(m)) /\ UNCHANGED <<taskVars, flowVars>>
PublisherCrash(p) == O!Crash(p) /\ UNCHANGED <<taskVars, flowVars>>

-----------------------------------------------------------------------------
(* The root workflow: _run_loop *)

\* A business event was signalled: clear the flag, then read the event log.
ReadEvents ==
  /\ root.pc = "loop" /\ root.pending
  /\ root' = [root EXCEPT !.pc = "applying", !.pending = FALSE]

\* Fault: the workflow continues as new before it has looked at a pending signal.
ContinueAsNew_DropsSignal ==
  /\ root.pc = "loop" /\ root.dispatched >= MaxPerRun
  /\ root' = [root EXCEPT !.dispatched = 0, !.pending = FALSE]

\* A fresh run of the workflow keeps the cursor and starts with no signal pending.
ContinueAsNew ==
  /\ root.pc = "loop" /\ ~ root.pending /\ root.dispatched >= MaxPerRun
  /\ root' = [root EXCEPT !.dispatched = 0]

Expire ==
  /\ root.pc = "loop" /\ ~ root.pending /\ root.dispatched < MaxPerRun /\ overdue
  /\ root' = [root EXCEPT !.pc = "committing", !.target = "FAILED"]

AskForAttempt ==
  /\ root.pc = "loop" /\ ~ root.pending /\ root.dispatched < MaxPerRun /\ ~ overdue
  /\ root' = [root EXCEPT !.pc = "claiming"]

\* Fault: a wait that no signal ends.
Wake_OnDeadlineOnly == root.pc = "waiting" /\ overdue /\ root' = [root EXCEPT !.pc = "loop"]
\* Fault: a wait that has no timeout.
Wake_OnSignalOnly == root.pc = "waiting" /\ root.pending /\ root' = [root EXCEPT !.pc = "loop"]

Wake ==
  /\ root.pc = "waiting" /\ (root.pending \/ overdue)
  /\ root' = [root EXCEPT !.pc = "loop"]

\* apply_business_events reads everything after the cursor; a TASK_CANCELLED among
\* it is the terminal state requested of the root.
ApplyEvents ==
  /\ root.pc = "applying"
  /\ root' = [root EXCEPT !.pc = "applied", !.cursor = Len(events),
                !.target = IF \E i \in (root.cursor + 1)..Len(events) : events[i] = "TASK_CANCELLED"
                           THEN "CANCELLED" ELSE "NONE"]
  /\ UNCHANGED <<taskVars, child, att, late, outboxVars, faults>>

\* Its answer arrives, possibly after another signal: commit, or back to the loop.
EventsApplied ==
  /\ root.pc = "applied"
  /\ root' = [root EXCEPT !.pc = IF root.target = "NONE" THEN "loop" ELSE "committing"]

RootStep == /\ \/ ReadEvents \/ EventsApplied \/ ContinueAsNew
               \/ Expire \/ AskForAttempt \/ Wake
            /\ UNCHANGED <<taskVars, child, att, late, outboxVars, faults>>

\* claim_next_attempt: the earliest CREATED attempt becomes RUNNING, with new tokens.
Earliest(a) == /\ att[a].status = "CREATED"
               /\ \A b \in 1..(a - 1) : att[b].status # "CREATED"
ClaimRow(a) == [att EXCEPT ![a] = [status |-> "RUNNING", gen |-> @.gen + 1, rv |-> @.rv + 1]]

\* Fault: the child gets the row version from before the claim.
StartedChild_StaleToken(a) ==
  [pc |-> "executing", gen |-> att[a].gen + 1, rv |-> att[a].rv, outcome |-> "NONE"]

\* The child is started with the tokens that the claim returned.
StartedChild(a) ==
  [pc |-> "executing", gen |-> att[a].gen + 1, rv |-> att[a].rv + 1, outcome |-> "NONE"]

\* The claim is answered: the root starts the attempt's child, or goes to wait.
ClaimAttempt ==
  /\ root.pc = "claiming"
  /\ \/ \E a \in Attempt :
          /\ Earliest(a)
          /\ att' = ClaimRow(a)
          /\ child' = [child EXCEPT ![a] = StartedChild(a)]
          /\ root' = [root EXCEPT !.pc = "attempt", !.att = a]
     \/ /\ \A a \in Attempt : att[a].status # "CREATED"
        /\ root' = [root EXCEPT !.pc = "waiting"]
        /\ UNCHANGED <<att, child>>
  /\ UNCHANGED <<taskVars, late, outboxVars, faults>>

\* Fault: the terminal status overwrites any other.
TerminalUpdate_Unguarded(target) == target

\* commit_root_terminal_state: only an open status is overwritten.
TerminalUpdate(target) == IF status \in OpenStatus THEN target ELSE status

\* The root closes: with a result, or as CANCELLED when it was unwinding.
CommitRoot ==
  /\ root.pc = "committing"
  /\ status' = TerminalUpdate(root.target)
  /\ root' = [root EXCEPT !.pc = IF root.cancel = "unwinding" THEN "cancelled" ELSE "completed"]
  /\ UNCHANGED <<goal, events, overdue, child, att, late, outboxVars, faults>>

-----------------------------------------------------------------------------
(* The child workflow of an attempt *)

Awaited(a) == root.pc = "attempt" /\ root.att = a
ChildEnds(a, pc) == child' = [child EXCEPT ![a] = [@ EXCEPT !.pc = pc]]

\* The root resumes after its child: next round of the loop.  A cancellation
\* that the child did not get to see is swallowed with it.
RootResumes == root' = [root EXCEPT !.pc = "loop", !.att = 0, !.dispatched = @ + 1,
                                    !.cancel = IF @ = "asked" THEN "swallowed" ELSE @]
\* An exception that is not a cancellation ends the root without a commit.
RootFails == root' = [root EXCEPT !.pc = "failed", !.att = 0]
\* A cancellation: commit CANCELLED, then close.
Unwinding == [root EXCEPT !.pc = "committing", !.att = 0, !.target = "CANCELLED",
                          !.cancel = "unwinding"]

\* execute_attempt returns a result, possibly one that reports a failure.
ExecuteReturns(a, o) ==
  /\ child[a].pc = "executing" /\ o \in {"COMPLETED", "FAILED"}
  /\ child' = [child EXCEPT ![a] = [@ EXCEPT !.pc = "committing", !.outcome = o]]
  /\ UNCHANGED <<taskVars, root, att, late, outboxVars, faults>>

\* execute_attempt raises once its retries are exhausted.
ExecuteRaises(a) ==
  /\ child[a].pc = "executing" /\ faults < MaxFaults /\ faults' = faults + 1
  /\ ChildEnds(a, "failed") /\ RootFails
  /\ UNCHANGED <<taskVars, att, late, outboxVars>>

\* commit_attempt_terminal_state: the row must be RUNNING and carry both tokens.
CommitRow(a, o) ==
  IF /\ att[a].status = "RUNNING"
     /\ att[a].gen = child[a].gen /\ att[a].rv = child[a].rv
  THEN EndRow(a, o)
  ELSE att

\* The child ends whether the commit took effect or was fenced off.
CommitAttempt(a) ==
  /\ child[a].pc = "committing"
  /\ att' = CommitRow(a, child[a].outcome)
  /\ ChildEnds(a, "completed") /\ RootResumes
  /\ UNCHANGED <<taskVars, late, outboxVars, faults>>

\* The cancellation reaches the child.  Only an executing child commits
\* CANCELLED; one that is committing is torn out of its activity.
ChildCancelled(a) ==
  /\ Awaited(a) /\ root.cancel = "asked"
  /\ \/ /\ child[a].pc = "executing"
        /\ child' = [child EXCEPT ![a] = [@ EXCEPT !.pc = "cancelling", !.outcome = "CANCELLED"]]
        /\ UNCHANGED <<root, late>>
     \/ /\ child[a].pc = "committing"
        /\ ChildEnds(a, "cancelled") /\ root' = Unwinding
        /\ late' \in {late, late \union {AttemptCommit(a, child[a].outcome)}}
  /\ UNCHANGED <<taskVars, att, outboxVars, faults>>

\* _commit_cancelled: best effort, its own failure is ignored.
CommitCancelled(a) ==
  /\ child[a].pc = "cancelling"
  /\ \/ att' = CommitRow(a, "CANCELLED") /\ UNCHANGED faults
     \/ faults < MaxFaults /\ faults' = faults + 1 /\ UNCHANGED att
  /\ ChildEnds(a, "cancelled") /\ root' = Unwinding
  /\ UNCHANGED <<taskVars, late, outboxVars>>

ChildStep(a) == \/ \E o \in Outcome : ExecuteReturns(a, o)
                \/ CommitAttempt(a) \/ ChildCancelled(a) \/ CommitCancelled(a)

-----------------------------------------------------------------------------
(* Cancellation from Temporal, and activities that are lost *)

\* The activity the root is waiting for, as an execution left behind.
Pending == IF root.pc = "claiming" THEN {ClaimActivity}
           ELSE IF root.pc = "committing" THEN {RootCommit(root.target)} ELSE {}

\* An operator cancels the root workflow.  It unwinds at once, unless it awaits
\* a child, which must first be cancelled; its activity may still execute.
OperatorCancel ==
  /\ root.pc \in OpenRoot /\ root.cancel = "none"
  /\ \/ /\ root.pc = "attempt"
        /\ root' = [root EXCEPT !.cancel = "asked"]
        /\ UNCHANGED late
     \/ /\ root.pc # "attempt"
        /\ root' = Unwinding
        /\ late' \in {late, late \union Pending}
  /\ UNCHANGED <<taskVars, child, att, outboxVars, faults>>

\* A control activity times out and is retried while its worker may still commit.
ActivityRetried ==
  /\ faults < MaxFaults /\ faults' = faults + 1
  /\ \/ Pending # {} /\ late' = late \union Pending
     \/ \E a \in Attempt : /\ child[a].pc \in {"committing", "cancelling"}
                           /\ late' = late \union {AttemptCommit(a, child[a].outcome)}
  /\ UNCHANGED <<taskVars, root, child, att, outboxVars>>

\* A control activity has no retries left: the workflow that awaits it fails.
ActivityExhausted ==
  /\ faults < MaxFaults /\ faults' = faults + 1
  /\ \/ /\ root.pc \in {"applying", "applied", "claiming", "committing"}
        /\ RootFails /\ late' \in {late, late \union Pending} /\ UNCHANGED child
     \/ \E a \in Attempt : /\ child[a].pc = "committing"
                           /\ ChildEnds(a, "failed") /\ RootFails
                           /\ late' \in {late, late \union {AttemptCommit(a, child[a].outcome)}}
  /\ UNCHANGED <<taskVars, att, outboxVars>>

\* An execution left behind takes effect; its answer reaches nobody.
LateActivity(x) ==
  /\ x \in late /\ late' = late \ {x}
  /\ \/ /\ x.kind = "claim"
        /\ \/ \E a \in Attempt : Earliest(a) /\ att' = ClaimRow(a)
           \/ (\A a \in Attempt : att[a].status # "CREATED") /\ UNCHANGED att
        /\ UNCHANGED status
     \/ x.kind = "root" /\ status' = TerminalUpdate(x.outcome) /\ UNCHANGED att
     \/ x.kind = "attempt" /\ att' = CommitRow(x.attempt, x.outcome) /\ UNCHANGED status
  /\ UNCHANGED <<goal, events, overdue, root, child, outboxVars, faults>>

-----------------------------------------------------------------------------
(* Specification *)

ClosedRoot == {"completed", "cancelled", "failed"}

\* The root is closed, or its start was given up: nothing has to happen any more.
Done == /\ \/ root.pc \in ClosedRoot
           \/ root.pc = "absent" /\ row["START"].status = "DEAD"
        /\ UNCHANGED vars

PlannerStep == \/ StartPlanning
               \/ \E a \in Attempt :
                    \/ CreateAttempt(a) \/ ActivatePlan(a)
                    \/ \E outcome \in GateOutcome : CompleteGoal(a, outcome)
ApiStep == CreateTask \/ RequestCancel
ActivityFault == \/ ActivityRetried \/ ActivityExhausted
                 \/ \E a \in Attempt : ExecuteRaises(a)

Next == \/ ApiStep \/ PlannerStep \/ DeadlinePasses \/ OperatorCancel
        \/ \E p \in Publisher : PublisherStep(p) \/ PublisherCrash(p)
        \/ \E m \in Message : OutboxClock(m)
        \/ RootStep \/ ApplyEvents \/ ClaimAttempt \/ CommitRoot
        \/ \E a \in Attempt : ChildStep(a)
        \/ ActivityFault \/ \E x \in late : LateActivity(x)
        \/ Done

\* Pollers and workers run for ever; the outbox clocks advance; an execution
\* activity returns within its timeouts.  Users, planner, operator, late activities
\* and the task's deadline (far away) are not obliged to come.
Fairness ==
  /\ \A p \in Publisher : WF_vars(PublisherStep(p))
  /\ \A m \in Message : WF_vars(OutboxClock(m))
  /\ WF_vars(RootStep) /\ WF_vars(ApplyEvents) /\ WF_vars(ClaimAttempt) /\ WF_vars(CommitRoot)
  /\ \A a \in Attempt : WF_vars(ChildStep(a))

Spec == Init /\ [][Next]_vars
FairSpec == Spec /\ Fairness

-----------------------------------------------------------------------------
(* Properties *)

\* Once a cancellation is in the event log no plan is activated any more,
\* however the planner's transaction and the cancel request interleave.
NoPlanAfterCancel ==
  \A i, j \in DOMAIN events :
    events[i] = "TASK_CANCELLED" /\ events[j] = "PLAN_ACTIVATED" => j < i

\* "PG first": the root ends with a result, or as cancelled, only after the
\* task's terminal status is in PostgreSQL.
RootClosesAfterCommit == root.pc \in {"completed", "cancelled"} => status \in TerminalStatus

\* A published signal is not lost: as long as an event of the log is beyond the
\* root's cursor, the running root still has a wake-up pending.
PublishedSignalIsSeen ==
  row["SIGNAL"].status = "PUBLISHED" /\ root.pc \in OpenRoot
    /\ (\E i \in (root.cursor + 1)..Len(events) : events[i] = "TASK_CANCELLED")
  => root.pending \/ root.pc = "applying" \/ root.cancel = "unwinding" \/ root.target = "FAILED"

\* Children run one at a time and never outlive the root's interest in them.
OneChildAtATime ==
  \A a \in Attempt : child[a].pc \in OpenChild => Awaited(a)

\* An attempt gets one outcome: a stale child, a retried or late commit or a
\* concurrent plan activation cannot replace it.
AttemptOutcomeFinal ==
  [][\A a \in Attempt : att[a].status \in Outcome => att'[a] = att[a]]_vars

\* Without faults and operator intervention every RUNNING attempt has its child
\* at work: deadlines, cancel requests, plan activations, lost or repeated
\* signals and continue-as-new leave no attempt behind.
NoOrphanWithoutFault ==
  faults = 0 /\ root.cancel = "none" =>
    \A a \in Attempt : att[a].status = "RUNNING" => child[a].pc \in OpenChild

\* A cancel request ends in a terminal status, well before the deadline, unless
\* the start or the signal of the root was given up or the root failed.
CancelConverges ==
  (status = "CANCEL_REQUESTED") ~>
    \/ status \in TerminalStatus \/ root.pc = "failed"
    \/ \E m \in Message : row[m].status = "DEAD"

\* A task past its deadline ends in a terminal status, whatever became of its
\* signals, unless the start of the root was given up or the root failed.
DeadlineConverges ==
  (overdue /\ status # "NONE") ~>
    \/ status \in TerminalStatus \/ root.pc = "failed"
    \/ row["START"].status = "DEAD"

\* The composed system implements the abstract life cycle of a task.
Lifecycle == INSTANCE TaskLifecycle WITH
  status <- IF status \in {"QUEUED", "PLANNING", "WAITING_USER_INPUT"} THEN "OPEN"
            ELSE IF status = "RUNNING" THEN "PLANNED" ELSE status,
  stopAsked <- root.cancel # "none",
  outcome <- [a \in Attempt |-> IF att[a].status \in {"ABSENT", "CREATED"} THEN "NONE"
                                ELSE att[a].status]

ImplementsLifecycle == Lifecycle!Spec
=============================================================================
