------------------------- MODULE TaskExecutionProofs -------------------------
(***************************************************************************)
(* Proofs about module TaskExecution, for any number of attempts, pollers, *)
(* attempts per run of the root, outbox attempts and faults.               *)
(*                                                                         *)
(* What is known of the outbox comes from OutboxProofs, instantiated as    *)
(* TaskExecution instantiates Outbox: its invariant is preserved by every  *)
(* step of the composed system.                                            *)
(***************************************************************************)
EXTENDS TaskExecution, TLAPS

OP == INSTANCE OutboxProofs WITH Invalid <- {}, BatchSize <- 1

-----------------------------------------------------------------------------
(* The outbox inside the composed system *)

LEMMA OutboxOK == OP!OutboxAssumption
  BY ExecutionAssumption DEF OP!OutboxAssumption, Publisher, Message

LEMMA OutboxTypes == (O!TypeOK <=> OP!TypeOK) /\ (O!TypeOK' <=> OP!TypeOK')
  BY Zenon DEF O!TypeOK, OP!TypeOK, O!Row, OP!Row, O!RowStatus, OP!RowStatus, O!Poll, OP!Poll

LEMMA OutboxInit == O!Init => OP!IInv
  <1>1. O!Init => OP!Init
    BY Zenon DEF O!Init, OP!Init, O!IdlePoll, OP!IdlePoll
  <1>. QED BY <1>1, OutboxOK, OP!InitInv DEF OP!OutboxAssumption

LEMMA OutboxStepInv ==
  ASSUME OP!IInv, [OP!Next]_OP!vars PROVE OP!IInv'
  BY OutboxOK, OP!StepInv DEF OP!OutboxAssumption

\* Faults elsewhere in the system leave the outbox as it is.
LEMMA OutboxFrame ==
  ASSUME OP!IInv, UNCHANGED outboxVars, faults' \in 0..MaxFaults PROVE OP!IInv'
  <1>1. OP!TypeOK'
    BY DEF OP!IInv, OP!TypeOK, outboxVars
  <1>2. /\ OP!DispatchKnown' /\ OP!SnapshotBehind' /\ OP!ClaimedWasWritten'
        /\ OP!PublishedWasDelivered' /\ OP!DeadWasExhausted'
    BY Zenon DEF OP!IInv, OP!DispatchKnown, OP!SnapshotBehind, OP!ClaimedWasWritten,
         OP!PublishedWasDelivered, OP!DeadWasExhausted, outboxVars
  <1>. QED BY <1>1, <1>2 DEF OP!IInv

\* Each use that the system makes of the outbox is one of the outbox's steps.
LEMMA EnqueueIsStep ==
  ASSUME NEW m \in Message, O!Enqueue(m), UNCHANGED <<poll, delivered, faults>> PROVE OP!Next
  <1>1. OP!Enqueue(m)
    BY Zenon DEF O!Enqueue, OP!Enqueue
  <1>. QED BY <1>1 DEF OP!Next

LEMMA ClockIsStep ==
  ASSUME NEW m \in Message, O!BackoffElapses(m) \/ O!LeaseLapses(m) PROVE OP!Next
  <1>1. OP!BackoffElapses(m) \/ OP!LeaseLapses(m)
    BY Zenon DEF O!BackoffElapses, OP!BackoffElapses, O!LeaseLapses, OP!LeaseLapses,
         O!Abandoned, OP!Abandoned
  <1>. QED BY <1>1 DEF OP!Next

LEMMA ClaimIsStep ==
  ASSUME NEW p \in Publisher, NEW batch \in SUBSET Message, O!ClaimBatch(p, batch) PROVE OP!Next
  <1>1. OP!ClaimBatch(p, batch)
    BY Zenon DEF O!ClaimBatch, OP!ClaimBatch, O!Claimable, OP!Claimable,
         O!Cardinality, OP!Cardinality
  <1>. QED BY <1>1 DEF OP!Next

LEMMA SendIsStep ==
  ASSUME NEW p \in Publisher, NEW m \in Message, NEW accepted \in BOOLEAN, NEW acked \in BOOLEAN,
         O!Send(p, m, accepted, acked)
  PROVE  OP!Next
  <1>1. OP!Send(p, m, accepted, acked)
    BY Zenon DEF O!Send, OP!Send
  <1>. QED BY <1>1 DEF OP!Next, OP!Dispatch

LEMMA WriteBackIsStep ==
  ASSUME NEW p \in Publisher, O!MarkPublished(p) \/ O!MarkFailed(p) PROVE OP!Next
  <1>1. ASSUME O!MarkPublished(p) PROVE OP!MarkPublished(p)
    BY <1>1, Zenon DEF O!MarkPublished, OP!MarkPublished, O!HoldsClaim, OP!HoldsClaim,
         O!NextMessage, OP!NextMessage, O!IdlePoll, OP!IdlePoll
  <1>2. ASSUME O!MarkFailed(p) PROVE OP!MarkFailed(p)
    BY <1>2, Zenon DEF O!MarkFailed, OP!MarkFailed, O!HoldsClaim, OP!HoldsClaim,
         O!NextMessage, OP!NextMessage, O!IdlePoll, OP!IdlePoll, O!FailedStatus, OP!FailedStatus
  <1>. QED BY <1>1, <1>2 DEF OP!Next

LEMMA CrashIsStep ==
  ASSUME NEW p \in Publisher, O!Crash(p) PROVE OP!Next
  <1>1. OP!Crash(p)
    BY Zenon DEF O!Crash, OP!Crash, O!IdlePoll, OP!IdlePoll
  <1>. QED BY <1>1 DEF OP!Next

\* A poller's poll is about the message of its destination.
LEMMA DestinationOK == ASSUME NEW p \in Publisher PROVE {Destination(p)} \in SUBSET Message
  BY DEF Destination, Message

LEMMA PublisherMove ==
  ASSUME NEW p \in Publisher, PublisherStep(p) \/ PublisherCrash(p) PROVE OP!Next
  <1>1. CASE O!ClaimBatch(p, {Destination(p)})
    BY <1>1, DestinationOK, ClaimIsStep
  <1>2. ASSUME NEW acked \in BOOLEAN, StartRoot(p, acked) \/ SignalRoot(p, acked) PROVE OP!Next
    BY <1>2, SendIsStep DEF StartRoot, SignalRoot, Message
  <1>3. ASSUME NEW m \in Message, SendFails(p, m) PROVE OP!Next
    BY <1>3, SendIsStep DEF SendFails
  <1>4. CASE O!MarkPublished(p) \/ O!MarkFailed(p)
    BY <1>4, WriteBackIsStep
  <1>5. CASE PublisherCrash(p)
    BY <1>5, CrashIsStep DEF PublisherCrash
  <1>. QED BY <1>1, <1>2, <1>3, <1>4, <1>5 DEF PublisherStep

\* The outbox invariant is preserved by every step of the composed system.
LEMMA OutboxPreserved ==
  ASSUME OP!IInv, [Next]_vars PROVE OP!IInv'
  <1>1. ASSUME OP!Next PROVE OP!IInv'
    BY <1>1, OutboxStepInv
  <1>2. faults \in 0..MaxFaults /\ (faults < MaxFaults => faults + 1 \in 0..MaxFaults)
    BY OutboxOK DEF OP!IInv, OP!TypeOK, OP!OutboxAssumption
  <1>3. ASSUME UNCHANGED <<outboxVars, faults>> PROVE OP!IInv'
    BY <1>2, <1>3, OutboxFrame
  <1>4. CASE CreateTask \/ RequestCancel
    <2>1. OP!Next
      BY <1>4, EnqueueIsStep DEF CreateTask, RequestCancel, Message
    <2>. QED BY <1>1, <2>1
  <1>5. CASE PlannerStep \/ DeadlinePasses
    <2>1. CASE StartPlanning \/ DeadlinePasses
      BY <1>3, <2>1 DEF StartPlanning, DeadlinePasses, outboxVars
    <2>2. ASSUME NEW a \in Attempt, CreateAttempt(a) \/ ActivatePlan(a)
          PROVE  OP!IInv'
      BY <1>3, <2>2 DEF CreateAttempt, ActivatePlan, outboxVars
    <2>3. ASSUME NEW a \in Attempt, NEW o \in GateOutcome, CompleteGoal(a, o) PROVE OP!IInv'
      BY <1>3, <2>3 DEF CompleteGoal, outboxVars
    <2>. QED BY <1>5, <2>1, <2>2, <2>3, Zenon DEF PlannerStep
  <1>6. CASE \/ OperatorCancel \/ RootStep \/ ApplyEvents \/ ClaimAttempt \/ CommitRoot
             \/ \E x \in late : LateActivity(x)
    <2>1. CASE RootStep \/ ApplyEvents \/ CommitRoot
      BY <1>3, <2>1 DEF RootStep, ApplyEvents, CommitRoot
    <2>2. CASE OperatorCancel \/ ClaimAttempt
      BY <1>3, <2>2, Zenon DEF OperatorCancel, ClaimAttempt
    <2>3. CASE \E x \in late : LateActivity(x)
      BY <1>3, <2>3, Zenon DEF LateActivity
    <2>. QED BY <1>6, <2>1, <2>2, <2>3
  <1>7. CASE \E p \in Publisher : PublisherStep(p) \/ PublisherCrash(p)
    BY <1>1, <1>7, PublisherMove
  <1>8. CASE \E m \in Message : OutboxClock(m)
    BY <1>1, <1>8, ClockIsStep DEF OutboxClock
  <1>9. CASE ActivityFault \/ \E a \in Attempt : ChildStep(a)
    <2>1. CASE ActivityRetried \/ ActivityExhausted
      BY <1>2, <2>1, OutboxFrame DEF ActivityRetried, ActivityExhausted
    <2>2. ASSUME NEW a \in Attempt, ExecuteRaises(a) \/ CommitCancelled(a) PROVE OP!IInv'
      BY <1>2, <2>2, OutboxFrame DEF ExecuteRaises, CommitCancelled
    <2>3. ASSUME NEW a \in Attempt, CommitAttempt(a) \/ ChildCancelled(a) PROVE OP!IInv'
      BY <1>3, <2>3 DEF CommitAttempt, ChildCancelled
    <2>4. ASSUME NEW a \in Attempt, NEW o \in Outcome, ExecuteReturns(a, o) PROVE OP!IInv'
      BY <1>3, <2>4 DEF ExecuteReturns
    <2>. QED BY <1>9, <2>1, <2>2, <2>3, <2>4, Zenon DEF ActivityFault, ChildStep
  <1>10. CASE UNCHANGED vars
    BY <1>3, <1>10 DEF vars, outboxVars
  <1>. QED BY <1>4, <1>5, <1>6, <1>7, <1>8, <1>9, <1>10 DEF Next, ApiStep, Done

-----------------------------------------------------------------------------
(* Which steps change what *)

\* The task and its event log.
LogStep == \/ CreateTask \/ RequestCancel \/ StartPlanning \/ CommitRoot
           \/ \E a \in Attempt : ActivatePlan(a) \/ \E o \in GateOutcome : CompleteGoal(a, o)
           \/ \E x \in late : LateActivity(x)

LEMMA LogFrame ==
  ASSUME [Next]_vars PROVE LogStep \/ DeadlinePasses \/ UNCHANGED taskVars
  <1>1. ASSUME NEW p \in Publisher, PublisherStep(p) \/ PublisherCrash(p) PROVE UNCHANGED taskVars
    BY <1>1, Zenon DEF PublisherStep, PublisherCrash, StartRoot, SignalRoot, SendFails, taskVars
  <1>2. ASSUME NEW m \in Message, OutboxClock(m) PROVE UNCHANGED taskVars
    BY <1>2 DEF OutboxClock
  <1>3. ASSUME NEW a \in Attempt, ChildStep(a) \/ ExecuteRaises(a) PROVE UNCHANGED taskVars
    BY <1>3, Zenon DEF ChildStep, ExecuteReturns, CommitAttempt, ChildCancelled, CommitCancelled,
                       ExecuteRaises
  <1>4. ASSUME OperatorCancel \/ RootStep \/ ApplyEvents \/ ClaimAttempt PROVE UNCHANGED taskVars
    BY <1>4, Zenon DEF OperatorCancel, RootStep, ApplyEvents, ClaimAttempt
  <1>5. ASSUME ActivityRetried \/ ActivityExhausted PROVE UNCHANGED taskVars
    BY <1>5, Zenon DEF ActivityRetried, ActivityExhausted
  <1>6. ASSUME \E a \in Attempt : CreateAttempt(a) PROVE UNCHANGED taskVars
    BY <1>6 DEF CreateAttempt, taskVars
  <1>7. ASSUME UNCHANGED vars PROVE UNCHANGED taskVars
    BY <1>7 DEF vars, taskVars
  <1>. QED BY <1>1, <1>2, <1>3, <1>4, <1>5, <1>6, <1>7, Zenon
           DEF Next, ApiStep, PlannerStep, ActivityFault, LogStep, Done

\* The table of attempts.
AttStep == \/ \E a \in Attempt : \/ CreateAttempt(a) \/ ActivatePlan(a)
                                 \/ CommitAttempt(a) \/ CommitCancelled(a)
           \/ ClaimAttempt \/ \E x \in late : LateActivity(x)

LEMMA AttFrame ==
  ASSUME [Next]_vars PROVE AttStep \/ UNCHANGED att
  <1>1. ASSUME NEW p \in Publisher, PublisherStep(p) \/ PublisherCrash(p) PROVE UNCHANGED att
    BY <1>1, Zenon DEF PublisherStep, PublisherCrash, StartRoot, SignalRoot, SendFails, flowVars
  <1>2. ASSUME NEW m \in Message, OutboxClock(m) PROVE UNCHANGED att
    BY <1>2 DEF OutboxClock, flowVars
  <1>3. ASSUME NEW a \in Attempt, \/ ChildCancelled(a) \/ ExecuteRaises(a)
                                  \/ \E o \in Outcome : ExecuteReturns(a, o)
        PROVE  UNCHANGED att
    BY <1>3, Zenon DEF ExecuteReturns, ChildCancelled, ExecuteRaises
  <1>4. ASSUME OperatorCancel \/ RootStep \/ ApplyEvents \/ CommitRoot \/ DeadlinePasses
        PROVE  UNCHANGED att
    BY <1>4, Zenon DEF OperatorCancel, RootStep, ApplyEvents, CommitRoot, DeadlinePasses
  <1>5. ASSUME ActivityRetried \/ ActivityExhausted PROVE UNCHANGED att
    BY <1>5, Zenon DEF ActivityRetried, ActivityExhausted
  <1>6. ASSUME CreateTask \/ RequestCancel \/ StartPlanning PROVE UNCHANGED att
    BY <1>6 DEF CreateTask, RequestCancel, StartPlanning
  <1>7. ASSUME NEW a \in Attempt, NEW o \in GateOutcome, CompleteGoal(a, o) PROVE UNCHANGED att
    BY <1>7 DEF CompleteGoal
  <1>8. ASSUME UNCHANGED vars PROVE UNCHANGED att
    BY <1>8 DEF vars
  <1>. QED BY <1>1, <1>2, <1>3, <1>4, <1>5, <1>6, <1>7, <1>8, Zenon
           DEF Next, ApiStep, PlannerStep, ActivityFault, ChildStep, AttStep, Done

\* The workflows.
StartOrSignal == \E p \in Publisher, acked \in BOOLEAN : StartRoot(p, acked) \/ SignalRoot(p, acked)
FlowStep == \/ StartOrSignal \/ RootStep \/ ApplyEvents \/ ClaimAttempt \/ CommitRoot
            \/ OperatorCancel \/ ActivityExhausted
            \/ \E a \in Attempt : ChildStep(a) \/ ExecuteRaises(a)

LEMMA FlowFrame ==
  ASSUME [Next]_vars PROVE FlowStep \/ UNCHANGED <<root, child>>
  <1>1. ASSUME NEW p \in Publisher, PublisherStep(p) \/ PublisherCrash(p)
        PROVE  StartOrSignal \/ UNCHANGED <<root, child>>
    BY <1>1, Zenon DEF PublisherStep, PublisherCrash, SendFails, StartOrSignal, flowVars
  <1>2. ASSUME NEW m \in Message, OutboxClock(m) PROVE UNCHANGED <<root, child>>
    BY <1>2 DEF OutboxClock, flowVars
  <1>3. ASSUME NEW a \in Attempt, \/ CreateAttempt(a) \/ ActivatePlan(a)
                                  \/ \E o \in GateOutcome : CompleteGoal(a, o)
        PROVE  UNCHANGED <<root, child>>
    BY <1>3, Zenon DEF CreateAttempt, ActivatePlan, CompleteGoal
  <1>4. ASSUME CreateTask \/ RequestCancel \/ StartPlanning \/ DeadlinePasses \/ ActivityRetried
        PROVE  UNCHANGED <<root, child>>
    BY <1>4, Zenon DEF CreateTask, RequestCancel, StartPlanning, DeadlinePasses, ActivityRetried
  <1>5. ASSUME NEW x \in late, LateActivity(x) PROVE UNCHANGED <<root, child>>
    BY <1>5 DEF LateActivity
  <1>6. ASSUME UNCHANGED vars PROVE UNCHANGED <<root, child>>
    BY <1>6 DEF vars
  <1>. QED BY <1>1, <1>2, <1>3, <1>4, <1>5, <1>6, Zenon
           DEF Next, ApiStep, PlannerStep, ActivityFault, FlowStep, Done

\* The table of executions left behind.
LEMMA LateFrame ==
  ASSUME [Next]_vars
  PROVE  \/ UNCHANGED late \/ OperatorCancel \/ ActivityRetried \/ ActivityExhausted
         \/ \E a \in Attempt : ChildCancelled(a)
         \/ \E x \in late : LateActivity(x)
  <1>1. ASSUME NEW p \in Publisher, PublisherStep(p) \/ PublisherCrash(p) PROVE UNCHANGED late
    BY <1>1, Zenon DEF PublisherStep, PublisherCrash, StartRoot, SignalRoot, SendFails, flowVars
  <1>2. ASSUME NEW m \in Message, OutboxClock(m) PROVE UNCHANGED late
    BY <1>2 DEF OutboxClock, flowVars
  <1>3. CASE \/ CreateTask \/ RequestCancel \/ StartPlanning \/ DeadlinePasses
             \/ RootStep \/ ApplyEvents \/ ClaimAttempt \/ CommitRoot
    BY <1>3, Zenon DEF CreateTask, RequestCancel, StartPlanning, DeadlinePasses,
         RootStep, ApplyEvents, ClaimAttempt, CommitRoot
  <1>4. ASSUME NEW a \in Attempt, \/ CreateAttempt(a) \/ ActivatePlan(a)
                                  \/ \E o \in GateOutcome : CompleteGoal(a, o)
                                  \/ \E o \in Outcome : ExecuteReturns(a, o)
                                  \/ CommitAttempt(a) \/ CommitCancelled(a) \/ ExecuteRaises(a)
        PROVE  UNCHANGED late
    BY <1>4, Zenon DEF CreateAttempt, ActivatePlan, CompleteGoal, ExecuteReturns, CommitAttempt,
         CommitCancelled, ExecuteRaises
  <1>5. CASE UNCHANGED vars
    BY <1>5 DEF vars
  <1>. QED BY <1>1, <1>2, <1>3, <1>4, <1>5, Zenon
           DEF Next, ApiStep, PlannerStep, ActivityFault, ChildStep, Done

-----------------------------------------------------------------------------
(* Type correctness *)

\* What is being committed is a terminal status, or an outcome of an attempt.
Committing ==
  /\ root.pc = "committing" => root.target \in TerminalStatus
  /\ \A a \in Attempt : child[a].pc \in {"committing", "cancelling"} => child[a].outcome \in Outcome

TypeInv == TypeOK /\ Committing

ChildPc == {"none", "completed", "cancelled", "failed"} \union OpenChild

LEMMA ChildUpdates ==
  ASSUME NEW r \in Child, NEW pc \in ChildPc, NEW o \in Outcome
  PROVE  /\ [r EXCEPT !.pc = pc] \in Child
         /\ [r EXCEPT !.pc = pc, !.outcome = o] \in Child
  <1>1. [r EXCEPT !.pc = pc] \in Child BY Zenon DEF Child, ChildPc
  <1>2. [r EXCEPT !.pc = pc, !.outcome = o] \in Child BY Zenon DEF Child, ChildPc
  <1>. QED BY <1>1, <1>2

\* The table of attempts stays well-formed: creation and claim, then an outcome.
LEMMA OpenedType ==
  ASSUME att \in [Attempt -> AttemptRow], NEW a \in Attempt
  PROVE  /\ [att EXCEPT ![a] = [status |-> "CREATED", gen |-> 0, rv |-> 1]] \in [Attempt -> AttemptRow]
         /\ ClaimRow(a) \in [Attempt -> AttemptRow]
  <1>1. att[a].gen + 1 \in Nat /\ att[a].rv + 1 \in Nat
    BY DEF AttemptRow
  <1>2. [status |-> "CREATED", gen |-> 0, rv |-> 1] \in AttemptRow
    BY DEF AttemptRow
  <1>3. [status |-> "RUNNING", gen |-> att[a].gen + 1, rv |-> att[a].rv + 1] \in AttemptRow
    BY <1>1 DEF AttemptRow
  <1>4. ClaimRow(a) \in [Attempt -> AttemptRow]
    BY <1>3, Zenon DEF ClaimRow
  <1>. QED BY <1>2, <1>4

LEMMA EndedType ==
  ASSUME att \in [Attempt -> AttemptRow], NEW a \in Attempt, NEW o \in Outcome
  PROVE  /\ EndRow(a, o) \in [Attempt -> AttemptRow]
         /\ CommitRow(a, o) \in [Attempt -> AttemptRow]
  <1>1. att[a].gen \in Nat /\ att[a].rv + 1 \in Nat
    BY DEF AttemptRow
  <1>2. [status |-> o, gen |-> att[a].gen, rv |-> att[a].rv + 1] \in AttemptRow
    BY <1>1 DEF AttemptRow
  <1>3. EndRow(a, o) \in [Attempt -> AttemptRow]
    BY <1>2, Zenon DEF EndRow
  <1>. QED BY <1>3, Zenon DEF CommitRow

LEMMA InitType == Init => TypeInv
  <1>. SUFFICES ASSUME Init PROVE TypeInv
    OBVIOUS
  <1>1. root \in Root
    BY DEF Init, Root, OpenRoot
  <1>2. child \in [Attempt -> Child]
    BY DEF Init, Child
  <1>3. att \in [Attempt -> AttemptRow]
    BY DEF Init, AttemptRow
  <1>4. O!TypeOK
    BY OutboxInit, OutboxTypes DEF Init, OP!IInv
  <1>5. events \in Seq(EventType)
    BY DEF Init
  <1>6. Committing
    BY DEF Init, Committing
  <1>. QED BY <1>1, <1>2, <1>3, <1>4, <1>5, <1>6 DEF Init, TypeInv, TypeOK

\* What is left behind by a workflow was being committed, so it is well-formed.
LEMMA LeftBehind ==
  ASSUME TypeInv
  PROVE  /\ Pending \subseteq Activity
         /\ \A a \in Attempt : child[a].pc \in {"committing", "cancelling"} =>
              AttemptCommit(a, child[a].outcome) \in Activity
  <1>1. root.pc = "committing" => RootCommit(root.target) \in Activity
    BY DEF TypeInv, Committing, Activity
  <1>2. Pending \subseteq Activity
    BY <1>1 DEF Pending, Activity
  <1>3. ASSUME NEW a \in Attempt, child[a].pc \in {"committing", "cancelling"}
        PROVE  AttemptCommit(a, child[a].outcome) \in Activity
    BY <1>3 DEF TypeInv, Committing, Activity
  <1>. QED BY <1>2, <1>3

LEMMA LateKinds ==
  ASSUME NEW x \in Activity
  PROVE  /\ x.kind = "root" => x.outcome \in TerminalStatus
         /\ x.kind = "attempt" => x.attempt \in Attempt /\ x.outcome \in Outcome
  BY DEF Activity, ClaimActivity, RootCommit, AttemptCommit

LEMMA LateType ==
  ASSUME TypeInv, [Next]_vars PROVE late' \subseteq Activity
  <1>. late \subseteq Activity
    BY DEF TypeInv, TypeOK
  <1>1. CASE OperatorCancel
    BY <1>1, LeftBehind, Zenon DEF OperatorCancel
  <1>2. CASE ActivityRetried \/ ActivityExhausted
    BY <1>2, LeftBehind DEF ActivityRetried, ActivityExhausted
  <1>3. ASSUME NEW a \in Attempt, ChildCancelled(a) PROVE late' \subseteq Activity
    BY <1>3, LeftBehind DEF ChildCancelled
  <1>4. CASE \E x \in late : LateActivity(x)
    BY <1>4 DEF LateActivity
  <1>. QED BY <1>1, <1>2, <1>3, <1>4, LateFrame

LEMMA TaskType ==
  ASSUME TypeInv, [Next]_vars
  PROVE  /\ status' \in {"NONE"} \union OpenStatus \union TerminalStatus
         /\ goal' \in GateOutcome \union {"NONE"}
         /\ events' \in Seq(EventType)
         /\ overdue' \in BOOLEAN
  <1>. USE DEF TypeInv, TypeOK
  <1>1. CASE CreateTask
    BY <1>1 DEF CreateTask, OpenStatus, Cancellable, EventType
  <1>2. CASE RequestCancel
    BY <1>2 DEF RequestCancel, OpenStatus, EventType
  <1>3. CASE StartPlanning \/ DeadlinePasses
    BY <1>3 DEF StartPlanning, DeadlinePasses, OpenStatus, Cancellable
  <1>4. CASE CommitRoot
    BY <1>4 DEF CommitRoot, Committing, TerminalUpdate
  <1>5. ASSUME NEW a \in Attempt, ActivatePlan(a)
        PROVE  status' = "RUNNING" /\ events' \in Seq(EventType) /\ UNCHANGED <<goal, overdue>>
    BY <1>5 DEF ActivatePlan, EventType
  <1>6. ASSUME NEW a \in Attempt, NEW o \in GateOutcome, CompleteGoal(a, o)
        PROVE  /\ status' \in {"PLANNING", "WAITING_USER_INPUT"} /\ goal' = o
               /\ events' \in Seq(EventType) /\ UNCHANGED overdue
    <2>1. <<"GOAL_UNDERSTANDING_COMPLETED", "USER_INPUT_REQUESTED">> \in Seq(EventType)
      BY DEF EventType
    <2>2. events \o <<"GOAL_UNDERSTANDING_COMPLETED", "USER_INPUT_REQUESTED">> \in Seq(EventType)
      BY <2>1
    <2>3. Append(events, "GOAL_UNDERSTANDING_COMPLETED") \in Seq(EventType)
      BY DEF EventType
    <2>4. events' \in Seq(EventType)
      BY <1>6, <2>2, <2>3, Zenon DEF CompleteGoal
    <2>. QED BY <1>6, <2>4, Zenon DEF CompleteGoal
  <1>7. ASSUME NEW x \in late, LateActivity(x)
        PROVE  status' \in {status} \union TerminalStatus /\ UNCHANGED <<goal, events, overdue>>
    BY <1>7, LateKinds DEF LateActivity, TerminalUpdate
  <1>8. {"RUNNING", "PLANNING", "WAITING_USER_INPUT"} \subseteq OpenStatus
    BY DEF OpenStatus, Cancellable
  <1>9. CASE LogStep
    BY <1>1, <1>2, <1>3, <1>4, <1>5, <1>6, <1>7, <1>8, <1>9 DEF LogStep
  <1>. QED BY <1>3, <1>9, LogFrame DEF taskVars

LEMMA AttType ==
  ASSUME TypeInv, [Next]_vars PROVE att' \in [Attempt -> AttemptRow]
  <1>. att \in [Attempt -> AttemptRow] /\ late \subseteq Activity
    BY DEF TypeInv, TypeOK
  <1>0. "COMPLETED" \in Outcome /\ "CANCELLED" \in Outcome
    BY DEF Outcome
  <1>1. ASSUME NEW a \in Attempt, CreateAttempt(a) \/ ActivatePlan(a)
        PROVE  att' \in [Attempt -> AttemptRow]
    <2>1. CASE CreateAttempt(a)
      BY <2>1, OpenedType, Zenon DEF CreateAttempt
    <2>2. CASE ActivatePlan(a)
      BY <1>0, <2>2, EndedType, Zenon DEF ActivatePlan
    <2>. QED BY <1>1, <2>1, <2>2
  <1>2. ASSUME NEW a \in Attempt, CommitAttempt(a) \/ CommitCancelled(a)
        PROVE  att' \in [Attempt -> AttemptRow]
    <2>1. child[a].pc = "committing" => child[a].outcome \in Outcome
      BY DEF TypeInv, Committing
    <2>2. CASE CommitAttempt(a)
      BY <2>1, <2>2, EndedType, Zenon DEF CommitAttempt
    <2>3. CASE CommitCancelled(a)
      BY <1>0, <2>3, EndedType, Zenon DEF CommitCancelled
    <2>. QED BY <1>2, <2>2, <2>3
  <1>3. CASE ClaimAttempt
    BY <1>3, OpenedType, Zenon DEF ClaimAttempt
  <1>4. ASSUME NEW x \in late, LateActivity(x) PROVE att' \in [Attempt -> AttemptRow]
    <2>1. ASSUME NEW a \in Attempt, att' = ClaimRow(a) PROVE att' \in [Attempt -> AttemptRow]
      BY <2>1, OpenedType, Zenon
    <2>2. ASSUME x.kind = "attempt", att' = CommitRow(x.attempt, x.outcome)
          PROVE  att' \in [Attempt -> AttemptRow]
      <3>1. x.attempt \in Attempt /\ x.outcome \in Outcome
        BY <2>2, LateKinds
      <3>. QED BY <2>2, <3>1, EndedType, Zenon
    <2>. QED BY <1>4, <2>1, <2>2, Zenon DEF LateActivity
  <1>5. CASE AttStep
    BY <1>1, <1>2, <1>3, <1>4, <1>5, Zenon DEF AttStep
  <1>. QED BY <1>5, AttFrame

\* The steps of the root on its own.
LEMMA RootStepType ==
  ASSUME TypeInv, RootStep \/ ApplyEvents \/ CommitRoot \/ StartOrSignal
  PROVE  /\ root' \in Root /\ UNCHANGED child
         /\ root'.pc = "committing" => root'.target \in TerminalStatus
  <1>. root \in Root /\ events \in Seq(EventType)
    BY DEF TypeInv, TypeOK
  <1>1. CASE RootStep
    <2>1. UNCHANGED child
      BY <1>1 DEF RootStep
    <2>2. ASSUME ReadEvents \/ ContinueAsNew \/ AskForAttempt \/ Wake
          PROVE  root' \in Root /\ root'.pc # "committing"
      <3>1. root' \in Root
        <4>1. /\ [root EXCEPT !.pc = "applying", !.pending = FALSE] \in Root
              /\ [root EXCEPT !.dispatched = 0] \in Root
              /\ [root EXCEPT !.pc = "claiming"] \in Root
              /\ [root EXCEPT !.pc = "loop"] \in Root
          <5>1. [root EXCEPT !.pc = "applying", !.pending = FALSE] \in Root
            BY Zenon DEF Root, OpenRoot
          <5>2. [root EXCEPT !.dispatched = 0] \in Root
            BY Zenon, 0 \in Nat DEF Root
          <5>3. [root EXCEPT !.pc = "claiming"] \in Root /\ [root EXCEPT !.pc = "loop"] \in Root
            BY Zenon DEF Root, OpenRoot
          <5>. QED BY <5>1, <5>2, <5>3
        <4>. QED BY <2>2, <4>1, Zenon DEF ReadEvents, ContinueAsNew, AskForAttempt, Wake
      <3>. QED BY <2>2, <3>1 DEF ReadEvents, ContinueAsNew, AskForAttempt, Wake, Root
    <2>3. ASSUME Expire PROVE root' \in Root /\ root'.target = "FAILED"
      <3>1. root' \in Root
        BY <2>3, Zenon DEF Expire, Root, OpenRoot, TerminalStatus
      <3>. QED BY <2>3, <3>1 DEF Expire, Root
    <2>4. ASSUME EventsApplied
          PROVE  root' \in Root /\ (root'.pc = "committing" => root'.target # "NONE")
      <3>1. root' \in Root
        BY <2>4, Zenon DEF EventsApplied, Root, OpenRoot
      <3>. QED BY <2>4, <3>1 DEF EventsApplied, Root
    <2>. QED BY <1>1, <2>1, <2>2, <2>3, <2>4 DEF RootStep, Root, TerminalStatus
  <1>2. CASE ApplyEvents
    <2>1. Len(events) \in Nat
      OBVIOUS
    <2>2. root' \in Root
      BY <1>2, <2>1, Zenon DEF ApplyEvents, Root, OpenRoot, TerminalStatus
    <2>3. root'.pc = "applied"
      BY <1>2, <2>2 DEF ApplyEvents, Root
    <2>. QED BY <1>2, <2>2, <2>3 DEF ApplyEvents
  <1>3. CASE CommitRoot
    <2>1. root' \in Root
      BY <1>3, Zenon DEF CommitRoot, Root
    <2>2. root'.pc # "committing"
      BY <1>3, <2>1 DEF CommitRoot, Root
    <2>. QED BY <1>3, <2>1, <2>2 DEF CommitRoot
  <1>4. ASSUME NEW p \in Publisher, NEW acked \in BOOLEAN, StartRoot(p, acked) \/ SignalRoot(p, acked)
        PROVE  /\ root' \in Root /\ UNCHANGED child
               /\ root'.pc = "committing" => root'.target \in TerminalStatus
    <2>1. root' \in Root
      <3>1. [root EXCEPT !.pc = "loop", !.cursor = 1] \in Root
        BY Zenon DEF Root, OpenRoot
      <3>2. [root EXCEPT !.pending = TRUE] \in Root
        BY Zenon DEF Root
      <3>. QED BY <1>4, <3>1, <3>2, Zenon DEF StartRoot, SignalRoot
    <2>2. UNCHANGED child
      BY <1>4 DEF StartRoot, SignalRoot
    <2>3. root'.pc = "committing" => root.pc = "committing" /\ root'.target = root.target
      BY <1>4, <2>1 DEF StartRoot, SignalRoot, Root
    <2>. QED BY <2>1, <2>2, <2>3 DEF TypeInv, Committing
  <1>. QED BY <1>1, <1>2, <1>3, <1>4 DEF StartOrSignal

\* The ways a root leaves its attempt.
LEMMA UnwindType ==
  ASSUME root \in Root
  PROVE  /\ Unwinding \in Root /\ Unwinding.pc = "committing" /\ Unwinding.target = "CANCELLED"
         /\ Unwinding.cancel = "unwinding"
         /\ RootResumes => root' \in Root /\ root'.pc = "loop"
         /\ RootFails => root' \in Root /\ root'.pc = "failed"
  <1>1. Unwinding \in Root
    BY Zenon DEF Unwinding, Root, OpenRoot, TerminalStatus
  <1>2. /\ Unwinding.pc = "committing" /\ Unwinding.target = "CANCELLED"
        /\ Unwinding.cancel = "unwinding"
    BY <1>1 DEF Unwinding, Root
  <1>3. ASSUME RootResumes PROVE root' \in Root /\ root'.pc = "loop"
    <2>1. root.dispatched + 1 \in Nat
      BY DEF Root
    <2>2. root' \in Root
      BY <1>3, <2>1, Zenon DEF RootResumes, Root, OpenRoot
    <2>. QED BY <1>3, <2>2 DEF RootResumes, Root
  <1>4. ASSUME RootFails PROVE root' \in Root /\ root'.pc = "failed"
    <2>1. root' \in Root
      BY <1>4, Zenon DEF RootFails, Root
    <2>. QED BY <1>4, <2>1 DEF RootFails, Root
  <1>. QED BY <1>1, <1>2, <1>3, <1>4

\* A child is claimed, changes state, or is given an outcome to commit.
LEMMA ChildType ==
  ASSUME TypeInv, NEW a \in Attempt, NEW pc \in ChildPc, ChildEnds(a, pc)
  PROVE  /\ child' \in [Attempt -> Child]
         /\ child'[a].pc = pc /\ child'[a].outcome = child[a].outcome
         /\ \A b \in Attempt \ {a} : child'[b] = child[b]
  <1>1. child[a] \in Child /\ child \in [Attempt -> Child]
    BY DEF TypeInv, TypeOK
  <1>2. [child[a] EXCEPT !.pc = pc] \in Child
    <2>1. "FAILED" \in Outcome
      BY DEF Outcome
    <2>. QED BY <1>1, <2>1, ChildUpdates, Zenon
  <1>3. child' = [child EXCEPT ![a] = [child[a] EXCEPT !.pc = pc]]
    BY Zenon DEF ChildEnds
  <1>4. child' \in [Attempt -> Child] /\ child'[a] = [child[a] EXCEPT !.pc = pc]
    BY <1>1, <1>2, <1>3, Zenon
  <1>. QED BY <1>1, <1>3, <1>4 DEF Child

LEMMA ChildOutcomeType ==
  ASSUME TypeInv, NEW a \in Attempt, NEW pc \in ChildPc, NEW o \in Outcome,
         child' = [child EXCEPT ![a] = [@ EXCEPT !.pc = pc, !.outcome = o]]
  PROVE  /\ child' \in [Attempt -> Child]
         /\ child'[a].pc = pc /\ child'[a].outcome = o
         /\ \A b \in Attempt \ {a} : child'[b] = child[b]
  <1>1. child[a] \in Child /\ child \in [Attempt -> Child]
    BY DEF TypeInv, TypeOK
  <1>2. [child[a] EXCEPT !.pc = pc, !.outcome = o] \in Child
    BY <1>1, ChildUpdates, Zenon
  <1>3. child' \in [Attempt -> Child] /\ child'[a] = [child[a] EXCEPT !.pc = pc, !.outcome = o]
    BY <1>1, <1>2, Zenon
  <1>. QED BY <1>1, <1>3 DEF Child

LEMMA ChildStart ==
  ASSUME TypeInv, NEW a \in Attempt, child' = [child EXCEPT ![a] = StartedChild(a)]
  PROVE  /\ child' \in [Attempt -> Child]
         /\ child'[a].pc = "executing"
         /\ \A b \in Attempt \ {a} : child'[b] = child[b]
  <1>1. child \in [Attempt -> Child] /\ att[a].gen + 1 \in Nat /\ att[a].rv + 1 \in Nat
    BY DEF TypeInv, TypeOK, AttemptRow
  <1>2. StartedChild(a) \in Child /\ StartedChild(a).pc = "executing"
    BY <1>1 DEF StartedChild, Child, OpenChild
  <1>. QED BY <1>1, <1>2

FlowOK == /\ root' \in Root /\ child' \in [Attempt -> Child]
          /\ Committing'

LEMMA ChildStepType ==
  ASSUME TypeInv, NEW a \in Attempt, ChildStep(a) \/ ExecuteRaises(a) PROVE FlowOK
  <1>0. /\ root \in Root /\ Committing
        /\ {"committing", "cancelling", "completed", "cancelled", "failed"} \subseteq ChildPc
        /\ {"COMPLETED", "FAILED", "CANCELLED"} \subseteq Outcome
    BY DEF TypeInv, TypeOK, ChildPc, OpenChild, Outcome
  <1>1. ASSUME NEW o \in Outcome, ExecuteReturns(a, o) PROVE FlowOK
    <2>1. /\ child' \in [Attempt -> Child] /\ child'[a].outcome = o
          /\ \A b \in Attempt \ {a} : child'[b] = child[b]
      BY <1>0, <1>1, ChildOutcomeType, Zenon DEF ExecuteReturns
    <2>2. root' = root
      BY <1>1 DEF ExecuteReturns
    <2>. QED BY <1>0, <2>1, <2>2 DEF FlowOK, Committing
  <1>2. ASSUME NEW pc \in {"completed", "cancelled", "failed"}, ChildEnds(a, pc),
               RootResumes \/ RootFails \/ root' = Unwinding
        PROVE  FlowOK
    <2>1. /\ child' \in [Attempt -> Child] /\ child'[a].pc = pc
          /\ \A b \in Attempt \ {a} : child'[b] = child[b]
      BY <1>0, <1>2, ChildType
    <2>2. root' \in Root /\ (root'.pc = "committing" => root'.target = "CANCELLED")
      BY <1>0, <1>2, UnwindType
    <2>. QED BY <1>0, <2>1, <2>2 DEF FlowOK, Committing, TerminalStatus
  <1>3. CASE CommitAttempt(a)
    BY <1>2, <1>3 DEF CommitAttempt
  <1>4. CASE ExecuteRaises(a)
    BY <1>2, <1>4 DEF ExecuteRaises
  <1>5. CASE CommitCancelled(a)
    BY <1>2, <1>5 DEF CommitCancelled
  <1>6. CASE ChildCancelled(a)
    <2>1. ASSUME child' = [child EXCEPT ![a] = [@ EXCEPT !.pc = "cancelling", !.outcome = "CANCELLED"]],
                 UNCHANGED root
          PROVE  FlowOK
      <3>1. /\ child' \in [Attempt -> Child] /\ child'[a].outcome = "CANCELLED"
            /\ \A b \in Attempt \ {a} : child'[b] = child[b]
        BY <1>0, <2>1, ChildOutcomeType, Zenon
      <3>. QED BY <1>0, <2>1, <3>1 DEF FlowOK, Committing
    <2>. QED BY <1>2, <1>6, <2>1, Zenon DEF ChildCancelled
  <1>. QED BY <1>1, <1>3, <1>4, <1>5, <1>6 DEF ChildStep

LEMMA FlowType ==
  ASSUME TypeInv, [Next]_vars PROVE FlowOK
  <1>0. root \in Root /\ child \in [Attempt -> Child] /\ Committing
    BY DEF TypeInv, TypeOK
  <1>1. CASE StartOrSignal \/ RootStep \/ ApplyEvents \/ CommitRoot
    BY <1>0, <1>1, RootStepType DEF FlowOK, Committing
  <1>2. CASE \E a \in Attempt : ChildStep(a) \/ ExecuteRaises(a)
    BY <1>2, ChildStepType
  <1>3. CASE ClaimAttempt
    <2>1. ASSUME NEW a \in Attempt, child' = [child EXCEPT ![a] = StartedChild(a)],
                 root' = [root EXCEPT !.pc = "attempt", !.att = a]
          PROVE  FlowOK
      <3>1. root' \in Root
        BY <1>0, <2>1, Zenon DEF Root, OpenRoot
      <3>2. root'.pc = "attempt"
        BY <2>1, <3>1, <1>0 DEF Root
      <3>. QED BY <1>0, <2>1, <3>1, <3>2, ChildStart DEF FlowOK, Committing
    <2>2. ASSUME root' = [root EXCEPT !.pc = "waiting"], UNCHANGED child PROVE FlowOK
      <3>1. root' \in Root
        BY <1>0, <2>2, Zenon DEF Root, OpenRoot
      <3>2. root'.pc = "waiting"
        BY <2>2, <3>1, <1>0 DEF Root
      <3>. QED BY <1>0, <2>2, <3>1, <3>2 DEF FlowOK, Committing
    <2>. QED BY <1>3, <2>1, <2>2, Zenon DEF ClaimAttempt
  <1>4. CASE OperatorCancel
    <2>1. ASSUME root' = [root EXCEPT !.cancel = "asked"] PROVE root' \in Root
      BY <1>0, <2>1, Zenon DEF Root
    <2>2. ASSUME root' = [root EXCEPT !.cancel = "asked"]
          PROVE  root'.pc = root.pc /\ root'.target = root.target
      BY <1>0, <2>2 DEF Root
    <2>3. UNCHANGED child /\ (root' = [root EXCEPT !.cancel = "asked"] \/ root' = Unwinding)
      BY <1>4, Zenon DEF OperatorCancel
    <2>. QED BY <1>0, <2>1, <2>2, <2>3, UnwindType DEF FlowOK, Committing, TerminalStatus
  <1>5. CASE ActivityExhausted
    <2>1. root' \in Root /\ root'.pc = "failed"
      BY <1>0, <1>5, UnwindType, Zenon DEF ActivityExhausted
    <2>2. ASSUME UNCHANGED child PROVE FlowOK
      BY <1>0, <2>1, <2>2 DEF FlowOK, Committing
    <2>3. ASSUME NEW a \in Attempt, ChildEnds(a, "failed") PROVE FlowOK
      <3>1. "failed" \in ChildPc
        BY DEF ChildPc
      <3>. QED BY <1>0, <2>1, <2>3, <3>1, ChildType DEF FlowOK, Committing
    <2>. QED BY <1>5, <2>2, <2>3, Zenon DEF ActivityExhausted
  <1>6. CASE UNCHANGED <<root, child>>
    BY <1>0, <1>6 DEF FlowOK, Committing
  <1>. QED BY <1>1, <1>2, <1>3, <1>4, <1>5, <1>6, FlowFrame DEF FlowStep

LEMMA StepType ==
  ASSUME TypeInv, OP!IInv, [Next]_vars PROVE TypeInv'
  <1>1. O!TypeOK'
    BY OutboxPreserved, OutboxTypes DEF OP!IInv
  <1>. QED BY <1>1, FlowType, AttType, LateType, TaskType DEF FlowOK, TypeInv, TypeOK

LEMMA TypeHolds == Spec => [](TypeInv /\ OP!IInv)
  <1>1. Init => TypeInv /\ OP!IInv
    BY InitType, OutboxInit DEF Init
  <1>2. (TypeInv /\ OP!IInv) /\ [Next]_vars => (TypeInv /\ OP!IInv)'
    BY StepType, OutboxPreserved
  <1>. QED BY <1>1, <1>2, PTL DEF Spec

\* The tables, the workflows and the outbox keep their types.
THEOREM TypeCorrect == Spec => []TypeOK
  <1>1. TypeInv /\ OP!IInv => TypeOK
    BY DEF TypeInv
  <1>. QED BY <1>1, TypeHolds, PTL
-----------------------------------------------------------------------------
(* The event log *)

\* A cancellation in the log shows in the status: it can only become terminal.
CancelRecorded ==
  (\E i \in DOMAIN events : events[i] = "TASK_CANCELLED") =>
    status \in {"CANCEL_REQUESTED"} \union TerminalStatus

LogInv == CancelRecorded /\ NoPlanAfterCancel

LEMMA LogStepInv ==
  ASSUME TypeInv, LogInv, [Next]_vars PROVE LogInv'
  <1>0. /\ events \in Seq(EventType) /\ late \subseteq Activity
        /\ status \in {"NONE"} \union OpenStatus \union TerminalStatus
    BY DEF TypeInv, TypeOK
  <1>. USE DEF LogInv, CancelRecorded, NoPlanAfterCancel, TerminalStatus
  <1>1. CASE CreateTask
    BY <1>1 DEF CreateTask
  <1>2. CASE RequestCancel
    BY <1>0, <1>2 DEF RequestCancel
  <1>3. CASE StartPlanning
    BY <1>3 DEF StartPlanning
  <1>4. ASSUME NEW a \in Attempt, ActivatePlan(a) PROVE LogInv'
    BY <1>0, <1>4 DEF ActivatePlan, PlanWanted
  <1>5. ASSUME NEW a \in Attempt, NEW o \in GateOutcome, CompleteGoal(a, o) PROVE LogInv'
    <2>1. \A i \in DOMAIN events : events[i] # "TASK_CANCELLED"
      BY <1>5 DEF CompleteGoal
    <2>2. CASE o = "REQUEST_USER_INPUT"
      <3> DEFINE added == <<"GOAL_UNDERSTANDING_COMPLETED", "USER_INPUT_REQUESTED">>
      <3>1. events' = events \o added
        BY <1>5, <2>2, Zenon DEF CompleteGoal
      <3>2. added \in Seq(EventType) /\ \A i \in DOMAIN added : added[i] # "TASK_CANCELLED"
        BY DEF EventType
      <3>3. \A i \in DOMAIN events' : events'[i] # "TASK_CANCELLED"
        <4>. HIDE DEF added
        <4>1. \A i \in DOMAIN events' : \/ i \in DOMAIN events /\ events'[i] = events[i]
                                        \/ \E j \in DOMAIN added : events'[i] = added[j]
          BY <1>0, <3>1, <3>2
        <4>. QED BY <2>1, <3>2, <4>1
      <3>. QED BY <3>3
    <2>3. CASE o # "REQUEST_USER_INPUT"
      BY <1>0, <1>5, <2>1, <2>3 DEF CompleteGoal
    <2>. QED BY <2>2, <2>3
  <1>6. ASSUME UNCHANGED events, status' \in {status} \union TerminalStatus PROVE LogInv'
    BY <1>6
  <1>7. CASE CommitRoot
    BY <1>6, <1>7 DEF CommitRoot, TerminalUpdate, TypeInv, Committing
  <1>8. ASSUME NEW x \in late, LateActivity(x) PROVE LogInv'
    BY <1>0, <1>6, <1>8, LateKinds DEF LateActivity, TerminalUpdate
  <1>9. CASE DeadlinePasses \/ UNCHANGED taskVars
    BY <1>6, <1>9 DEF DeadlinePasses, taskVars
  <1>. QED BY <1>1, <1>2, <1>3, <1>4, <1>5, <1>7, <1>8, <1>9, LogFrame DEF LogStep

LEMMA LogHolds == Spec => []LogInv
  <1>1. Init => LogInv
    BY DEF Init, LogInv, CancelRecorded, NoPlanAfterCancel
  <1>2. TypeInv /\ LogInv /\ [Next]_vars => LogInv'
    BY LogStepInv
  <1>. QED BY <1>1, <1>2, TypeHolds, PTL DEF Spec

\* No plan is activated after a cancellation is on record.
THEOREM PlanNeverFollowsCancel == Spec => []NoPlanAfterCancel
  <1>1. LogInv => NoPlanAfterCancel
    BY DEF LogInv
  <1>. QED BY <1>1, LogHolds, PTL

-----------------------------------------------------------------------------
(* Attempts *)

\* A row that changes had no outcome yet.
LEMMA EndRowEffect ==
  ASSUME att \in [Attempt -> AttemptRow], NEW a \in Attempt, NEW o
  PROVE  \A b \in Attempt \ {a} : EndRow(a, o)[b] = att[b] /\ CommitRow(a, o)[b] = att[b]
  BY Zenon DEF EndRow, CommitRow

LEMMA OutcomeStays ==
  ASSUME TypeInv, [Next]_vars, NEW a \in Attempt, att[a].status \in Outcome PROVE att'[a] = att[a]
  <1>0. att \in [Attempt -> AttemptRow] /\ late \subseteq Activity
    BY DEF TypeInv, TypeOK
  <1>1. att[a].status \notin {"ABSENT", "CREATED", "RUNNING"}
    BY DEF Outcome
  <1>2. ASSUME NEW b \in Attempt, att' = ClaimRow(b), Earliest(b) PROVE att'[a] = att[a]
    BY <1>0, <1>1, <1>2 DEF ClaimRow, Earliest
  <1>3. ASSUME NEW b \in Attempt, NEW o, att' = CommitRow(b, o) PROVE att'[a] = att[a]
    <2>1. CASE b = a
      BY <1>1, <1>3, <2>1 DEF CommitRow
    <2>2. CASE b # a
      BY <1>0, <1>3, <2>2, EndRowEffect
    <2>. QED BY <2>1, <2>2
  <1>4. ASSUME NEW b \in Attempt, CreateAttempt(b) PROVE att'[a] = att[a]
    BY <1>0, <1>1, <1>4 DEF CreateAttempt
  <1>5. ASSUME NEW b \in Attempt, ActivatePlan(b) PROVE att'[a] = att[a]
    BY <1>0, <1>1, <1>5, EndRowEffect DEF ActivatePlan
  <1>6. ASSUME NEW b \in Attempt, CommitAttempt(b) \/ CommitCancelled(b) PROVE att'[a] = att[a]
    BY <1>3, <1>6, Zenon DEF CommitAttempt, CommitCancelled
  <1>7. CASE ClaimAttempt
    BY <1>2, <1>7, Zenon DEF ClaimAttempt
  <1>8. ASSUME NEW x \in late, LateActivity(x) PROVE att'[a] = att[a]
    <2>1. x.kind = "attempt" => x.attempt \in Attempt
      BY <1>0, LateKinds
    <2>. QED BY <1>2, <1>3, <1>8, <2>1, Zenon DEF LateActivity
  <1>9. CASE AttStep
    BY <1>4, <1>5, <1>6, <1>7, <1>8, <1>9, Zenon DEF AttStep
  <1>. QED BY <1>9, AttFrame

\* An attempt keeps the outcome it was given, whoever commits late.
THEOREM OutcomeIsFinal == Spec => AttemptOutcomeFinal
  <1>1. TypeInv /\ [Next]_vars => [\A a \in Attempt : att[a].status \in Outcome => att'[a] = att[a]]_vars
    BY OutcomeStays
  <1>. QED BY <1>1, TypeHolds, PTL DEF Spec, AttemptOutcomeFinal
-----------------------------------------------------------------------------
(* The root and its children *)

\* Where the root goes in a step that is not about a child.
LEMMA RootMoves ==
  ASSUME TypeInv, \/ StartOrSignal \/ RootStep \/ ApplyEvents \/ CommitRoot
  PROVE  /\ UNCHANGED child
         /\ root.pc = "attempt" => root'.pc = "attempt" /\ root'.att = root.att
  <1>0. root \in Root /\ UNCHANGED child
    BY RootStepType DEF TypeInv, TypeOK
  <1>1. CASE RootStep
    BY <1>0, <1>1 DEF RootStep, ReadEvents, ContinueAsNew, Expire, AskForAttempt, Wake, EventsApplied
  <1>2. CASE ApplyEvents \/ CommitRoot
    BY <1>0, <1>2 DEF ApplyEvents, CommitRoot
  <1>3. ASSUME NEW p \in Publisher, NEW acked \in BOOLEAN, StartRoot(p, acked) \/ SignalRoot(p, acked)
        PROVE  root.pc = "attempt" => root'.pc = "attempt" /\ root'.att = root.att
    BY <1>0, <1>3 DEF StartRoot, SignalRoot, Root
  <1>. QED BY <1>0, <1>1, <1>2, <1>3 DEF StartOrSignal

LEMMA ChildAlone ==
  ASSUME TypeInv, OneChildAtATime, [Next]_vars PROVE OneChildAtATime'
  <1>0. root \in Root /\ child \in [Attempt -> Child]
    BY DEF TypeInv, TypeOK
  <1>. USE DEF OneChildAtATime, Awaited
  <1>1. CASE \/ StartOrSignal \/ RootStep \/ ApplyEvents \/ CommitRoot
    BY <1>1, RootMoves
  <1>2. ASSUME NEW a \in Attempt, ChildStep(a) \/ ExecuteRaises(a) PROVE OneChildAtATime'
    <2>1. ASSUME NEW pc \in {"completed", "cancelled", "failed"}, ChildEnds(a, pc), Awaited(a)
          PROVE  OneChildAtATime'
      <3>1. pc \in ChildPc /\ pc \notin OpenChild
        BY DEF ChildPc, OpenChild
      <3>2. child'[a].pc = pc /\ \A b \in Attempt \ {a} : child'[b] = child[b]
        BY <2>1, <3>1, ChildType
      <3>. QED BY <2>1, <3>1, <3>2
    <2>2. {"executing", "committing", "cancelling"} \subseteq OpenChild
      BY DEF OpenChild
    <2>3. ASSUME NEW pc \in OpenChild, NEW o \in Outcome, child[a].pc \in OpenChild, UNCHANGED root,
                 child' = [child EXCEPT ![a] = [@ EXCEPT !.pc = pc, !.outcome = o]]
          PROVE  OneChildAtATime'
      <3>1. pc \in ChildPc
        BY DEF ChildPc
      <3>2. \A b \in Attempt \ {a} : child'[b] = child[b]
        BY <2>3, <3>1, ChildOutcomeType, Zenon
      <3>. QED BY <2>3, <3>2
    <2>4. CASE CommitAttempt(a)
      BY <2>1, <2>2, <2>4, Zenon DEF CommitAttempt
    <2>5. CASE ExecuteRaises(a)
      BY <2>1, <2>2, <2>5, Zenon DEF ExecuteRaises
    <2>6. CASE CommitCancelled(a)
      BY <2>1, <2>2, <2>6, Zenon DEF CommitCancelled
    <2>7. CASE ChildCancelled(a)
      <3>1. "CANCELLED" \in Outcome
        BY DEF Outcome
      <3>2. ASSUME child[a].pc = "executing", UNCHANGED root,
                   child' = [child EXCEPT ![a] = [@ EXCEPT !.pc = "cancelling", !.outcome = "CANCELLED"]]
            PROVE  OneChildAtATime'
        BY <2>2, <2>3, <3>1, <3>2, Zenon
      <3>3. ASSUME ChildEnds(a, "cancelled") PROVE OneChildAtATime'
        <4>1. Awaited(a)
          BY <2>7, Zenon DEF ChildCancelled
        <4>. QED BY <2>1, <3>3, <4>1, Zenon
      <3>. QED BY <2>7, <3>2, <3>3, Zenon DEF ChildCancelled
    <2>8. ASSUME NEW o \in Outcome, ExecuteReturns(a, o) PROVE OneChildAtATime'
      BY <2>2, <2>3, <2>8, Zenon DEF ExecuteReturns
    <2>. QED BY <1>2, <2>4, <2>5, <2>6, <2>7, <2>8, Zenon DEF ChildStep
  <1>3. CASE ClaimAttempt
    <2>1. \A b \in Attempt : child[b].pc \notin OpenChild
      BY <1>3, Zenon DEF ClaimAttempt
    <2>2. ASSUME NEW a \in Attempt, child' = [child EXCEPT ![a] = StartedChild(a)],
                 root' = [root EXCEPT !.pc = "attempt", !.att = a]
          PROVE  OneChildAtATime'
      BY <1>0, <2>1, <2>2, ChildStart DEF Root
    <2>3. ASSUME UNCHANGED child PROVE OneChildAtATime'
      BY <2>1, <2>3
    <2>. QED BY <1>3, <2>2, <2>3, Zenon DEF ClaimAttempt
  <1>4. CASE OperatorCancel
    <2>1. UNCHANGED child /\ (root.pc = "attempt" => root' = [root EXCEPT !.cancel = "asked"])
      BY <1>4 DEF OperatorCancel
    <2>. QED BY <1>0, <2>1 DEF Root
  <1>5. CASE ActivityExhausted
    <2>1. ASSUME NEW a \in Attempt, child[a].pc = "committing", ChildEnds(a, "failed")
          PROVE  OneChildAtATime'
      <3>1. "failed" \in ChildPc /\ "failed" \notin OpenChild /\ "committing" \in OpenChild
        BY DEF ChildPc, OpenChild
      <3>2. child'[a].pc = "failed" /\ \A b \in Attempt \ {a} : child'[b] = child[b]
        BY <2>1, <3>1, ChildType
      <3>. QED BY <2>1, <3>1, <3>2
    <2>2. ASSUME root.pc \in {"applying", "applied", "claiming", "committing"}, UNCHANGED child
          PROVE  OneChildAtATime'
      BY <2>2
    <2>. QED BY <1>5, <2>1, <2>2, Zenon DEF ActivityExhausted
  <1>6. CASE UNCHANGED <<root, child>>
    BY <1>6
  <1>. QED BY <1>1, <1>2, <1>3, <1>4, <1>5, <1>6, FlowFrame DEF FlowStep

\* Children run one at a time, each awaited by the root, through cancellations,
\* lost activities and continue-as-new.
THEOREM OneChild == Spec => []OneChildAtATime
  <1>1. Init => OneChildAtATime
    BY DEF Init, OneChildAtATime, OpenChild
  <1>2. TypeInv /\ OneChildAtATime /\ [Next]_vars => OneChildAtATime'
    BY ChildAlone
  <1>. QED BY <1>1, <1>2, TypeHolds, PTL DEF Spec
\* The task's row precedes its outbox row, which precedes the root workflow.
StartedInv == /\ status = "NONE" => row["START"].status = "ABSENT"
              /\ root.pc # "absent" => status # "NONE"

\* Pollers and clocks never touch a row that was not written.
LEMMA AbsentStays ==
  ASSUME O!TypeOK, NEW m \in Message, row[m].status = "ABSENT",
         \/ \E p \in Publisher : PublisherStep(p) \/ PublisherCrash(p)
         \/ \E n \in Message : OutboxClock(n)
  PROVE  row'[m].status = "ABSENT"
  <1>0. row \in [Message -> O!Row]
    BY DEF O!TypeOK
  <1>1. ASSUME NEW n \in Message, OutboxClock(n) PROVE row'[m].status = "ABSENT"
    BY <1>0, <1>1 DEF OutboxClock, O!BackoffElapses, O!LeaseLapses
  <1>2. ASSUME NEW p \in Publisher, O!ClaimBatch(p, {Destination(p)}) PROVE row'[m].status = "ABSENT"
    BY <1>2 DEF O!ClaimBatch, O!Claimable
  <1>3. ASSUME NEW p \in Publisher, O!MarkPublished(p) \/ O!MarkFailed(p) PROVE row'[m].status = "ABSENT"
    BY <1>0, <1>3 DEF O!MarkPublished, O!MarkFailed, O!HoldsClaim
  <1>4. ASSUME NEW p \in Publisher, NEW n \in Message, NEW accepted, NEW acked,
               O!Send(p, n, accepted, acked)
        PROVE  row' = row
    BY <1>4, Zenon DEF O!Send
  <1>5. ASSUME NEW p \in Publisher, PublisherCrash(p) PROVE row' = row
    BY <1>5, Zenon DEF PublisherCrash, O!Crash
  <1>6. ASSUME NEW p \in Publisher, NEW acked \in BOOLEAN, StartRoot(p, acked) \/ SignalRoot(p, acked)
        PROVE  row' = row
    BY <1>4, <1>6 DEF StartRoot, SignalRoot, Message
  <1>7. ASSUME NEW p \in Publisher, NEW n \in Message, SendFails(p, n) PROVE row' = row
    BY <1>4, <1>7 DEF SendFails
  <1>. QED BY <1>1, <1>2, <1>3, <1>5, <1>6, <1>7, Zenon DEF PublisherStep
LEMMA RowFrame ==
  ASSUME [Next]_vars
  PROVE  \/ CreateTask \/ RequestCancel \/ UNCHANGED row
         \/ \E p \in Publisher : PublisherStep(p) \/ PublisherCrash(p)
         \/ \E m \in Message : OutboxClock(m)
  <1>1. ASSUME NEW a \in Attempt, \/ CreateAttempt(a) \/ ActivatePlan(a)
                                  \/ \E o \in GateOutcome : CompleteGoal(a, o)
        PROVE  UNCHANGED row
    BY <1>1, Zenon DEF CreateAttempt, ActivatePlan, CompleteGoal
  <1>2. ASSUME StartPlanning \/ DeadlinePasses PROVE UNCHANGED row
    BY <1>2 DEF StartPlanning, DeadlinePasses
  <1>3. ASSUME OperatorCancel \/ RootStep \/ ApplyEvents \/ ClaimAttempt \/ CommitRoot
        PROVE  UNCHANGED row
    BY <1>3, Zenon DEF OperatorCancel, RootStep, ApplyEvents, ClaimAttempt, CommitRoot, outboxVars
  <1>4. ASSUME NEW a \in Attempt, ChildStep(a) \/ ExecuteRaises(a) PROVE UNCHANGED row
    BY <1>4, Zenon DEF ChildStep, ExecuteReturns, CommitAttempt, ChildCancelled, CommitCancelled,
                       ExecuteRaises, outboxVars
  <1>5. ASSUME ActivityRetried \/ ActivityExhausted \/ \E x \in late : LateActivity(x)
        PROVE  UNCHANGED row
    BY <1>5, Zenon DEF ActivityRetried, ActivityExhausted, LateActivity, outboxVars
  <1>6. ASSUME UNCHANGED vars PROVE UNCHANGED row
    BY <1>6 DEF vars
  <1>. QED BY <1>1, <1>2, <1>3, <1>4, <1>5, <1>6, Zenon
           DEF Next, ApiStep, PlannerStep, ActivityFault, Done

\* The task is never deleted, and keeps a terminal status.
LEMMA StatusMoves ==
  ASSUME TypeInv, [Next]_vars
  PROVE  /\ status # "NONE" => status' # "NONE"
         /\ status \in TerminalStatus => status' \in TerminalStatus
         /\ CommitRoot /\ status # "NONE" => status' \in TerminalStatus
  <1>0. /\ late \subseteq Activity /\ Committing
        /\ status \in {"NONE"} \union OpenStatus \union TerminalStatus
    BY DEF TypeInv, TypeOK
  <1>. USE DEF TerminalStatus, OpenStatus, Cancellable
  <1>1. ASSUME CreateTask \/ RequestCancel \/ StartPlanning
        PROVE  status \notin TerminalStatus /\ status' \in OpenStatus
    BY <1>1 DEF CreateTask, RequestCancel, StartPlanning
  <1>2. CASE CommitRoot
    BY <1>0, <1>2 DEF CommitRoot, TerminalUpdate, Committing
  <1>3. ASSUME NEW a \in Attempt, \/ ActivatePlan(a) \/ \E o \in GateOutcome : CompleteGoal(a, o)
        PROVE  status \in Cancellable /\ status' \in Cancellable
    BY <1>3 DEF ActivatePlan, PlanWanted, CompleteGoal
  <1>4. ASSUME NEW x \in late, LateActivity(x)
        PROVE  \/ status' = status
               \/ status \in OpenStatus /\ status' \in TerminalStatus
    BY <1>0, <1>4, LateKinds DEF LateActivity, TerminalUpdate
  <1>5. CASE DeadlinePasses \/ UNCHANGED taskVars
    BY <1>0, <1>5, <1>2 DEF DeadlinePasses, taskVars
  <1>6. CommitRoot /\ status # "NONE" => status' \in TerminalStatus
    BY <1>0 DEF CommitRoot, TerminalUpdate, Committing
  <1>. QED BY <1>0, <1>1, <1>2, <1>3, <1>4, <1>5, <1>6, LogFrame DEF LogStep

\* The root appears when it is started, and closes in an orderly way when it has
\* committed.
LEMMA RootGuards ==
  ASSUME TypeInv, OneChildAtATime, [Next]_vars
  PROVE  /\ root.pc = "absent" /\ root'.pc # "absent" =>
              \E p \in Publisher, acked \in BOOLEAN : StartRoot(p, acked)
         /\ root'.pc \in {"completed", "cancelled"} =>
              CommitRoot \/ root.pc \in {"completed", "cancelled"}
  <1>0. root \in Root /\ root' \in Root
    BY FlowType DEF FlowOK, TypeInv, TypeOK
  <1>1. CASE RootStep
    <2>1. root.pc \in {"loop", "waiting", "applied"}
      BY <1>1 DEF RootStep, ReadEvents, ContinueAsNew, Expire, AskForAttempt, Wake, EventsApplied
    <2>2. CASE ReadEvents \/ ContinueAsNew \/ Expire \/ AskForAttempt \/ Wake
      BY <1>0, <2>1, <2>2 DEF ReadEvents, ContinueAsNew, Expire, AskForAttempt, Wake, Root
    <2>3. CASE EventsApplied
      BY <1>0, <2>1, <2>3 DEF EventsApplied, Root
    <2>. QED BY <1>1, <2>2, <2>3 DEF RootStep
  <1>2. CASE ApplyEvents
    BY <1>0, <1>2 DEF ApplyEvents, Root
  <1>3. CASE CommitRoot
    BY <1>3 DEF CommitRoot
  <1>4. ASSUME NEW p \in Publisher, NEW acked \in BOOLEAN, SignalRoot(p, acked)
        PROVE  root'.pc = root.pc
    BY <1>0, <1>4 DEF SignalRoot, Root
  <1>5. ASSUME NEW p \in Publisher, NEW acked \in BOOLEAN, StartRoot(p, acked)
        PROVE  root'.pc \in {"completed", "cancelled"} => root.pc \in {"completed", "cancelled"}
    BY <1>0, <1>5 DEF StartRoot, Root
  <1>6. CASE StartOrSignal
    BY <1>4, <1>5, <1>6 DEF StartOrSignal
  <1>7. CASE OperatorCancel
    <2>1. root.pc # "absent"
      BY <1>7 DEF OperatorCancel, OpenRoot
    <2>2. root' = Unwinding \/ root' = [root EXCEPT !.cancel = "asked"]
      BY <1>7, Zenon DEF OperatorCancel
    <2>. QED BY <1>0, <2>1, <2>2, UnwindType DEF Root
  <1>8. CASE ClaimAttempt
    <2>1. root.pc = "claiming"
      BY <1>8, Zenon DEF ClaimAttempt
    <2>2. \/ root' = [root EXCEPT !.pc = "waiting"]
          \/ \E a \in Attempt : root' = [root EXCEPT !.pc = "attempt", !.att = a]
      BY <1>8, Zenon DEF ClaimAttempt
    <2>. QED BY <1>0, <2>1, <2>2 DEF Root
  <1>9. ASSUME NEW a \in Attempt, ChildStep(a) \/ ExecuteRaises(a)
        PROVE  root.pc = "attempt" /\ (root' = root \/ root'.pc \in {"loop", "committing", "failed"})
    <2>1. child[a].pc \in OpenChild
      BY <1>9, Zenon DEF ChildStep, ExecuteReturns, CommitAttempt, ChildCancelled, CommitCancelled,
         ExecuteRaises, OpenChild
    <2>2. root' = root \/ RootResumes \/ RootFails \/ root' = Unwinding
      BY <1>9, Zenon DEF ChildStep, ExecuteReturns, CommitAttempt, ChildCancelled, CommitCancelled,
         ExecuteRaises
    <2>. QED BY <1>0, <2>1, <2>2, UnwindType DEF OneChildAtATime, Awaited
  <1>10. CASE ActivityExhausted
    <2>1. root'.pc = "failed"
      BY <1>0, <1>10, UnwindType, Zenon DEF ActivityExhausted
    <2>2. root.pc # "absent"
      BY <1>10 DEF ActivityExhausted, OneChildAtATime, Awaited, OpenChild
    <2>. QED BY <2>1, <2>2
  <1>11. CASE \E a \in Attempt : ChildStep(a) \/ ExecuteRaises(a)
    BY <1>9, <1>11
  <1>. QED BY <1>1, <1>2, <1>3, <1>6, <1>7, <1>8, <1>10, <1>11, FlowFrame DEF FlowStep

CloseInv == StartedInv /\ RootClosesAfterCommit

LEMMA CloseStep ==
  ASSUME TypeInv, OP!IInv, OneChildAtATime, CloseInv, [Next]_vars PROVE CloseInv'
  <1>. USE DEF CloseInv, StartedInv, RootClosesAfterCommit
  <1>1. status' = "NONE" => row'["START"].status = "ABSENT"
    <2>1. ASSUME status' = "NONE" PROVE status = "NONE" /\ ~ CreateTask /\ ~ RequestCancel
      BY <2>1, StatusMoves DEF CreateTask, RequestCancel
    <2>2. O!TypeOK /\ "START" \in Message
      BY DEF TypeInv, TypeOK, Message
    <2>. QED BY <2>1, <2>2, RowFrame, AbsentStays
  <1>2. root'.pc # "absent" => status' # "NONE"
    <2>1. ASSUME NEW p \in Publisher, NEW acked \in BOOLEAN, StartRoot(p, acked) PROVE status # "NONE"
      <3>1. "START" \in poll[p].todo
        BY <2>1 DEF StartRoot, O!Send
      <3>. QED BY <3>1 DEF OP!IInv, OP!ClaimedWasWritten
    <2>. QED BY <2>1, StatusMoves, RootGuards
  <1>3. root'.pc \in {"completed", "cancelled"} => status' \in TerminalStatus
    <2>1. CommitRoot => root.pc # "absent"
      BY DEF CommitRoot
    <2>. QED BY <2>1, StatusMoves, RootGuards
  <1>. QED BY <1>1, <1>2, <1>3

\* "PG first": a root that ends in an orderly way leaves a terminal status behind.
THEOREM RootClosesLast == Spec => []RootClosesAfterCommit
  <1>1. Init => CloseInv
    BY DEF Init, CloseInv, StartedInv, RootClosesAfterCommit, O!Init, Message
  <1>2. TypeInv /\ OP!IInv /\ OneChildAtATime /\ CloseInv /\ [Next]_vars => CloseInv'
    BY CloseStep
  <1>3. CloseInv => RootClosesAfterCommit
    BY DEF CloseInv
  <1>. QED BY <1>1, <1>2, <1>3, TypeHolds, OneChild, PTL DEF Spec

-----------------------------------------------------------------------------
(* Runs without faults and without an operator *)

\* Faults are counted, and an operator's cancellation is never taken back.
LEMMA FaultsGrow ==
  ASSUME OP!IInv, [Next]_vars PROVE faults' = faults \/ faults' = faults + 1
  <1>1. ASSUME NEW p \in Publisher, PublisherStep(p) \/ PublisherCrash(p)
        PROVE  faults' = faults \/ faults' = faults + 1
    <2>1. ASSUME NEW m \in Message, NEW accepted, NEW acked, O!Send(p, m, accepted, acked)
          PROVE  faults' = faults
      BY <2>1, Zenon DEF O!Send
    <2>2. CASE O!ClaimBatch(p, {Destination(p)}) \/ O!MarkPublished(p) \/ O!MarkFailed(p)
      BY <2>2, Zenon DEF O!ClaimBatch, O!MarkPublished, O!MarkFailed
    <2>3. CASE PublisherCrash(p)
      BY <2>3, Zenon DEF PublisherCrash, O!Crash
    <2>4. "START" \in Message /\ "SIGNAL" \in Message
      BY DEF Message
    <2>. QED BY <1>1, <2>1, <2>2, <2>3, <2>4, Zenon DEF PublisherStep, StartRoot, SignalRoot, SendFails
  <1>2. ASSUME NEW m \in Message, OutboxClock(m) PROVE faults' = faults \/ faults' = faults + 1
    BY <1>2, Zenon DEF OutboxClock, O!BackoffElapses, O!LeaseLapses
  <1>3. ASSUME NEW a \in Attempt, \/ CreateAttempt(a) \/ ActivatePlan(a)
                                  \/ \E o \in GateOutcome : CompleteGoal(a, o)
        PROVE  faults' = faults
    BY <1>3, Zenon DEF CreateAttempt, ActivatePlan, CompleteGoal
  <1>4. CASE \/ CreateTask \/ RequestCancel \/ StartPlanning \/ DeadlinePasses \/ OperatorCancel
             \/ RootStep \/ ApplyEvents \/ ClaimAttempt \/ CommitRoot
             \/ \E x \in late : LateActivity(x)
    BY <1>4, Zenon DEF CreateTask, RequestCancel, StartPlanning, DeadlinePasses, OperatorCancel,
         RootStep, ApplyEvents, ClaimAttempt, CommitRoot, LateActivity
  <1>5. ASSUME NEW a \in Attempt, ChildStep(a) \/ ExecuteRaises(a)
        PROVE  faults' = faults \/ faults' = faults + 1
    BY <1>5, Zenon DEF ChildStep, ExecuteReturns, CommitAttempt, ChildCancelled, CommitCancelled,
         ExecuteRaises
  <1>6. CASE ActivityRetried \/ ActivityExhausted
    BY <1>6, Zenon DEF ActivityRetried, ActivityExhausted
  <1>7. CASE UNCHANGED vars
    BY <1>7 DEF vars
  <1>. QED BY <1>1, <1>2, <1>3, <1>4, <1>5, <1>6, <1>7, Zenon
           DEF Next, ApiStep, PlannerStep, ActivityFault, Done

\* The ways out of an attempt, seen from the cancellation.
LEMMA WaysOut ==
  ASSUME root \in Root
  PROVE  /\ RootResumes => root'.cancel = IF root.cancel = "asked" THEN "swallowed" ELSE root.cancel
         /\ RootFails => root'.cancel = root.cancel
         /\ RootResumes \/ RootFails => root'.target = root.target
  BY DEF RootResumes, RootFails, Root

\* How a step of the system treats the cancellation of the root.
LEMMA CancelMoves ==
  ASSUME TypeInv, [Next]_vars
  PROVE  /\ root.cancel # "none" => root'.cancel # "none"
         /\ OperatorCancel => root'.cancel # "none"
         /\ \/ root'.cancel = root.cancel \/ OperatorCancel
            \/ \E a \in Attempt : CommitAttempt(a) /\ root.cancel # "none"
            \/ \E a \in Attempt : ChildCancelled(a) \/ CommitCancelled(a)
  <1>0. root \in Root
    BY DEF TypeInv, TypeOK
  <1>1. CASE OperatorCancel
    <2>1. root' = Unwinding \/ root' = [root EXCEPT !.cancel = "asked"]
      BY <1>1, Zenon DEF OperatorCancel
    <2>2. root'.cancel # "none"
      BY <1>0, <2>1, UnwindType DEF Root
    <2>. QED BY <1>1, <2>2
  <1>2. ASSUME root'.cancel = root.cancel, ~ OperatorCancel
        PROVE  root.cancel # "none" => root'.cancel # "none"
    BY <1>2
  <1>3. CASE RootStep \/ ApplyEvents \/ CommitRoot
    <2>1. root'.cancel = root.cancel
      BY <1>0, <1>3 DEF RootStep, ReadEvents, EventsApplied, ContinueAsNew, Expire, AskForAttempt,
           Wake, ApplyEvents, CommitRoot, Root
    <2>. QED BY <1>1, <1>2, <2>1, Zenon
  <1>4. CASE StartOrSignal
    <2>1. root'.cancel = root.cancel
      BY <1>0, <1>4 DEF StartOrSignal, StartRoot, SignalRoot, Root
    <2>. QED BY <1>1, <1>2, <2>1, Zenon
  <1>5. CASE ClaimAttempt
    <2>1. \/ root' = [root EXCEPT !.pc = "waiting"]
          \/ \E a \in Attempt : root' = [root EXCEPT !.pc = "attempt", !.att = a]
      BY <1>5, Zenon DEF ClaimAttempt
    <2>2. root'.cancel = root.cancel
      BY <1>0, <2>1 DEF Root
    <2>. QED BY <1>1, <1>2, <2>2, Zenon
  <1>6. CASE ActivityExhausted \/ \E a \in Attempt : ExecuteRaises(a)
    <2>1. RootFails
      BY <1>6, Zenon DEF ActivityExhausted, ExecuteRaises
    <2>2. root'.cancel = root.cancel
      BY <1>0, <2>1, WaysOut
    <2>. QED BY <1>1, <1>2, <2>2, Zenon
  <1>7. ASSUME NEW a \in Attempt, CommitAttempt(a)
        PROVE  /\ root.cancel # "none" => root'.cancel # "none"
               /\ root'.cancel = root.cancel \/ root.cancel # "none"
    <2>1. RootResumes
      BY <1>7, Zenon DEF CommitAttempt
    <2>. QED BY <1>0, <2>1, WaysOut
  <1>8. ASSUME NEW a \in Attempt, ChildCancelled(a) \/ CommitCancelled(a)
        PROVE  root.cancel # "none" => root'.cancel # "none"
    <2>1. root' = root \/ root' = Unwinding
      BY <1>8, Zenon DEF ChildCancelled, CommitCancelled
    <2>. QED BY <1>0, <2>1, UnwindType
  <1>9. CASE UNCHANGED <<root, child>> \/ \E a \in Attempt, o \in Outcome : ExecuteReturns(a, o)
    <2>1. root' = root
      BY <1>9 DEF ExecuteReturns
    <2>. QED BY <1>1, <1>2, <2>1, Zenon
  <1>. QED BY <1>1, <1>3, <1>4, <1>5, <1>6, <1>7, <1>8, <1>9, FlowFrame, Zenon DEF FlowStep, ChildStep

\* Nothing went wrong so far and nobody intervened.
Calm == faults = 0 /\ root.cancel = "none"

\* Then nothing is left behind, and the child of a RUNNING attempt is at work on
\* it with the tokens that its row carries.
AtWork(a) == /\ child[a].pc \in OpenChild
             /\ child[a].gen = att[a].gen /\ child[a].rv = att[a].rv
CalmInv == Calm => /\ late = {}
                   /\ \A a \in Attempt : att[a].status = "RUNNING" => AtWork(a)

LEMMA CalmBefore ==
  ASSUME TypeInv, OP!IInv, [Next]_vars, Calm' PROVE Calm /\ faults' = faults
  <1>1. faults \in Nat
    BY OutboxOK DEF OP!IInv, OP!TypeOK, OP!OutboxAssumption
  <1>. QED BY <1>1, FaultsGrow, CancelMoves DEF Calm

LEMMA CalmLate ==
  ASSUME TypeInv, OP!IInv, CalmInv, [Next]_vars, Calm' PROVE late' = {}
  <1>1. Calm /\ late = {} /\ faults' = faults /\ faults \in Nat
    BY CalmBefore, OutboxOK DEF CalmInv, OP!IInv, OP!TypeOK, OP!OutboxAssumption
  <1>2. ~ OperatorCancel
    BY CancelMoves DEF Calm
  <1>3. ~ ActivityRetried /\ ~ ActivityExhausted
    BY <1>1 DEF ActivityRetried, ActivityExhausted
  <1>4. \A a \in Attempt : ~ ChildCancelled(a)
    BY <1>1 DEF ChildCancelled, Calm
  <1>. QED BY <1>1, <1>2, <1>3, <1>4, LateFrame

\* The tokens a child was started with do not change while it lives.
LEMMA TokensStay ==
  ASSUME TypeInv, NEW a \in Attempt, NEW pc \in ChildPc, NEW o \in Outcome,
         child' = [child EXCEPT ![a] = [@ EXCEPT !.pc = pc, !.outcome = o]]
  PROVE  child'[a].gen = child[a].gen /\ child'[a].rv = child[a].rv
  <1>1. child[a] \in Child /\ child \in [Attempt -> Child]
    BY DEF TypeInv, TypeOK
  <1>2. [child[a] EXCEPT !.pc = pc, !.outcome = o] \in Child
    BY <1>1, ChildUpdates, Zenon
  <1>3. child'[a] = [child[a] EXCEPT !.pc = pc, !.outcome = o]
    BY <1>1, <1>2, Zenon
  <1>. QED BY <1>1, <1>3 DEF Child

LEMMA CalmAtWork ==
  ASSUME TypeInv, OP!IInv, CalmInv, [Next]_vars, Calm',
         NEW a \in Attempt, att'[a].status = "RUNNING"
  PROVE  AtWork(a)'
  <1>0. /\ Calm /\ late = {} /\ faults' = faults /\ faults \in Nat
        /\ att \in [Attempt -> AttemptRow]
        /\ \A b \in Attempt : att[b].status = "RUNNING" => AtWork(b)
    BY CalmBefore, OutboxOK DEF CalmInv, OP!IInv, OP!TypeOK, OP!OutboxAssumption, TypeInv, TypeOK
  <1>1. ASSUME att'[a] = att[a], child'[a] = child[a] PROVE AtWork(a)'
    BY <1>0, <1>1 DEF AtWork
  <1>2. ASSUME NEW b \in Attempt, CreateAttempt(b) \/ ActivatePlan(b) PROVE AtWork(a)'
    <2>1. b # a
      <3>1. CASE CreateAttempt(b)
        BY <1>0, <3>1 DEF CreateAttempt
      <3>2. CASE ActivatePlan(b)
        BY <1>0, <3>2, Zenon DEF ActivatePlan, EndRow
      <3>. QED BY <1>2, <3>1, <3>2
    <2>2. att'[a] = att[a] /\ child' = child
      BY <1>0, <1>2, <2>1, EndRowEffect DEF CreateAttempt, ActivatePlan
    <2>. QED BY <1>1, <2>2
  <1>3. CASE ClaimAttempt
    <2>1. ASSUME NEW b \in Attempt, att' = ClaimRow(b), child' = [child EXCEPT ![b] = StartedChild(b)]
          PROVE  AtWork(a)'
      <3>1. CASE b = a
        BY <1>0, <2>1, <3>1 DEF ClaimRow, StartedChild, AtWork, OpenChild, TypeInv, TypeOK
      <3>2. CASE b # a
        BY <1>0, <1>1, <2>1, <3>2 DEF ClaimRow, TypeInv, TypeOK
      <3>. QED BY <3>1, <3>2
    <2>. QED BY <1>1, <1>3, <2>1, Zenon DEF ClaimAttempt
  <1>4. ASSUME NEW b \in Attempt, CommitAttempt(b) PROVE AtWork(a)'
    <2>1. /\ att' = CommitRow(b, child[b].outcome) /\ ChildEnds(b, "completed")
          /\ child[b].outcome \in Outcome
      BY <1>4, Zenon DEF CommitAttempt, TypeInv, Committing
    <2>2. CASE b = a
      <3>1. att' = att
        BY <1>0, <2>1, <2>2, Zenon DEF CommitRow, EndRow, Outcome
      <3>2. att' = EndRow(b, child[b].outcome)
        BY <1>0, <2>1, <2>2, <3>1 DEF CommitRow, AtWork
      <3>. QED BY <1>0, <2>1, <2>2, <3>2 DEF EndRow, Outcome
    <2>3. CASE b # a
      BY <1>0, <1>1, <2>1, <2>3, EndRowEffect, ChildType DEF ChildPc
    <2>. QED BY <2>2, <2>3
  <1>5. ASSUME NEW b \in Attempt, NEW o \in Outcome, ExecuteReturns(b, o) PROVE AtWork(a)'
    <2>1. /\ child' = [child EXCEPT ![b] = [@ EXCEPT !.pc = "committing", !.outcome = o]]
          /\ att' = att /\ "committing" \in ChildPc /\ "committing" \in OpenChild
      BY <1>5 DEF ExecuteReturns, ChildPc, OpenChild
    <2>2. CASE b = a
      <3>1. /\ child'[a].pc \in OpenChild
            /\ child'[a].gen = child[a].gen /\ child'[a].rv = child[a].rv
        BY <2>1, <2>2, ChildOutcomeType, TokensStay, Zenon
      <3>. QED BY <1>0, <2>1, <3>1 DEF AtWork
    <2>3. CASE b # a
      <3>1. child'[a] = child[a]
        BY <2>1, <2>3, ChildOutcomeType, Zenon
      <3>. QED BY <1>1, <2>1, <3>1
    <2>. QED BY <2>2, <2>3
  <1>6. /\ ~ OperatorCancel /\ ~ ActivityExhausted
        /\ \A b \in Attempt : ~ ChildCancelled(b) /\ ~ CommitCancelled(b) /\ ~ ExecuteRaises(b)
        /\ \A x \in late : ~ LateActivity(x)
    <2>1. ~ ActivityExhausted /\ \A b \in Attempt : ~ ExecuteRaises(b)
      BY <1>0 DEF ActivityExhausted, ExecuteRaises
    <2>2. ASSUME NEW b \in Attempt, CommitCancelled(b) PROVE FALSE
      <3>1. root' = Unwinding /\ root \in Root
        BY <2>2, Zenon DEF CommitCancelled, TypeInv, TypeOK
      <3>. QED BY <3>1, UnwindType DEF Calm
    <2>. QED BY <1>0, <2>1, <2>2, CancelMoves DEF Calm, ChildCancelled
  <1>7. CASE UNCHANGED att /\ UNCHANGED child
    BY <1>1, <1>7
  <1>8. CASE StartOrSignal \/ RootStep \/ ApplyEvents \/ CommitRoot
    <2>1. UNCHANGED child
      BY <1>8, RootMoves
    <2>2. UNCHANGED att
      <3>1. ASSUME StartOrSignal PROVE UNCHANGED att
        BY <3>1, Zenon DEF StartOrSignal, StartRoot, SignalRoot
      <3>. QED BY <1>8, <3>1, Zenon DEF RootStep, ApplyEvents, CommitRoot
    <2>. QED BY <1>7, <2>1, <2>2
  <1>9. CASE FlowStep
    BY <1>3, <1>4, <1>5, <1>6, <1>8, <1>9, Zenon DEF FlowStep, ChildStep
  <1>10. CASE UNCHANGED <<root, child>>
    BY <1>2, <1>3, <1>4, <1>6, <1>7, <1>10, AttFrame, Zenon DEF AttStep
  <1>. QED BY <1>9, <1>10, FlowFrame

\* Without faults and operator intervention deadlines, cancel requests, plan
\* activations, lost or repeated signals and continue-as-new leave no attempt behind.
THEOREM NobodyIsOrphaned == Spec => []NoOrphanWithoutFault
  <1>1. Init => CalmInv
    BY DEF Init, CalmInv
  <1>2. TypeInv /\ OP!IInv /\ CalmInv /\ [Next]_vars => CalmInv'
    <2>. SUFFICES ASSUME TypeInv, OP!IInv, CalmInv, [Next]_vars PROVE CalmInv'
      OBVIOUS
    <2>. QED BY CalmLate, CalmAtWork, Zenon DEF CalmInv
  <1>3. CalmInv => NoOrphanWithoutFault
    BY DEF CalmInv, Calm, NoOrphanWithoutFault, AtWork
  <1>. QED BY <1>1, <1>2, <1>3, TypeHolds, PTL DEF Spec

-----------------------------------------------------------------------------
(* The cancellation signal *)

\* A cancellation that the root has not read, and what will make it read.
Unread == \E i \in (root.cursor + 1)..Len(events) : events[i] = "TASK_CANCELLED"
Wakeful == root.pending \/ root.pc = "applying" \/ root.cancel = "unwinding" \/ root.target = "FAILED"

\* What holds from the moment the signal has reached the root, published or not.
SignalInv ==
  "SIGNAL" \in delivered =>
    /\ row["SIGNAL"].status # "ABSENT" /\ root.pc # "absent"
    /\ root.pc \in OpenRoot /\ Unread => Wakeful

\* An outbox row, once written, stays in the table.
LEMMA WrittenStays ==
  ASSUME O!TypeOK, [Next]_vars, NEW m \in Message, row[m].status # "ABSENT"
  PROVE  row'[m].status # "ABSENT"
  <1>0. row \in [Message -> O!Row] /\ row[m] \in O!Row
    BY DEF O!TypeOK
  <1>1. CASE CreateTask \/ RequestCancel
    <2>1. ASSUME NEW n \in Message, O!Enqueue(n) PROVE row'[m].status # "ABSENT"
      BY <1>0, <2>1 DEF O!Enqueue, O!Row
    <2>. QED BY <1>1, <2>1 DEF CreateTask, RequestCancel, Message
  <1>2. ASSUME NEW n \in Message, OutboxClock(n) PROVE row'[m].status # "ABSENT"
    BY <1>0, <1>2 DEF OutboxClock, O!BackoffElapses, O!LeaseLapses, O!Row
  <1>3. ASSUME NEW p \in Publisher, PublisherStep(p) \/ PublisherCrash(p)
        PROVE  row'[m].status # "ABSENT"
    <2>1. CASE O!ClaimBatch(p, {Destination(p)})
      BY <1>0, <2>1 DEF O!ClaimBatch
    <2>2. CASE O!MarkPublished(p)
      BY <1>0, <2>2 DEF O!MarkPublished, O!Row
    <2>3. CASE O!MarkFailed(p)
      BY <1>0, <2>3 DEF O!MarkFailed, O!FailedStatus, O!Row
    <2>4. ASSUME NEW n \in Message, NEW accepted, NEW acked, O!Send(p, n, accepted, acked)
          PROVE  row' = row
      BY <2>4, Zenon DEF O!Send
    <2>5. CASE PublisherCrash(p)
      BY <2>5, Zenon DEF PublisherCrash, O!Crash
    <2>6. "START" \in Message /\ "SIGNAL" \in Message
      BY DEF Message
    <2>. QED BY <1>3, <2>1, <2>2, <2>3, <2>4, <2>5, <2>6, Zenon
             DEF PublisherStep, StartRoot, SignalRoot, SendFails
  <1>. QED BY <1>1, <1>2, <1>3, RowFrame

\* Only the call that signals the root delivers the signal.
LEMMA DeliveredBy ==
  ASSUME [Next]_vars, "SIGNAL" \in delivered', "SIGNAL" \notin delivered
  PROVE  \E p \in Publisher, acked \in BOOLEAN : SignalRoot(p, acked)
  <1>1. ASSUME NEW p \in Publisher, PublisherStep(p) \/ PublisherCrash(p)
        PROVE  \E acked \in BOOLEAN : SignalRoot(p, acked)
    <2>1. CASE O!ClaimBatch(p, {Destination(p)}) \/ O!MarkPublished(p) \/ O!MarkFailed(p)
      BY <2>1, Zenon DEF O!ClaimBatch, O!MarkPublished, O!MarkFailed
    <2>2. CASE PublisherCrash(p)
      BY <2>2, Zenon DEF PublisherCrash, O!Crash
    <2>3. ASSUME NEW acked \in BOOLEAN, StartRoot(p, acked) PROVE FALSE
      BY <2>3 DEF StartRoot, O!Send
    <2>4. ASSUME NEW m \in Message, SendFails(p, m) PROVE FALSE
      BY <2>4 DEF SendFails, O!Send
    <2>. QED BY <1>1, <2>1, <2>2, <2>3, <2>4, Zenon DEF PublisherStep
  <1>2. ASSUME NEW m \in Message, OutboxClock(m) PROVE delivered' = delivered
    BY <1>2, Zenon DEF OutboxClock, O!BackoffElapses, O!LeaseLapses
  <1>3. ASSUME NEW a \in Attempt, \/ CreateAttempt(a) \/ ActivatePlan(a)
                                  \/ \E o \in GateOutcome : CompleteGoal(a, o)
        PROVE  delivered' = delivered
    BY <1>3, Zenon DEF CreateAttempt, ActivatePlan, CompleteGoal
  <1>4. CASE \/ CreateTask \/ RequestCancel \/ StartPlanning \/ DeadlinePasses \/ OperatorCancel
             \/ RootStep \/ ApplyEvents \/ ClaimAttempt \/ CommitRoot
             \/ ActivityRetried \/ ActivityExhausted \/ \E x \in late : LateActivity(x)
    BY <1>4, Zenon DEF CreateTask, RequestCancel, StartPlanning, DeadlinePasses, OperatorCancel,
         RootStep, ApplyEvents, ClaimAttempt, CommitRoot, ActivityRetried, ActivityExhausted,
         LateActivity, outboxVars
  <1>5. ASSUME NEW a \in Attempt, ChildStep(a) \/ ExecuteRaises(a) PROVE delivered' = delivered
    BY <1>5, Zenon DEF ChildStep, ExecuteReturns, CommitAttempt, ChildCancelled, CommitCancelled,
         ExecuteRaises, outboxVars
  <1>6. CASE UNCHANGED vars
    BY <1>6 DEF vars
  <1>. QED BY <1>1, <1>2, <1>3, <1>4, <1>5, <1>6, Zenon
           DEF Next, ApiStep, PlannerStep, ActivityFault, Done

\* What planning adds to the log is not a cancellation.
LEMMA PlanningEvents ==
  \A log \in {<<"PLAN_ACTIVATED">>, <<"GOAL_UNDERSTANDING_COMPLETED">>,
              <<"GOAL_UNDERSTANDING_COMPLETED", "USER_INPUT_REQUESTED">>} :
    log \in Seq(EventType) /\ \A j \in DOMAIN log : log[j] # "TASK_CANCELLED"
  <1>1. <<"PLAN_ACTIVATED">> \in Seq(EventType) /\ <<"GOAL_UNDERSTANDING_COMPLETED">> \in Seq(EventType)
    BY DEF EventType
  <1>2. <<"GOAL_UNDERSTANDING_COMPLETED", "USER_INPUT_REQUESTED">> \in Seq(EventType)
    BY DEF EventType
  <1>3. \A j \in DOMAIN <<"PLAN_ACTIVATED">> : <<"PLAN_ACTIVATED">>[j] # "TASK_CANCELLED"
    OBVIOUS
  <1>4. \A j \in DOMAIN <<"GOAL_UNDERSTANDING_COMPLETED">> :
          <<"GOAL_UNDERSTANDING_COMPLETED">>[j] # "TASK_CANCELLED"
    OBVIOUS
  <1>5. \A j \in DOMAIN <<"GOAL_UNDERSTANDING_COMPLETED", "USER_INPUT_REQUESTED">> :
          <<"GOAL_UNDERSTANDING_COMPLETED", "USER_INPUT_REQUESTED">>[j] # "TASK_CANCELLED"
    OBVIOUS
  <1>. QED BY <1>1, <1>2, <1>3, <1>4, <1>5, Zenon

\* While the root does not move, the log grows by nothing that it has to read.
LEMMA LogKeepsRead ==
  ASSUME TypeInv, StartedInv, [Next]_vars, row["SIGNAL"].status # "ABSENT", root.pc # "absent"
  PROVE  \/ UNCHANGED events
         \/ UNCHANGED root /\ (Unread' => Unread)
  <1>0. events \in Seq(EventType) /\ root.cursor \in Nat
    BY DEF TypeInv, TypeOK, Root
  <1>1. ASSUME NEW log \in {<<"PLAN_ACTIVATED">>, <<"GOAL_UNDERSTANDING_COMPLETED">>,
                            <<"GOAL_UNDERSTANDING_COMPLETED", "USER_INPUT_REQUESTED">>},
               events' = events \o log, UNCHANGED root
        PROVE  Unread' => Unread
    <2>0. log \in Seq(EventType) /\ \A j \in DOMAIN log : log[j] # "TASK_CANCELLED"
      BY PlanningEvents, Zenon
    <2>1. ASSUME NEW i \in (root.cursor + 1)..Len(events'), events'[i] = "TASK_CANCELLED"
          PROVE  i \in (root.cursor + 1)..Len(events) /\ events[i] = "TASK_CANCELLED"
      <3>1. i \in 1..(Len(events) + Len(log)) /\ i > root.cursor /\ i \in Nat
        BY <1>0, <1>1, <2>0, <2>1
      <3>2. i <= Len(events)
        <4>1. ASSUME i > Len(events) PROVE FALSE
          <5>1. events'[i] = log[i - Len(events)] /\ i - Len(events) \in DOMAIN log
            BY <1>0, <1>1, <2>0, <3>1, <4>1
          <5>. QED BY <2>0, <2>1, <5>1
        <4>. QED BY <1>0, <3>1, <4>1
      <3>. QED BY <1>0, <1>1, <2>1, <3>1, <3>2
    <2>2. root'.cursor = root.cursor
      BY <1>1
    <2>. QED BY <2>1, <2>2 DEF Unread
  <1>2. ASSUME NEW a \in Attempt, ActivatePlan(a) PROVE UNCHANGED root /\ (Unread' => Unread)
    <2>1. events' = events \o <<"PLAN_ACTIVATED">> /\ UNCHANGED root
      BY <1>0, <1>2 DEF ActivatePlan
    <2>. QED BY <1>1, <2>1
  <1>3. ASSUME NEW a \in Attempt, NEW o \in GateOutcome, CompleteGoal(a, o)
        PROVE  UNCHANGED root /\ (Unread' => Unread)
    <2>1. CASE o = "REQUEST_USER_INPUT"
      <3>1. /\ events' = events \o <<"GOAL_UNDERSTANDING_COMPLETED", "USER_INPUT_REQUESTED">>
            /\ UNCHANGED root
        BY <1>3, <2>1, Zenon DEF CompleteGoal
      <3>. QED BY <1>1, <3>1
    <2>2. CASE o # "REQUEST_USER_INPUT"
      <3>1. events' = events \o <<"GOAL_UNDERSTANDING_COMPLETED">> /\ UNCHANGED root
        BY <1>0, <1>3, <2>2 DEF CompleteGoal
      <3>. QED BY <1>1, <3>1
    <2>. QED BY <2>1, <2>2
  <1>4. ~ CreateTask /\ ~ RequestCancel
    BY DEF StartedInv, CreateTask, RequestCancel, O!Enqueue
  <1>5. CASE \/ StartPlanning \/ CommitRoot \/ DeadlinePasses \/ UNCHANGED taskVars
             \/ \E x \in late : LateActivity(x)
    BY <1>5, Zenon DEF StartPlanning, CommitRoot, DeadlinePasses, taskVars, LateActivity
  <1>. QED BY <1>2, <1>3, <1>4, <1>5, LogFrame DEF LogStep

\* A root that keeps its log in view does not lose its wake-up.
LEMMA WakeStays ==
  ASSUME TypeInv, OneChildAtATime, [Next]_vars, root.pc # "absent", UNCHANGED events,
         root.pc \in OpenRoot /\ Unread => Wakeful
  PROVE  /\ root'.pc # "absent"
         /\ root'.pc \in OpenRoot /\ Unread' => Wakeful'
  <1>0. root \in Root /\ root' \in Root /\ events' = events
    BY FlowType DEF FlowOK, TypeInv, TypeOK
  <1>. USE DEF Wakeful
  <1>1. ASSUME root.pc \in OpenRoot, root.pc # "applying", root'.pc # "absent",
               root'.cursor = root.cursor, root'.pending = root.pending \/ root'.pending,
               root'.target = root.target,
               root'.cancel = root.cancel \/ root.cancel \in {"none", "asked"}
        PROVE  root'.pc \in OpenRoot /\ Unread' => Wakeful'
    <2>1. Unread' => Unread
      BY <1>0, <1>1 DEF Unread
    <2>. QED BY <1>1, <2>1
  <1>2. ASSUME root' = root
        PROVE  /\ root'.pc # "absent"
               /\ root'.pc \in OpenRoot /\ Unread' => Wakeful'
    BY <1>0, <1>2 DEF Unread
  <1>3. CASE RootStep
    <2>1. CASE ReadEvents \/ Expire
      BY <1>0, <2>1 DEF ReadEvents, Expire, Root
    <2>2. CASE ContinueAsNew \/ AskForAttempt \/ Wake \/ EventsApplied
      <3>1. /\ root.pc \in OpenRoot /\ root.pc # "applying" /\ root'.pc # "absent"
            /\ root'.cursor = root.cursor /\ root'.pending = root.pending
            /\ root'.target = root.target /\ root'.cancel = root.cancel
        BY <1>0, <2>2 DEF ContinueAsNew, AskForAttempt, Wake, EventsApplied, Root, OpenRoot
      <3>. QED BY <1>1, <3>1
    <2>. QED BY <1>3, <2>1, <2>2 DEF RootStep
  <1>4. CASE ApplyEvents
    <2>1. root'.cursor = Len(events) /\ root'.pc = "applied" /\ Len(events) \in Nat
      BY <1>0, <1>4 DEF ApplyEvents, Root, TypeInv, TypeOK
    <2>. QED BY <1>0, <2>1 DEF Unread
  <1>5. CASE CommitRoot
    BY <1>0, <1>5 DEF CommitRoot, Root, OpenRoot
  <1>6. ASSUME NEW p \in Publisher, NEW acked \in BOOLEAN, StartRoot(p, acked) \/ SignalRoot(p, acked)
        PROVE  /\ root'.pc # "absent"
               /\ root'.pc \in OpenRoot /\ Unread' => Wakeful'
    <2>1. CASE StartRoot(p, acked)
      BY <1>2, <2>1 DEF StartRoot
    <2>2. CASE SignalRoot(p, acked)
      BY <1>0, <2>2 DEF SignalRoot, Root, OpenRoot
    <2>. QED BY <1>6, <2>1, <2>2
  <1>7. CASE ClaimAttempt
    <2>1. /\ root.pc = "claiming"
          /\ \/ root' = [root EXCEPT !.pc = "waiting"]
             \/ \E a \in Attempt : root' = [root EXCEPT !.pc = "attempt", !.att = a]
      BY <1>7, Zenon DEF ClaimAttempt
    <2>2. /\ root'.pc # "absent" /\ root'.cursor = root.cursor /\ root'.pending = root.pending
          /\ root'.target = root.target /\ root'.cancel = root.cancel
      BY <1>0, <2>1 DEF Root
    <2>. QED BY <1>1, <2>1, <2>2 DEF OpenRoot
  <1>8. CASE root' = Unwinding
    BY <1>0, <1>8, UnwindType
  <1>9. CASE OperatorCancel /\ root' # Unwinding
    <2>1. /\ root.pc = "attempt" /\ root.cancel = "none"
          /\ root' = [root EXCEPT !.cancel = "asked"]
      BY <1>9, Zenon DEF OperatorCancel
    <2>2. /\ root'.pc # "absent" /\ root'.cursor = root.cursor /\ root'.pending = root.pending
          /\ root'.target = root.target
      BY <1>0, <2>1 DEF Root
    <2>. QED BY <1>1, <2>1, <2>2 DEF OpenRoot
  <1>10. CASE RootFails
    BY <1>0, <1>10, UnwindType DEF OpenRoot
  <1>11. ASSUME NEW a \in Attempt, CommitAttempt(a)
         PROVE  /\ root'.pc # "absent"
                /\ root'.pc \in OpenRoot /\ Unread' => Wakeful'
    <2>1. RootResumes /\ child[a].pc = "committing"
      BY <1>11, Zenon DEF CommitAttempt
    <2>2. root.pc = "attempt"
      BY <2>1 DEF OneChildAtATime, Awaited, OpenChild
    <2>3. /\ root'.pc = "loop" /\ root'.cursor = root.cursor /\ root'.pending = root.pending
          /\ root'.target = root.target
          /\ root'.cancel = root.cancel \/ root.cancel \in {"none", "asked"}
      BY <1>0, <2>1 DEF RootResumes, Root
    <2>. QED BY <1>1, <2>2, <2>3 DEF OpenRoot
  <1>12. ASSUME NEW a \in Attempt, \/ ChildCancelled(a) \/ CommitCancelled(a) \/ ExecuteRaises(a)
                                   \/ \E o \in Outcome : ExecuteReturns(a, o)
         PROVE  root' = root \/ root' = Unwinding \/ RootFails
    BY <1>12, Zenon DEF ChildCancelled, CommitCancelled, ExecuteRaises, ExecuteReturns
  <1>13. CASE ActivityExhausted
    BY <1>10, <1>13, Zenon DEF ActivityExhausted
  <1>14. CASE UNCHANGED <<root, child>>
    BY <1>2, <1>14
  <1>. QED BY <1>2, <1>3, <1>4, <1>5, <1>6, <1>7, <1>8, <1>9, <1>10, <1>11, <1>12, <1>13, <1>14,
              FlowFrame, Zenon
           DEF FlowStep, StartOrSignal, ChildStep

LEMMA SignalStep ==
  ASSUME TypeInv, OP!IInv, OneChildAtATime, StartedInv, SignalInv, [Next]_vars
  PROVE  SignalInv'
  <1>0. O!TypeOK /\ "SIGNAL" \in Message
    BY DEF TypeInv, TypeOK, Message
  <1>1. SUFFICES ASSUME "SIGNAL" \in delivered'
                 PROVE  /\ row'["SIGNAL"].status # "ABSENT" /\ root'.pc # "absent"
                        /\ root'.pc \in OpenRoot /\ Unread' => Wakeful'
    BY DEF SignalInv
  <1>2. CASE "SIGNAL" \notin delivered
    <2>1. PICK p \in Publisher, acked \in BOOLEAN : SignalRoot(p, acked)
      BY <1>1, <1>2, DeliveredBy
    <2>2. "SIGNAL" \in poll[p].todo /\ row' = row
      BY <2>1 DEF SignalRoot, O!Send
    <2>3. row["SIGNAL"].status # "ABSENT"
      BY <2>2 DEF OP!IInv, OP!ClaimedWasWritten
    <2>4. root'.pending /\ root'.pc = root.pc /\ root.pc # "absent"
      BY <2>1 DEF SignalRoot, Root, OpenRoot, TypeInv, TypeOK
    <2>. QED BY <2>2, <2>3, <2>4 DEF Wakeful
  <1>3. CASE "SIGNAL" \in delivered
    <2>1. /\ row["SIGNAL"].status # "ABSENT" /\ root.pc # "absent"
          /\ root.pc \in OpenRoot /\ Unread => Wakeful
      BY <1>3 DEF SignalInv
    <2>2. row'["SIGNAL"].status # "ABSENT"
      BY <1>0, <2>1, WrittenStays
    <2>3. CASE UNCHANGED events
      BY <2>1, <2>2, <2>3, WakeStays
    <2>4. CASE UNCHANGED root /\ (Unread' => Unread)
      BY <2>1, <2>2, <2>4 DEF Wakeful
    <2>. QED BY <2>1, <2>3, <2>4, LogKeepsRead
  <1>. QED BY <1>2, <1>3

\* A published signal is not lost: a root that is still running, with a
\* cancellation beyond its cursor, has a wake-up pending.
THEOREM SignalIsSeen == Spec => []PublishedSignalIsSeen
  <1>1. Init => CloseInv /\ SignalInv
    BY DEF Init, CloseInv, StartedInv, RootClosesAfterCommit, SignalInv, O!Init, Message
  <1>2. TypeInv /\ OP!IInv /\ OneChildAtATime /\ CloseInv /\ SignalInv /\ [Next]_vars
          => CloseInv' /\ SignalInv'
    BY CloseStep, SignalStep DEF CloseInv
  <1>3. OP!IInv /\ SignalInv => PublishedSignalIsSeen
    BY DEF SignalInv, PublishedSignalIsSeen, Unread, Wakeful, OP!IInv, OP!PublishedWasDelivered, Message
  <1>. QED BY <1>1, <1>2, <1>3, TypeHolds, OneChild, PTL DEF Spec

-----------------------------------------------------------------------------
(* The life cycle of a task *)

\* Somebody asked for the end of the task, or it has ended.
CancelGranted == root.cancel # "none" \/ status \in {"CANCEL_REQUESTED"} \union TerminalStatus

\* Whoever commits FAILED does so after the deadline, and whoever commits CANCELLED
\* was asked to: the root, its child, and the executions that they left behind.
TargetJustified == /\ root.target = "FAILED" => overdue
                   /\ root.target = "CANCELLED" => CancelGranted
ChildJustified(a) == /\ child[a].pc = "cancelling" => root.cancel # "none"
                     /\ child[a].pc = "committing" => child[a].outcome # "CANCELLED"
LateJustified(x) == /\ x.kind = "root" /\ x.outcome = "FAILED" => overdue
                    /\ x.kind = "root" /\ x.outcome = "CANCELLED" => CancelGranted
                    /\ x.kind = "attempt" /\ x.outcome = "CANCELLED" => root.cancel # "none"
Justified == /\ TargetJustified
             /\ \A a \in Attempt : ChildJustified(a)
             /\ \A x \in late : LateJustified(x)

\* A reason to end the task never goes away.
LEMMA ReasonsStay ==
  ASSUME TypeInv, [Next]_vars
  PROVE  /\ overdue => overdue'
         /\ CancelGranted => CancelGranted'
         /\ \A x \in Activity : LateJustified(x) => LateJustified(x)'
  <1>1. overdue => overdue'
    <2>1. CASE DeadlinePasses
      BY <2>1 DEF DeadlinePasses
    <2>2. CASE LogStep
      BY <2>2, Zenon DEF LogStep, CreateTask, RequestCancel, StartPlanning, CommitRoot, ActivatePlan,
         CompleteGoal, LateActivity
    <2>. QED BY <2>1, <2>2, LogFrame DEF taskVars
  <1>2. status = "CANCEL_REQUESTED" => status' \in {"CANCEL_REQUESTED"} \union TerminalStatus
    <2>1. CASE status' = status \/ status' \in TerminalStatus
      BY <2>1
    <2>2. CASE CommitRoot \/ \E x \in late : LateActivity(x)
      BY <2>2, LateKinds DEF CommitRoot, LateActivity, TerminalUpdate, TypeInv, TypeOK, Committing,
         TerminalStatus
    <2>3. ASSUME NEW a \in Attempt, ActivatePlan(a) \/ \E o \in GateOutcome : CompleteGoal(a, o)
          PROVE  status # "CANCEL_REQUESTED"
      BY <2>3 DEF ActivatePlan, PlanWanted, CompleteGoal
    <2>4. CASE CreateTask \/ RequestCancel \/ StartPlanning
      BY <2>4 DEF CreateTask, RequestCancel, StartPlanning, Cancellable
    <2>5. CASE DeadlinePasses \/ UNCHANGED taskVars
      BY <2>1, <2>5 DEF DeadlinePasses, taskVars
    <2>. QED BY <2>2, <2>3, <2>4, <2>5, LogFrame DEF LogStep
  <1>3. CancelGranted => CancelGranted'
    BY <1>2, StatusMoves, CancelMoves DEF CancelGranted
  <1>. QED BY <1>1, <1>3, CancelMoves DEF LateJustified

\* The root takes a target that it has a reason for.
LEMMA TargetStep ==
  ASSUME TypeInv, LogInv, TargetJustified, [Next]_vars PROVE TargetJustified'
  <1>0. root \in Root /\ events \in Seq(EventType)
    BY DEF TypeInv, TypeOK
  <1>1. ASSUME root'.target \in {root.target, "NONE"} PROVE TargetJustified'
    BY <1>1, ReasonsStay DEF TargetJustified
  <1>2. CASE Expire
    <2>1. root'.target = "FAILED" /\ overdue
      BY <1>0, <1>2 DEF Expire, Root
    <2>. QED BY <2>1, ReasonsStay DEF TargetJustified
  <1>3. CASE RootStep /\ ~ Expire
    <2>1. root'.target = root.target
      BY <1>0, <1>3 DEF RootStep, ReadEvents, EventsApplied, ContinueAsNew, AskForAttempt, Wake, Root
    <2>. QED BY <1>1, <2>1
  <1>4. CASE ApplyEvents
    <2>1. CASE \E i \in (root.cursor + 1)..Len(events) : events[i] = "TASK_CANCELLED"
      <3>1. root'.target = "CANCELLED"
        BY <1>0, <1>4, <2>1 DEF ApplyEvents, Root
      <3>2. \E i \in DOMAIN events : events[i] = "TASK_CANCELLED"
        BY <1>0, <2>1 DEF Root
      <3>3. CancelGranted
        BY <3>2 DEF LogInv, CancelRecorded, CancelGranted
      <3>. QED BY <3>1, <3>3, ReasonsStay DEF TargetJustified
    <2>2. CASE ~ \E i \in (root.cursor + 1)..Len(events) : events[i] = "TASK_CANCELLED"
      <3>1. root'.target = "NONE"
        BY <1>0, <1>4, <2>2 DEF ApplyEvents, Root
      <3>. QED BY <1>1, <3>1
    <2>. QED BY <2>1, <2>2
  <1>5. CASE root' = Unwinding
    <2>1. root'.target = "CANCELLED" /\ root'.cancel # "none"
      BY <1>0, <1>5, UnwindType
    <2>. QED BY <2>1 DEF TargetJustified, CancelGranted
  <1>6. CASE CommitRoot \/ StartOrSignal
    <2>1. root'.target = root.target
      BY <1>0, <1>6 DEF CommitRoot, StartOrSignal, StartRoot, SignalRoot, Root
    <2>. QED BY <1>1, <2>1
  <1>7. CASE ClaimAttempt
    <2>1. \/ root' = [root EXCEPT !.pc = "waiting"]
          \/ \E a \in Attempt : root' = [root EXCEPT !.pc = "attempt", !.att = a]
      BY <1>7, Zenon DEF ClaimAttempt
    <2>2. root'.target = root.target
      BY <1>0, <2>1 DEF Root
    <2>. QED BY <1>1, <2>2
  <1>8. CASE OperatorCancel
    <2>1. root' = Unwinding \/ root' = [root EXCEPT !.cancel = "asked"]
      BY <1>8, Zenon DEF OperatorCancel
    <2>2. root' = [root EXCEPT !.cancel = "asked"] => root'.target = root.target
      BY <1>0 DEF Root
    <2>. QED BY <1>1, <1>5, <2>1, <2>2
  <1>9. ASSUME \/ ActivityExhausted \/ \E a \in Attempt : ChildStep(a) \/ ExecuteRaises(a)
        PROVE  root' = root \/ RootResumes \/ RootFails \/ root' = Unwinding
    BY <1>9, Zenon DEF ActivityExhausted, ChildStep, ExecuteReturns, CommitAttempt, ChildCancelled,
       CommitCancelled, ExecuteRaises
  <1>10. CASE root' = root \/ RootResumes \/ RootFails
    <2>1. root'.target = root.target
      BY <1>0, <1>10, WaysOut
    <2>. QED BY <1>1, <2>1
  <1>. QED BY <1>2, <1>3, <1>4, <1>5, <1>6, <1>7, <1>8, <1>9, <1>10, FlowFrame, Zenon DEF FlowStep

\* A child commits CANCELLED only when its root was asked to stop.
LEMMA ChildReasons ==
  ASSUME TypeInv, [Next]_vars, \A a \in Attempt : ChildJustified(a)
  PROVE  \A a \in Attempt : ChildJustified(a)'
  <1>. SUFFICES ASSUME NEW a \in Attempt PROVE ChildJustified(a)'
    OBVIOUS
  <1>1. ASSUME child'[a] = child[a] PROVE ChildJustified(a)'
    BY <1>1, CancelMoves DEF ChildJustified
  <1>2. ASSUME child'[a].pc \notin {"committing", "cancelling"} PROVE ChildJustified(a)'
    BY <1>2 DEF ChildJustified
  <1>3. ASSUME NEW b \in Attempt, NEW pc \in {"completed", "cancelled", "failed"}, ChildEnds(b, pc)
        PROVE  ChildJustified(a)'
    <2>1. /\ child'[b].pc = pc /\ pc \notin {"committing", "cancelling"}
          /\ \A c \in Attempt \ {b} : child'[c] = child[c]
      BY <1>3, ChildType DEF ChildPc
    <2>. QED BY <1>1, <1>2, <2>1
  <1>4. ASSUME NEW b \in Attempt, NEW o \in Outcome, ExecuteReturns(b, o) PROVE ChildJustified(a)'
    <2>1. /\ child' = [child EXCEPT ![b] = [@ EXCEPT !.pc = "committing", !.outcome = o]]
          /\ o # "CANCELLED" /\ "committing" \in ChildPc
      BY <1>4 DEF ExecuteReturns, ChildPc, OpenChild
    <2>2. /\ child'[b].pc = "committing" /\ child'[b].outcome = o
          /\ \A c \in Attempt \ {b} : child'[c] = child[c]
      BY <2>1, ChildOutcomeType, Zenon
    <2>. QED BY <1>1, <2>1, <2>2 DEF ChildJustified
  <1>5. ASSUME NEW b \in Attempt, ChildCancelled(b) PROVE ChildJustified(a)'
    <2>1. CASE child' = [child EXCEPT ![b] = [@ EXCEPT !.pc = "cancelling", !.outcome = "CANCELLED"]]
      <3>1. "cancelling" \in ChildPc /\ "CANCELLED" \in Outcome
        BY DEF ChildPc, OpenChild, Outcome
      <3>2. /\ child'[b].pc = "cancelling"
            /\ \A c \in Attempt \ {b} : child'[c] = child[c]
        BY <2>1, <3>1, ChildOutcomeType, Zenon
      <3>3. root'.cancel # "none"
        BY <1>5, CancelMoves DEF ChildCancelled
      <3>. QED BY <1>1, <3>2, <3>3 DEF ChildJustified
    <2>. QED BY <1>3, <1>5, <2>1, Zenon DEF ChildCancelled
  <1>6. CASE ClaimAttempt
    <2>1. ASSUME NEW b \in Attempt, child' = [child EXCEPT ![b] = StartedChild(b)]
          PROVE  ChildJustified(a)'
      BY <1>1, <1>2, <2>1, ChildStart
    <2>. QED BY <1>1, <1>6, <2>1, Zenon DEF ClaimAttempt
  <1>7. ASSUME NEW b \in Attempt, ChildStep(b) \/ ExecuteRaises(b) PROVE ChildJustified(a)'
    BY <1>3, <1>4, <1>5, <1>7, Zenon DEF ChildStep, CommitAttempt, CommitCancelled, ExecuteRaises
  <1>8. CASE OperatorCancel \/ ActivityExhausted
    BY <1>1, <1>3, <1>8, Zenon DEF OperatorCancel, ActivityExhausted
  <1>9. CASE StartOrSignal \/ RootStep \/ ApplyEvents \/ CommitRoot
    BY <1>1, <1>9, RootMoves
  <1>10. CASE UNCHANGED <<root, child>>
    BY <1>1, <1>10
  <1>. QED BY <1>6, <1>7, <1>8, <1>9, <1>10, FlowFrame, Zenon DEF FlowStep

\* What is left behind inherits the reason of who left it.
LEMMA LeftWithReason ==
  ASSUME TargetJustified, \A a \in Attempt : ChildJustified(a)
  PROVE  /\ \A x \in Pending : LateJustified(x)
         /\ \A a \in Attempt : child[a].pc \in {"committing", "cancelling"} =>
              LateJustified(AttemptCommit(a, child[a].outcome))
  <1>1. LateJustified(ClaimActivity)
    BY DEF LateJustified, ClaimActivity
  <1>2. LateJustified(RootCommit(root.target))
    BY DEF LateJustified, RootCommit, TargetJustified
  <1>3. ASSUME NEW a \in Attempt, child[a].pc \in {"committing", "cancelling"}
        PROVE  LateJustified(AttemptCommit(a, child[a].outcome))
    BY <1>3 DEF LateJustified, AttemptCommit, ChildJustified
  <1>. QED BY <1>1, <1>2, <1>3 DEF Pending

LEMMA JustifiedStep ==
  ASSUME TypeInv, LogInv, Justified, [Next]_vars PROVE Justified'
  <1>0. /\ TargetJustified /\ (\A a \in Attempt : ChildJustified(a))
        /\ (\A x \in late : LateJustified(x)) /\ late \subseteq Activity
    BY DEF Justified, TypeInv, TypeOK
  <1>1. ASSUME NEW x \in late' PROVE LateJustified(x)
    <2>1. \/ x \in late \/ x \in Pending
          \/ \E a \in Attempt : /\ child[a].pc \in {"committing", "cancelling"}
                                /\ x = AttemptCommit(a, child[a].outcome)
      <3>1. CASE OperatorCancel
        BY <3>1, Zenon DEF OperatorCancel
      <3>2. CASE ActivityRetried
        BY <3>2, Zenon DEF ActivityRetried
      <3>3. CASE ActivityExhausted
        BY <3>3, Zenon DEF ActivityExhausted
      <3>4. CASE \E a \in Attempt : ChildCancelled(a)
        BY <3>4, Zenon DEF ChildCancelled
      <3>5. CASE \E y \in late : LateActivity(y)
        BY <3>5, Zenon DEF LateActivity
      <3>. QED BY <3>1, <3>2, <3>3, <3>4, <3>5, LateFrame
    <2>. QED BY <1>0, <2>1, LeftWithReason, Zenon
  <1>2. \A x \in late' : LateJustified(x)'
    <2>1. late' \subseteq Activity
      BY LateType
    <2>. QED BY <1>1, <2>1, ReasonsStay
  <1>3. TargetJustified' /\ \A a \in Attempt : ChildJustified(a)'
    BY <1>0, TargetStep, ChildReasons
  <1>. QED BY <1>2, <1>3 DEF Justified

\* The task as its owner sees it.
SeenStatus == IF status \in {"QUEUED", "PLANNING", "WAITING_USER_INPUT"} THEN "OPEN"
              ELSE IF status = "RUNNING" THEN "PLANNED" ELSE status
SeenOutcome(r) == IF r.status \in {"ABSENT", "CREATED"} THEN "NONE" ELSE r.status
Seen == [a \in Attempt |-> SeenOutcome(att[a])]

\* The steps of the abstract life cycle, one for each change that can be seen.
LEMMA AbstractStatus ==
  ASSUME UNCHANGED overdue, (root'.cancel # "none") = (root.cancel # "none"), Seen' = Seen,
         \/ SeenStatus' = SeenStatus
         \/ SeenStatus = "NONE" /\ SeenStatus' = "OPEN"
         \/ SeenStatus \in {"OPEN", "PLANNED"} /\ SeenStatus' = "CANCEL_REQUESTED"
         \/ SeenStatus \in Lifecycle!Live /\ overdue /\ SeenStatus' = "FAILED"
         \/ /\ SeenStatus \in Lifecycle!Live /\ SeenStatus' = "CANCELLED"
            /\ SeenStatus = "CANCEL_REQUESTED" \/ root.cancel # "none"
  PROVE  [Lifecycle!Next]_Lifecycle!vars
  BY DEF Lifecycle!Next, Lifecycle!vars, Lifecycle!Create, Lifecycle!AskCancel, Lifecycle!Expire,
     Lifecycle!Cancel, Lifecycle!Live, Seen, SeenOutcome, SeenStatus

LEMMA AbstractAttempt ==
  ASSUME UNCHANGED <<status, overdue>>, (root'.cancel # "none") = (root.cancel # "none"),
         \/ Seen' = Seen
         \/ \E a \in Attempt : Seen[a] = "NONE" /\ Seen' = [Seen EXCEPT ![a] = "RUNNING"]
         \/ \E a \in Attempt, o \in Outcome :
              /\ Seen[a] = "RUNNING" /\ Seen' = [Seen EXCEPT ![a] = o]
              /\ o = "CANCELLED" => root.cancel # "none"
  PROVE  [Lifecycle!Next]_Lifecycle!vars
  BY DEF Lifecycle!Next, Lifecycle!vars, Lifecycle!StartAttempt, Lifecycle!EndAttempt, Outcome,
     Seen, SeenOutcome

\* What the owner sees of a change of one row.
LEMMA SeenRow ==
  ASSUME att \in [Attempt -> AttemptRow], NEW a \in Attempt, NEW r,
         att' = [att EXCEPT ![a] = r]
  PROVE  Seen' = [Seen EXCEPT ![a] = SeenOutcome(r)]
  BY DEF Seen, SeenOutcome

LEMMA SeenEnd ==
  ASSUME att \in [Attempt -> AttemptRow], NEW a \in Attempt, NEW o \in Outcome,
         att' = EndRow(a, o)
  PROVE  Seen' = [Seen EXCEPT ![a] = o]
  <1> DEFINE r == [status |-> o, gen |-> att[a].gen, rv |-> att[a].rv + 1]
  <1>1. att' = [att EXCEPT ![a] = r]
    BY Zenon DEF EndRow
  <1>2. SeenOutcome(r) = o
    BY DEF SeenOutcome, Outcome
  <1>. HIDE DEF r
  <1>3. Seen' = [Seen EXCEPT ![a] = SeenOutcome(r)]
    BY <1>1, SeenRow
  <1>. QED BY <1>2, <1>3

\* A commit, in time or late, gives a RUNNING attempt its outcome or changes nothing.
LEMMA SeenCommit ==
  ASSUME att \in [Attempt -> AttemptRow], NEW a \in Attempt, NEW o \in Outcome,
         att' = CommitRow(a, o)
  PROVE  \/ Seen' = Seen
         \/ Seen[a] = "RUNNING" /\ Seen' = [Seen EXCEPT ![a] = o]
  <1>1. CASE att[a].status = "RUNNING" /\ att' = EndRow(a, o)
    <2>1. Seen[a] = "RUNNING"
      BY <1>1 DEF Seen, SeenOutcome
    <2>. QED BY <1>1, <2>1, SeenEnd
  <1>2. CASE att' = att
    BY <1>2 DEF Seen, SeenOutcome
  <1>. QED BY <1>1, <1>2, Zenon DEF CommitRow

LEMMA SeenClaim ==
  ASSUME att \in [Attempt -> AttemptRow], NEW a \in Attempt, Earliest(a), att' = ClaimRow(a)
  PROVE  Seen[a] = "NONE" /\ Seen' = [Seen EXCEPT ![a] = "RUNNING"]
  <1> DEFINE r == [status |-> "RUNNING", gen |-> att[a].gen + 1, rv |-> att[a].rv + 1]
  <1>1. att' = [att EXCEPT ![a] = r]
    BY Zenon DEF ClaimRow
  <1>2. SeenOutcome(r) = "RUNNING"
    BY DEF SeenOutcome
  <1>3. Seen[a] = "NONE"
    BY DEF Earliest, Seen, SeenOutcome
  <1>. HIDE DEF r
  <1>4. Seen' = [Seen EXCEPT ![a] = SeenOutcome(r)]
    BY <1>1, SeenRow
  <1>. QED BY <1>2, <1>3, <1>4

\* A terminal status is committed for a reason that the owner knows of.
LEMMA SeenTerminal ==
  ASSUME TypeInv, NEW target \in TerminalStatus, status' = TerminalUpdate(target),
         target = "FAILED" => overdue, target = "CANCELLED" => CancelGranted
  PROVE  \/ SeenStatus' = SeenStatus
         \/ SeenStatus \in Lifecycle!Live /\ overdue /\ SeenStatus' = "FAILED"
         \/ /\ SeenStatus \in Lifecycle!Live /\ SeenStatus' = "CANCELLED"
            /\ SeenStatus = "CANCEL_REQUESTED" \/ root.cancel # "none"
  <1>1. CASE status \in OpenStatus
    <2>1. status' = target /\ SeenStatus \in Lifecycle!Live
      BY <1>1 DEF TerminalUpdate, SeenStatus, Lifecycle!Live, OpenStatus, Cancellable
    <2>2. target \in {"FAILED", "CANCELLED"} /\ SeenStatus' = target
      BY <2>1 DEF SeenStatus, TerminalStatus
    <2>3. target = "CANCELLED" => SeenStatus = "CANCEL_REQUESTED" \/ root.cancel # "none"
      BY <1>1 DEF CancelGranted, SeenStatus, OpenStatus, Cancellable, TerminalStatus
    <2>. QED BY <2>1, <2>2, <2>3
  <1>2. CASE status \notin OpenStatus
    BY <1>2 DEF TerminalUpdate, SeenStatus
  <1>. QED BY <1>1, <1>2

LEMMA LifecycleStep ==
  ASSUME TypeInv, Justified, [Next]_vars PROVE [Lifecycle!Next]_Lifecycle!vars
  <1>0. /\ att \in [Attempt -> AttemptRow] /\ late \subseteq Activity /\ root \in Root
        /\ {"COMPLETED", "FAILED", "CANCELLED"} \subseteq Outcome /\ Committing
    BY DEF TypeInv, TypeOK, Outcome
  <1>1. ASSUME UNCHANGED att PROVE Seen' = Seen
    BY <1>1 DEF Seen, SeenOutcome
  <1>2. ASSUME UNCHANGED root PROVE (root'.cancel # "none") = (root.cancel # "none")
    BY <1>2
  <1>3. CASE CreateTask \/ RequestCancel \/ StartPlanning
    <2>1. UNCHANGED <<overdue, root, att>>
      BY <1>3 DEF CreateTask, RequestCancel, StartPlanning
    <2>2. \/ SeenStatus' = SeenStatus
          \/ SeenStatus = "NONE" /\ SeenStatus' = "OPEN"
          \/ SeenStatus \in {"OPEN", "PLANNED"} /\ SeenStatus' = "CANCEL_REQUESTED"
      BY <1>3 DEF CreateTask, RequestCancel, StartPlanning, SeenStatus, Cancellable
    <2>. QED BY <1>1, <1>2, <2>1, <2>2, AbstractStatus
  <1>4. CASE CommitRoot
    <2>1. UNCHANGED <<overdue, att>> /\ root'.cancel = root.cancel
      BY <1>0, <1>4 DEF CommitRoot, Root
    <2>2. /\ status' = TerminalUpdate(root.target) /\ root.target \in TerminalStatus
          /\ root.target = "FAILED" => overdue
          /\ root.target = "CANCELLED" => CancelGranted
      BY <1>0, <1>4 DEF CommitRoot, Committing, Justified, TargetJustified
    <2>. QED BY <1>1, <2>1, <2>2, SeenTerminal, AbstractStatus
  <1>5. ASSUME NEW x \in late, LateActivity(x) PROVE [Lifecycle!Next]_Lifecycle!vars
    <2>0. UNCHANGED <<overdue, root>> /\ LateJustified(x) /\ x \in Activity
      BY <1>0, <1>5 DEF LateActivity, Justified
    <2>1. ASSUME NEW a \in Attempt, Earliest(a), att' = ClaimRow(a), UNCHANGED status
          PROVE  [Lifecycle!Next]_Lifecycle!vars
      BY <1>0, <1>2, <2>0, <2>1, SeenClaim, AbstractAttempt
    <2>2. CASE UNCHANGED <<status, att>>
      BY <1>1, <1>2, <2>0, <2>2, AbstractAttempt
    <2>3. CASE x.kind = "root" /\ status' = TerminalUpdate(x.outcome) /\ UNCHANGED att
      <3>1. /\ x.outcome \in TerminalStatus
            /\ x.outcome = "FAILED" => overdue
            /\ x.outcome = "CANCELLED" => CancelGranted
        BY <2>0, <2>3, LateKinds DEF LateJustified
      <3>. QED BY <1>1, <1>2, <2>0, <2>3, <3>1, SeenTerminal, AbstractStatus
    <2>4. CASE x.kind = "attempt" /\ att' = CommitRow(x.attempt, x.outcome) /\ UNCHANGED status
      <3>1. /\ x.attempt \in Attempt /\ x.outcome \in Outcome
            /\ x.outcome = "CANCELLED" => root.cancel # "none"
        BY <2>0, <2>4, LateKinds DEF LateJustified
      <3>2. \/ Seen' = Seen
            \/ Seen[x.attempt] = "RUNNING" /\ Seen' = [Seen EXCEPT ![x.attempt] = x.outcome]
        BY <1>0, <2>4, <3>1, SeenCommit
      <3>. QED BY <1>2, <2>0, <2>4, <3>1, <3>2, AbstractAttempt
    <2>. QED BY <1>5, <2>1, <2>2, <2>3, <2>4, Zenon DEF LateActivity
  <1>6. ASSUME NEW a \in Attempt, ActivatePlan(a) PROVE [Lifecycle!Next]_Lifecycle!vars
    <2>1. /\ status = "PLANNING" /\ ~ overdue /\ att[a].status = "RUNNING"
          /\ status' = "RUNNING" /\ UNCHANGED <<overdue, root>> /\ att' = EndRow(a, "COMPLETED")
      BY <1>6 DEF ActivatePlan, PlanWanted
    <2>2. Seen[a] = "RUNNING" /\ SeenStatus = "OPEN" /\ SeenStatus' = "PLANNED"
      BY <2>1 DEF Seen, SeenOutcome, SeenStatus
    <2>3. Seen' = [Seen EXCEPT ![a] = "COMPLETED"]
      BY <1>0, <2>1, SeenEnd
    <2>4. Lifecycle!Activate(a)
      BY <2>1, <2>2, <2>3 DEF Lifecycle!Activate, Seen, SeenOutcome, SeenStatus
    <2>. QED BY <2>4 DEF Lifecycle!Next
  <1>7. ASSUME NEW a \in Attempt, CreateAttempt(a) PROVE [Lifecycle!Next]_Lifecycle!vars
    <2>1. UNCHANGED <<status, overdue, root>> /\ Seen' = Seen
      BY <1>0, <1>7 DEF CreateAttempt, Seen, SeenOutcome
    <2>. QED BY <1>2, <2>1, AbstractAttempt
  <1>8. ASSUME NEW a \in Attempt, NEW o \in GateOutcome, CompleteGoal(a, o)
        PROVE  [Lifecycle!Next]_Lifecycle!vars
    <2>1. UNCHANGED <<overdue, root, att>> /\ SeenStatus' = SeenStatus
      BY <1>8 DEF CompleteGoal, SeenStatus
    <2>. QED BY <1>1, <1>2, <2>1, AbstractStatus
  <1>9. CASE DeadlinePasses
    <2>1. Lifecycle!DeadlinePasses
      BY <1>1, <1>9 DEF DeadlinePasses, Lifecycle!DeadlinePasses, Seen, SeenOutcome
    <2>. QED BY <2>1 DEF Lifecycle!Next
  <1>10. CASE OperatorCancel
    <2>1. root.cancel = "none" /\ root'.cancel # "none" /\ UNCHANGED <<status, overdue, att>>
      BY <1>10, CancelMoves, Zenon DEF OperatorCancel, taskVars
    <2>2. Lifecycle!OperatorStops
      BY <2>1 DEF Lifecycle!OperatorStops
    <2>. QED BY <2>2 DEF Lifecycle!Next
  <1>11. CASE ClaimAttempt
    <2>1. UNCHANGED <<status, overdue>> /\ root'.cancel = root.cancel
      <3>1. \/ root' = [root EXCEPT !.pc = "waiting"]
            \/ \E a \in Attempt : root' = [root EXCEPT !.pc = "attempt", !.att = a]
        BY <1>11, Zenon DEF ClaimAttempt
      <3>2. root'.cancel = root.cancel
        BY <1>0, <3>1 DEF Root
      <3>. QED BY <1>11, <3>2, Zenon DEF ClaimAttempt, taskVars
    <2>2. ASSUME NEW a \in Attempt, Earliest(a), att' = ClaimRow(a)
          PROVE  [Lifecycle!Next]_Lifecycle!vars
      BY <1>0, <2>1, <2>2, SeenClaim, AbstractAttempt
    <2>3. CASE UNCHANGED att
      BY <1>1, <2>1, <2>3, AbstractAttempt
    <2>. QED BY <1>11, <2>2, <2>3, Zenon DEF ClaimAttempt
  <1>12. ASSUME NEW a \in Attempt, CommitAttempt(a) \/ CommitCancelled(a)
         PROVE  [Lifecycle!Next]_Lifecycle!vars
    <2>1. /\ UNCHANGED <<status, overdue>>
          /\ child[a].pc = "cancelling" => root.cancel # "none"
          /\ child[a].pc = "committing" => /\ child[a].outcome \in Outcome
                                           /\ child[a].outcome # "CANCELLED"
      BY <1>0, <1>12, Zenon DEF CommitAttempt, CommitCancelled, taskVars, Committing, Justified,
         ChildJustified
    <2>2. (root'.cancel # "none") = (root.cancel # "none")
      <3>1. CASE CommitAttempt(a)
        BY <1>0, <3>1, WaysOut DEF CommitAttempt
      <3>2. CASE CommitCancelled(a)
        <4>1. child[a].pc = "cancelling" /\ root' = Unwinding
          BY <3>2, Zenon DEF CommitCancelled
        <4>. QED BY <1>0, <2>1, <4>1, UnwindType
      <3>. QED BY <1>12, <3>1, <3>2
    <2>3. ASSUME NEW o \in Outcome, att' = CommitRow(a, o), o = "CANCELLED" => root.cancel # "none"
          PROVE  [Lifecycle!Next]_Lifecycle!vars
      BY <1>0, <2>1, <2>2, <2>3, SeenCommit, AbstractAttempt
    <2>4. CASE UNCHANGED att
      BY <1>1, <2>1, <2>2, <2>4, AbstractAttempt
    <2>. QED BY <1>0, <1>12, <2>1, <2>3, <2>4, Zenon DEF CommitAttempt, CommitCancelled
  <1>13. ASSUME UNCHANGED <<taskVars, att>>, ~ OperatorCancel,
                \A a \in Attempt : ~ CommitAttempt(a) /\ ~ CommitCancelled(a)
         PROVE  [Lifecycle!Next]_Lifecycle!vars
    <2>1. (root'.cancel # "none") = (root.cancel # "none")
      <3>1. \A a \in Attempt : ChildCancelled(a) => root.cancel # "none"
        BY DEF ChildCancelled
      <3>. QED BY <1>13, <3>1, CancelMoves
    <2>. QED BY <1>1, <1>13, <2>1, AbstractAttempt DEF taskVars
  <1>14. CASE LogStep \/ DeadlinePasses
    BY <1>3, <1>4, <1>5, <1>6, <1>8, <1>9, <1>14, Zenon DEF LogStep
  <1>15. CASE AttStep
    BY <1>5, <1>6, <1>7, <1>11, <1>12, <1>15, Zenon DEF AttStep
  <1>. QED BY <1>10, <1>12, <1>13, <1>14, <1>15, LogFrame, AttFrame, Zenon

\* The composed system implements the abstract life cycle of a task: one terminal
\* status, FAILED only after the deadline and CANCELLED only on somebody's demand.
THEOREM LifecycleImplemented == Spec => ImplementsLifecycle
  <1>1. Init => Justified /\ Lifecycle!Init
    <2>1. ASSUME Init PROVE Justified
      BY <2>1 DEF Init, Justified, TargetJustified, ChildJustified
    <2>2. ASSUME Init PROVE Lifecycle!Init
      BY <2>2 DEF Init, Lifecycle!Init
    <2>. QED BY <2>1, <2>2
  <1>2. TypeInv /\ LogInv /\ Justified /\ [Next]_vars
          => Justified' /\ [Lifecycle!Next]_Lifecycle!vars
    BY JustifiedStep, LifecycleStep
  <1>. QED BY <1>1, <1>2, TypeHolds, LogHolds, PTL DEF Spec, ImplementsLifecycle, Lifecycle!Spec
=============================================================================
