----------------------------- MODULE RuntimeLoop -----------------------------
(***************************************************************************)
(* The runtime loop of one planned task: the facts read from the database, *)
(* the snapshot built from them, the directive the controller selects, the *)
(* run of proposed actions with its observations, and the runtime state    *)
(* row with its no-progress counters.                                      *)
(*                                                                         *)
(* load_facts reads the task and its runtime row first and the other       *)
(* tables after: two actions.  upsert reads the row and writes it at the   *)
(* commit of its caller: two more.  Building the snapshot and selecting    *)
(* happen without an await.  The activity that drives the loop (Driver)    *)
(* and the attempts it starts are not in the source: they do what the      *)
(* docstrings of runtime_loop and runtime_state say, and no more.          *)
(*                                                                         *)
(* A definition Name_Fault is not part of the model: it is Name with a     *)
(* fault that a property of the runs must notice.                          *)
(*                                                                         *)
(* Counters stop at the threshold they are compared with.  Fingerprints    *)
(* are left out: they are stored and no decision reads them.               *)
(***************************************************************************)
EXTENDS Integers, FiniteSets, SequencesExt

CONSTANTS Driver,               \* activities that drive the task
          MaxProposals,         \* max_proposed_action_count
          REPLAN_ELIGIBLE_AT, FORCE_CONVERGE_AT, EPOCH_CONVERGE_AT,
          TASK_CONVERGE_AT, MAX_REPLAN_PER_TASK,
          Signals               \* what a stalled round may ask for, and the user may send

ASSUME RuntimeLoopAssumption ==
         /\ Signals \subseteq {"BLOCKING_ISSUE", "REPLAN_REQUIRED", "NEW_INPUT"}
         /\ MaxProposals \in Nat
         /\ REPLAN_ELIGIBLE_AT \in Nat \ {0} /\ MAX_REPLAN_PER_TASK \in Nat \ {0}
         /\ FORCE_CONVERGE_AT \in Nat /\ REPLAN_ELIGIBLE_AT <= FORCE_CONVERGE_AT
         /\ EPOCH_CONVERGE_AT \in Nat /\ FORCE_CONVERGE_AT <= EPOCH_CONVERGE_AT
         /\ TASK_CONVERGE_AT \in Nat /\ EPOCH_CONVERGE_AT <= TASK_CONVERGE_AT

VARIABLES status,      \* intelligent_task.status
          attempts,    \* kinds of the attempts in CREATED or RUNNING
          effect,      \* the worst external_effect_state of an attempt
          item,        \* plan_item_runtime: a row of the active plan, and what is left of others
          answer,      \* task_result.answer_status
          question,    \* user_input_request of the task
          row,         \* task_runtime_state row
          drv,         \* the drivers
          observed     \* task_observation rows of the event of each driver

worldVars == <<status, attempts, effect, item, answer, question>>
vars == <<status, attempts, effect, item, answer, question, row, drv, observed>>

-----------------------------------------------------------------------------
(* State *)

\* ENDED stands for COMPLETED, FAILED and CANCELLED.
TaskStatus == {"RUNNING", "CANCEL_REQUESTED", "ENDED"}
AttemptKind == {"WORK", "REPLAN", "FINAL_SYNTHESIS"}
Convergence == {"CONTINUE_LOOP", "REPLAN", "CONVERGE"}
SourceKind == {"RESULT_ADOPTED", "RESULT_NOT_ADOPTED", "ACTION_TERMINAL"}

\* earlier: whether an earlier plan has an item that was left BLOCKED in iteration 1 or 2.
PlanItem == [status : {"PENDING", "READY", "RUNNING", "BLOCKED"}, iteration : 1..3,
             earlier : {"NONE", "BLOCKED"}]

NextItem == [status |-> "PENDING", iteration |-> 1, earlier |-> item.earlier]

\* Counters of NoProgressStateV1, each up to the threshold it is compared with.
NoProgress == [consecutive : 0..FORCE_CONVERGE_AT, epoch : 0..EPOCH_CONVERGE_AT,
               task : 0..TASK_CONVERGE_AT, episode_replan_used : BOOLEAN,
               task_replan_count : 0..MAX_REPLAN_PER_TASK]

\* ready_set_ref and next_reconcile_at are in the activity: it writes them before it reads.
LoopState == [np : NoProgress, convergence_action : Convergence, replan_required : BOOLEAN,
              blocking_issue : BOOLEAN]

\* get answers the defaults when there is no row yet: the two are one state.
Baseline == [np |-> [consecutive |-> 0, epoch |-> 0, task |-> 0,
                     episode_replan_used |-> FALSE, task_replan_count |-> 0],
             convergence_action |-> "CONTINUE_LOOP", replan_required |-> FALSE,
             blocking_issue |-> FALSE]

Directive == {"CLOSE_RUNTIME", "ADVANCE_CANCELLATION", "WAIT_RECONCILIATION", "FAIL_TASK",
              "REQUEST_USER_INPUT", "START_REPLAN", "RETRY_PLAN_ITEM",
              "START_FINAL_SYNTHESIS", "SCHEDULE_READY_SET", "WAIT_EVENT"}
Refusal == {"RUNTIME_DEADLOCK_DETECTED", "READY_SET_REF_REQUIRED"}

\* What an action of a run ended with; an action that was not bound never ran.
Outcome == [state : {"ADOPTED", "NOT_ADOPTED", "FAILED"}, delta : BOOLEAN, regressed : BOOLEAN]
Unbound == [state |-> "UNBOUND", delta |-> FALSE, regressed |-> FALSE]

Activity == [pc : {"idle", "reading", "decided", "acting", "writing", "committed",
                   "raised", "stopped"},
             seen : TaskStatus,
             step : Directive \union Refusal \union {"none"},
             done : Seq(Outcome \union {Unbound}),
             ready_set_ref : BOOLEAN, next_reconcile_at : BOOLEAN,
             base : LoopState,                           \* the row as it was read
             current : BOOLEAN]                          \* base is still the row

Idle == [pc |-> "idle", seen |-> "RUNNING", step |-> "none", done |-> <<>>,
         ready_set_ref |-> FALSE, next_reconcile_at |-> FALSE, base |-> Baseline,
         current |-> FALSE]

TypeOK == /\ status \in TaskStatus
          /\ attempts \subseteq AttemptKind
          /\ effect \in {"NONE", "OUTCOME_UNKNOWN", "RECONCILING"}
          /\ item \in PlanItem
          /\ answer \in {"NONE", "COMPLETE", "PARTIAL"}
          /\ question \in {"NONE", "PENDING"}
          /\ row \in LoopState
          /\ drv \in [Driver -> Activity]
          /\ observed \in [Driver -> Seq(SourceKind)]

Init == /\ status = "RUNNING" /\ attempts = {} /\ effect = "NONE"
        /\ item = [status |-> "READY", iteration |-> 1, earlier |-> "NONE"]
        /\ answer = "NONE" /\ question = "NONE"
        /\ row = Baseline
        /\ drv = [d \in Driver |-> Idle]
        /\ observed = [d \in Driver |-> <<>>]
       

Moves(d, pc) == drv' = [drv EXCEPT ![d].pc = pc]
Rests(d) == drv' = [drv EXCEPT ![d] = Idle]

-----------------------------------------------------------------------------
(* The facts of the task, and the snapshot built from them *)

\* RuntimeLoopStateV1 refuses a REPLAN without the budget it consumed.
Readable(s) == s.convergence_action = "REPLAN" =>
                 /\ s.np.episode_replan_used
                 /\ s.np.task_replan_count \in 1..MAX_REPLAN_PER_TASK

\* _load_retryable_items looks at the items of every plan version of the task.
Blocked == item.status = "BLOCKED" /\ item.iteration \in {1, 2}
Retryable == Blocked \/ item.earlier = "BLOCKED"

\* load_facts, from the task status and the runtime row that a read first.
Facts(a) ==
  [state |-> a.seen,
   active |-> attempts # {},
   unknown |-> effect = "OUTCOME_UNKNOWN",
   blocking |-> effect = "RECONCILING",
   activeReplan |-> "REPLAN" \in attempts,
   merged |-> answer # "NONE" /\ "FINAL_SYNTHESIS" \notin attempts,
   ready |-> item.status = "READY",
   retryable |-> Retryable,
   partial |-> answer = "PARTIAL",
   satisfied |-> answer = "COMPLETE",
   wake |-> question = "PENDING",
   terminal |-> a.seen = "ENDED",
   cancelling |-> a.seen = "CANCEL_REQUESTED",
   ready_set_ref |-> a.ready_set_ref,
   next_reconcile_at |-> a.next_reconcile_at,
   loop |-> a.base]

CloseReady(f) == f.terminal /\ ~f.active /\ ~f.unknown /\ ~f.activeReplan
Stable(f) == ~f.activeReplan /\ ~f.cancelling

ReplanAdmission(f) ==
  IF f.loop.replan_required THEN "REQUIRED"
  ELSE [CONTINUE_LOOP |-> "NOT_NEEDED", REPLAN |-> "ELIGIBLE",
        CONVERGE |-> "BLOCKED"][f.loop.convergence_action]

Converging(f) == f.loop.convergence_action = "CONVERGE"

\* Only a required replan that was refused fails the task.
Fails_Fault(f) == Converging(f) /\ f.loop.replan_required

\* fail_reason is not None: REPLAN_REQUIRED_FAILED or CONTROL_DEPENDENCY_EXHAUSTED.
Fails(f) == Converging(f) /\ (f.loop.replan_required \/ ~f.partial)

\* final_outcome_kind is not None and the contributions are, or count as, merged.
Finalizes(f) == IF Converging(f) THEN ~f.loop.replan_required /\ f.partial
                ELSE f.satisfied /\ f.merged

\* The snapshot is refused when items are ready and no ready set is referenced.
SnapshotValid(f) == f.ready => f.ready_set_ref

-----------------------------------------------------------------------------
(* The controller: the first directive, in this order, whose condition holds *)

\* A task that has ended is closed at once.
MayClose_Fault(f) == f.terminal

MayClose(f) == f.terminal /\ ~f.active /\ ~f.unknown /\ CloseReady(f)

\* A wake source is asked for before a cancellation goes on.
MayAdvanceCancellation_Fault(f) == f.cancelling /\ f.wake

MayAdvanceCancellation(f) == f.cancelling

MayWaitReconciliation(f) == f.blocking /\ f.next_reconcile_at

MayRequestInput(f) == f.loop.blocking_issue

MayReplan(f) == /\ ReplanAdmission(f) \in {"REQUIRED", "ELIGIBLE"}
                /\ ~f.activeReplan /\ Stable(f) /\ ~f.blocking
                /\ ~(ReplanAdmission(f) = "ELIGIBLE" /\ f.ready)

MayRetry(f) == f.retryable /\ ~f.blocking

MayFinalize(f) == /\ Finalizes(f) /\ ~f.active /\ Stable(f)
                  /\ ~f.blocking /\ ~f.loop.blocking_issue

MaySchedule(f) == f.state = "RUNNING" /\ f.ready /\ ~f.blocking

Priority == <<"CLOSE_RUNTIME", "ADVANCE_CANCELLATION", "WAIT_RECONCILIATION", "FAIL_TASK",
              "REQUEST_USER_INPUT", "START_REPLAN", "RETRY_PLAN_ITEM",
              "START_FINAL_SYNTHESIS", "SCHEDULE_READY_SET", "WAIT_EVENT">>

Admits(f) == <<MayClose(f), MayAdvanceCancellation(f), MayWaitReconciliation(f), Fails(f),
               MayRequestInput(f), MayReplan(f), MayRetry(f),
               MayFinalize(f), MaySchedule(f), f.wake>>

\* _select_directive
Select(f) == LET admitted == {i \in DOMAIN Priority : Admits(f)[i]}
             IN  IF admitted = {} THEN "RUNTIME_DEADLOCK_DETECTED" ELSE Priority[Min(admitted)]

\* build_runtime_decision_snapshot, then evaluate_runtime_decision
Decide(f) == IF SnapshotValid(f) THEN Select(f) ELSE "READY_SET_REF_REQUIRED"

-----------------------------------------------------------------------------
(* No progress: one round, merged into the counters *)

Bump(n, threshold) == IF n < threshold THEN n + 1 ELSE n

\* A round with progress starts a new episode.
AfterProgress(np) == [np EXCEPT !.consecutive = 0, !.episode_replan_used = FALSE]

AfterStall(np) == [np EXCEPT !.consecutive = Bump(@, FORCE_CONVERGE_AT),
                             !.epoch = Bump(@, EPOCH_CONVERGE_AT),
                             !.task = Bump(@, TASK_CONVERGE_AT)]

Forced(np) == \/ np.consecutive >= FORCE_CONVERGE_AT
              \/ np.epoch >= EPOCH_CONVERGE_AT
              \/ np.task >= TASK_CONVERGE_AT

ReplanEligible(np, disposition) == \/ disposition = "REGRESSION"
                                   \/ np.consecutive >= REPLAN_ELIGIBLE_AT

replan_permitted(np, alternative) == /\ alternative /\ ~np.episode_replan_used
                                     /\ np.task_replan_count < MAX_REPLAN_PER_TASK

\* The budget of the episode is not marked.
mark_replan_used_Fault(np) == [np EXCEPT !.task_replan_count = @ + 1]

mark_replan_used(np) == [np EXCEPT !.episode_replan_used = TRUE, !.task_replan_count = @ + 1]

\* The thresholds are looked at after the eligibility.
Merged_Fault(np, disposition, alternative) ==
  LET next == AfterStall(np)
  IN  CASE disposition = "PROGRESS" ->
             [np |-> AfterProgress(np), convergence_action |-> "CONTINUE_LOOP"]
        [] disposition # "PROGRESS" /\ ReplanEligible(next, disposition)
                                    /\ replan_permitted(next, alternative) ->
             [np |-> mark_replan_used(next), convergence_action |-> "REPLAN"]
        [] OTHER -> [np |-> next,
                     convergence_action |-> IF Forced(next) THEN "CONVERGE" ELSE "CONTINUE_LOOP"]

\* merge_loop_no_progress: the new counters and the convergence action.
Merged(np, disposition, alternative) ==
  LET next == AfterStall(np)
      eligible == ReplanEligible(next, disposition)
  IN  IF disposition = "PROGRESS"
      THEN [np |-> AfterProgress(np), convergence_action |-> "CONTINUE_LOOP"]
      ELSE IF ~Forced(next) /\ ~eligible
      THEN [np |-> next, convergence_action |-> "CONTINUE_LOOP"]
      ELSE IF ~Forced(next) /\ replan_permitted(next, alternative)
      THEN [np |-> mark_replan_used(next), convergence_action |-> "REPLAN"]
      ELSE [np |-> next, convergence_action |-> "CONVERGE"]

new_input_epoch_reset(np) == [np EXCEPT !.epoch = 0]

-----------------------------------------------------------------------------
(* A proposal of the model, and what becomes of it *)

\* What the binding looks at, in the order of its checks.
Proposal == [listed : BOOLEAN,     \* of this snapshot, and its tool is disclosed there
             inline : BOOLEAN,     \* the arguments are an inline JSON object
             valid : BOOLEAN,      \* they satisfy the input schema
             profiled : BOOLEAN,   \* capability, tool and schema are the profile's
             projects : BOOLEAN]   \* every required fact is present and normalises

Resolved(p) == p.listed
Readied(p) == p.inline /\ p.valid
Profiled(p) == p.profiled
Projected(p) == p.projects

\* bind_action: any refusal leaves the proposal without a binding.
Bound(p) == Resolved(p) /\ Readied(p) /\ Profiled(p) /\ Projected(p)

\* What the executor answers: an adopted result need not be progress, and it may
\* invalidate an earlier one.
Answers == {[state |-> "ADOPTED", delta |-> TRUE, regressed |-> FALSE],
            [state |-> "ADOPTED", delta |-> TRUE, regressed |-> TRUE],
            [state |-> "ADOPTED", delta |-> FALSE, regressed |-> FALSE],
            [state |-> "NOT_ADOPTED", delta |-> FALSE, regressed |-> FALSE],
            [state |-> "FAILED", delta |-> FALSE, regressed |-> TRUE]}

\* What a proposal ends with.
Ended == {IF Bound(p) THEN o ELSE Unbound : p \in Proposal, o \in Answers}

\* _build_observation: an attempt without a binding is a failed action.
ObservationOf(o) == CASE o.state = "ADOPTED" -> "RESULT_ADOPTED"
                      [] o.state = "NOT_ADOPTED" -> "RESULT_NOT_ADOPTED"
                      [] OTHER -> "ACTION_TERMINAL"

Observations(done) == [i \in DOMAIN done |-> ObservationOf(done[i])]

HasDelta(done) == \E i \in DOMAIN done : done[i].delta
HasRegression(done) == \E i \in DOMAIN done : done[i].regressed

\* Progress and regression in one run: RUNTIME_PROGRESS_DELTA_REGRESSION_CONFLICT.
Classified(done) == ~(HasDelta(done) /\ HasRegression(done))
Disposition(done) == IF HasRegression(done) THEN "REGRESSION"
                     ELSE IF HasDelta(done) THEN "PROGRESS" ELSE "NO_PROGRESS"

\* An observation is inserted under the ID of its event and ordinal, or not at all.
Inserted(old, new) == old \o SubSeq(new, Len(old) + 1, Len(new))

-----------------------------------------------------------------------------
(* A driver: one decision *)

\* The driver writes what the decision is to refer to, and the read begins.
ReadTask(d) == /\ drv[d].pc = "idle"
               /\ Readable(row)
               /\ drv' = [drv EXCEPT ![d].pc = "reading", ![d].seen = status,
                                     ![d].ready_set_ref = (item.status = "READY"),
                                     ![d].next_reconcile_at = (effect = "RECONCILING"),
                                     ![d].base = row, ![d].current = TRUE]
               /\ UNCHANGED <<worldVars, row, observed>>

ReadWork(d) == /\ drv[d].pc = "reading"
               /\ drv' = [drv EXCEPT ![d] = [@ EXCEPT !.pc = "decided", !.seen = "RUNNING",
                                              !.ready_set_ref = FALSE,
                                              !.next_reconcile_at = FALSE,
                                              !.step = Decide(Facts(drv[d]))]]
               /\ UNCHANGED <<worldVars, row, observed>>

Decided(d, directive) == drv[d].pc = "decided" /\ drv[d].step = directive

CloseRuntime(d) == /\ Decided(d, "CLOSE_RUNTIME")
                   /\ Moves(d, "stopped")
                   /\ UNCHANGED <<worldVars, row, observed>>

\* The root ends the task when nothing of it runs any more.
AdvanceCancellation(d) ==
  /\ Decided(d, "ADVANCE_CANCELLATION")
  /\ Rests(d)
  /\ status' = IF status = "CANCEL_REQUESTED" /\ attempts = {} THEN "ENDED" ELSE status
  /\ UNCHANGED <<attempts, effect, item, answer, question, row, observed>>

FailTask(d) ==
  /\ Decided(d, "FAIL_TASK")
  /\ Rests(d)
  /\ status' = "ENDED"
  /\ UNCHANGED <<attempts, effect, item, answer, question, row, observed>>

\* Nothing to do now: the driver asks again later.  So it does when the snapshot
\* or the selection was refused.
Yield(d) ==
  /\ drv[d].pc = "decided"
  /\ drv[d].step \in {"WAIT_RECONCILIATION", "WAIT_EVENT"} \union Refusal
  /\ Rests(d)
  /\ UNCHANGED <<worldVars, row, observed>>

RequestUserInput(d) ==
  /\ Decided(d, "REQUEST_USER_INPUT")
  /\ Rests(d)
  /\ question' = "PENDING"
  /\ UNCHANGED <<status, attempts, effect, item, answer, row, observed>>

StartReplan(d) ==
  /\ Decided(d, "START_REPLAN")
  /\ Rests(d)
  /\ attempts' = attempts \union {"REPLAN"}
  /\ UNCHANGED <<status, effect, item, answer, question, row, observed>>

\* The items of the directive are tried again, those of an earlier plan included.
RetryPlanItem(d) ==
  /\ Decided(d, "RETRY_PLAN_ITEM")
  /\ Rests(d)
  /\ item' = IF Blocked THEN [status |-> "READY", iteration |-> item.iteration + 1, earlier |-> "NONE"]
             ELSE [item EXCEPT !.earlier = "NONE"]
  /\ UNCHANGED <<status, attempts, effect, answer, question, row, observed>>

\* finalize: the directive needs a task_result row, and the row is never replaced.
StartFinalSynthesis(d) ==
  /\ Decided(d, "START_FINAL_SYNTHESIS")
  /\ Rests(d)
  /\ UNCHANGED <<worldVars, row, observed>>

-----------------------------------------------------------------------------
(* A driver: a run of actions, its observations and its counters *)

\* The attempt of the ready item starts; the model proposes some actions, at most
\* MaxProposals.
StartActions(d) ==
  /\ Decided(d, "SCHEDULE_READY_SET")
  /\ drv' = [drv EXCEPT ![d].pc = "acting", ![d].step = "none"]
  /\ attempts' = attempts \union {"WORK"}
  /\ item' = [item EXCEPT !.status = "RUNNING"]
  /\ UNCHANGED <<status, effect, answer, question, row, observed>>

\* Nothing of the run is written yet: the executor or a store raises, the process
\* dies, or there are more proposals than the profile allows
\* (PROPOSED_ACTION_LIMIT_EXCEEDED).
Abort(d) ==
  /\ drv[d].pc = "acting"
  /\ Moves(d, "raised")
  /\ UNCHANGED <<worldVars, row, observed>>

\* The actions run one after the other, in the order they were proposed.  The run
\* is classified; upsert reads the row and compares its version with the expected one.
RunActions(d) ==
  /\ drv[d].pc = "acting"
  /\ \E n \in 0..MaxProposals : \E done \in [1..n -> Ended] :
       drv' = IF Classified(done) /\ drv[d].current
              THEN [drv EXCEPT ![d].pc = "writing", ![d].done = done]
              ELSE [drv EXCEPT ![d].pc = "raised"]
  /\ UNCHANGED <<worldVars, row, observed>>

\* The columns that differ from what was read are written, the others stay.
Written(old, base, new) ==
  [f \in DOMAIN new |->
     IF f # "np" THEN IF new[f] # base[f] THEN new[f] ELSE old[f]
     ELSE [c \in DOMAIN new.np |-> IF new.np[c] # base.np[c] THEN new.np[c] ELSE old.np[c]]]

\* The commit: observations, counters, and the end of the attempt and its item.
CommitRound(d) ==
  /\ drv[d].pc = "writing"
  /\ \E alternative \in BOOLEAN, asks \in SUBSET Signals :
       LET done == drv[d].done
           base == drv[d].base
           merge == Merged(base.np, Disposition(done), alternative)
           stalled == Disposition(done) # "PROGRESS"
           new == [base EXCEPT !.np = merge.np,
                               !.convergence_action = merge.convergence_action,
                               !.blocking_issue = @ \/ (stalled /\ "BLOCKING_ISSUE" \in asks),
                               !.replan_required = stalled /\ "REPLAN_REQUIRED" \in asks]
       IN  /\ row' = Written(row, base, new)
           /\ observed' = [observed EXCEPT ![d] = Inserted(@, Observations(done))]
           /\ item' = IF stalled THEN [item EXCEPT !.status = "BLOCKED"] ELSE NextItem
  /\ drv' = [e \in Driver |-> IF e = d THEN [Idle EXCEPT !.pc = "committed"]
                              ELSE [drv[e] EXCEPT !.current = FALSE]]
  /\ attempts' = attempts \ {"WORK"}
  /\ UNCHANGED <<status, effect, answer, question>>

\* The event is over: nothing is inserted under its ID any more.
Acknowledge(d) == /\ drv[d].pc = "committed"
                  /\ Rests(d)
                  /\ observed' = [observed EXCEPT ![d] = <<>>]
                  /\ UNCHANGED <<worldVars, row>>

\* The run is executed again as the same event: the model and the executor may
\* answer differently.
RunAgain(d) == drv' = [drv EXCEPT ![d].pc = "acting", ![d].base = row, ![d].current = TRUE]

Retry(d) == /\ drv[d].pc = "raised"
            /\ RunAgain(d)
            /\ UNCHANGED <<worldVars, row, observed>>

\* The commit is not acknowledged: the process dies, or its answer is lost.
LoseAcknowledgement(d) ==
  /\ drv[d].pc = "committed"
  /\ RunAgain(d)
  /\ UNCHANGED <<worldVars, row, observed>>

\* The activity is out of attempts: its attempt fails, perhaps with an unknown effect.
GiveUp(d) ==
  /\ drv[d].pc = "raised"
  /\ Rests(d)
  /\ attempts' = attempts \ {"WORK"}
  /\ item' = [item EXCEPT !.status = IF @ = "RUNNING" THEN "BLOCKED" ELSE @]
  /\ effect' \in {effect, "OUTCOME_UNKNOWN"}
  /\ observed' = [observed EXCEPT ![d] = <<>>]
  /\ UNCHANGED <<status, answer, question, row>>

-----------------------------------------------------------------------------
(* The rest of the task: the user, the other attempts, reconciliation *)

RequestCancel == /\ status = "RUNNING" /\ status' = "CANCEL_REQUESTED"
                 /\ UNCHANGED <<attempts, effect, item, answer, question, row, drv, observed>>

\* The answer resolves the issue, and the driver that sees it writes the row.
AnswerQuestion == /\ question = "PENDING" /\ question' = "NONE"
                  /\ \A d \in Driver : drv[d].pc = "idle"
                  /\ row' = [row EXCEPT !.blocking_issue = FALSE]
                  /\ UNCHANGED <<status, attempts, effect, item, answer, drv, observed>>

\* A new input opens a progress epoch; the driver that sees it writes the row.
NewInput == /\ status = "RUNNING" /\ "NEW_INPUT" \in Signals
            /\ \A d \in Driver : drv[d].pc = "idle"
            /\ row' = [row EXCEPT !.np = new_input_epoch_reset(@)]
            /\ UNCHANGED <<worldVars, drv, observed>>

ItemReady == /\ status = "RUNNING" /\ item.status = "PENDING"
             /\ item' = [item EXCEPT !.status = "READY"]
             /\ UNCHANGED <<status, attempts, effect, answer, question, row, drv, observed>>

\* A new plan has an item ready, or the replan failed.
EndReplan == /\ "REPLAN" \in attempts /\ attempts' = attempts \ {"REPLAN"}
             /\ item' \in {item, [status |-> "READY", iteration |-> 1,
                                  earlier |-> IF Retryable THEN "BLOCKED" ELSE "NONE"]}
             /\ UNCHANGED <<status, effect, answer, question, row, drv, observed>>

StartFinalAttempt == /\ status = "RUNNING" /\ attempts = {} /\ answer = "NONE"
                     /\ item.status = "PENDING"
                     /\ attempts' = {"FINAL_SYNTHESIS"}
                     /\ UNCHANGED <<status, effect, item, answer, question, row, drv, observed>>

\* It ends with a committed result, or without one and perhaps an unknown effect.
EndFinalAttempt == /\ "FINAL_SYNTHESIS" \in attempts
                   /\ attempts' = attempts \ {"FINAL_SYNTHESIS"}
                   /\ \/ answer' \in {"COMPLETE", "PARTIAL"} /\ UNCHANGED effect
                      \/ effect' \in {effect, "OUTCOME_UNKNOWN"} /\ UNCHANGED answer
                   /\ UNCHANGED <<status, item, question, row, drv, observed>>

CompleteTask == /\ status = "RUNNING" /\ answer # "NONE"
                /\ status' = "ENDED"
                /\ UNCHANGED <<attempts, effect, item, answer, question, row, drv, observed>>

Reconcile == /\ effect # "NONE"
             /\ effect' = IF effect = "OUTCOME_UNKNOWN" THEN "RECONCILING" ELSE "NONE"
             /\ UNCHANGED <<status, attempts, item, answer, question, row, drv, observed>>

-----------------------------------------------------------------------------
Dispatch(d) == \/ CloseRuntime(d) \/ AdvanceCancellation(d) \/ FailTask(d) \/ Yield(d)
               \/ RequestUserInput(d) \/ StartReplan(d) \/ RetryPlanItem(d)
               \/ StartFinalSynthesis(d) \/ StartActions(d)

Work(d) == \/ RunActions(d) \/ CommitRound(d)
           \/ Acknowledge(d) \/ GiveUp(d)

Drive(d) == ReadTask(d) \/ ReadWork(d) \/ Dispatch(d) \/ Work(d)

World == \/ RequestCancel \/ AnswerQuestion \/ NewInput \/ ItemReady \/ EndReplan
         \/ StartFinalAttempt \/ EndFinalAttempt \/ CompleteTask \/ Reconcile

Next == \/ \E d \in Driver : \/ Drive(d) \/ Abort(d) \/ Retry(d) \/ LoseAcknowledgement(d)
        \/ World

Spec == Init /\ [][Next]_vars

\* The driver goes on, the delivery of an event ends, and what was started ends: an
\* attempt, a reconciliation, a task with its result.  Nobody has to answer or to cancel.
EndEvent(d) == Acknowledge(d) \/ GiveUp(d)
EndWork == EndReplan \/ EndFinalAttempt \/ CompleteTask

FairSpec == /\ Spec
            /\ \A d \in Driver : WF_vars(Drive(d)) /\ SF_vars(EndEvent(d))
            /\ WF_vars(EndWork) /\ WF_vars(Reconcile)

-----------------------------------------------------------------------------
(* Properties *)

\* The stored row can be read back: a REPLAN stands with the budget it consumed
\* (state_from_record raises otherwise, and no decision is taken ever again).
RowReadable == Readable(row)

\* A driver that closed the runtime left nothing behind: the task has ended, no
\* attempt of it runs and no effect of it is unknown, now and for good.
CloseIsSafe == (\E d \in Driver : drv[d].pc = "stopped")
                 => status = "ENDED" /\ attempts = {} /\ effect # "OUTCOME_UNKNOWN"

\* While the counters are past a threshold, only a round with progress takes the
\* decision to converge back (merge_loop_no_progress).
ConvergenceHolds ==
  [][row.convergence_action = "CONVERGE" /\ Forced(row.np)
       => \/ row'.convergence_action = "CONVERGE"
          \/ \E d \in Driver : CommitRound(d) /\ HasDelta(drv[d].done)]_vars

\* A task whose rounds stalled too long ends, unless a late round made progress:
\* it fails, or its partial result is final.
StalledTaskEnds ==
  row.convergence_action = "CONVERGE"
    ~> status = "ENDED" \/ row.convergence_action # "CONVERGE"

\* A task that is asked to cancel ends, and its runtime is closed.
CancelClosesRuntime == status = "CANCEL_REQUESTED" ~> \A d \in Driver : drv[d].pc = "stopped"

\* upsert: the row is overwritten by compare-and-swap on row_version, so a round
\* never lands on a row that changed after its driver compared the version.
UpsertIsCas == [][\A d \in Driver : CommitRound(d) => drv[d].current]_vars

=============================================================================
