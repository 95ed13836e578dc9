# Formal verification of the knowledge-base assistant

TLA+ models, TLC runs and TLAPS proofs for the server under `src/server` and the
desktop client under `src/desktop`. `KS` below stands for
`src/server/src/knowledge_system`. Each definition that models code is listed in
`PROJECT.json` ("map") with the file and the lines it stands for.

Definitions called `Name_Something`, after a definition `Name` (for instance `Siblings_Fault`, or
`Entries_AnyActor`), are not part of a model. Each is the definition it is named after with a plausible bug in it; the property it
belongs to is violated when it takes the place of the original, which shows that the
property really looks at that piece of code.

## 1. The system

A user gives the assistant a task. The API writes the task and, in the same
transaction, an outbox row; a poller turns the row into the start of a Temporal
workflow; the workflow runs one attempt after the other; an attempt calls language
models through a gateway that accounts for every call; the final result is committed
to PostgreSQL, and the client follows the task over a stream of events. PostgreSQL is the
only authority: workflows, pollers and gateways are processes that may crash, be slow
or be run twice, and each change goes through a row lock or a compare-and-swap.

| Component | State | Operations | Interacts with | What is hard |
|---|---|---|---|---|
| Task entry (`tasking/application/task_creation.py`, `persistence/task_creation.py`) | idempotency row, task, first event, outbox row, query message | create, replay | API, outbox | two requests with one key at once, a lost answer, a message number read long before it is used |
| Outbox (`persistence/outbox.py`, `temporal/application/outbox_*.py`, `worker.py`) | `outbox_message` rows with status, claimer, lease, attempt count | claim a batch, dispatch, mark published / retry / dead | Temporal client | crashes with rows claimed, lapsed leases, lost answers, stale counts |
| Root workflow (`temporal/workflows/agent_task.py`) | signal flag, event cursor, attempts dispatched, terminal target | apply events, claim, start child, commit, continue-as-new | control activities, child workflows, signals | signals during an activity, cancellation at any await, deadline races |
| Attempt workflow (`agent_attempt.py`, `attempt_activities.py`) | fencing tokens, outcome; `task_attempt` row | execute, commit, commit while unwinding | root | late, repeated and abandoned commits |
| Cancellation (`task_cancel.py`) | task status, event log, outbox | request a cancel | outbox, root | races with the planner and the terminal commit |
| Goal and plan activation (`supervisor_activation.py`, `persistence/planning.py`) | goals, clarification requests, plan versions, task version | complete a goal, activate a plan | model gateway, event log | stale task version, replays, clarification rounds |
| Runtime loop (`runtime_loop.py`, `runtime_decision*.py`, `runtime_convergence.py`, `runtime_progress.py`, `runtime_state.py` and their repositories, `task_runtime_read.py`) | runtime state row with its no-progress counters, observations | read the facts, decide, run actions, observe, merge the counters, upsert | gateway, plan, final synthesis | facts read in several transactions, counters carried across replans, a version compared before the write |
| Actions (`domain/action_candidate.py`, `action_binding.py`, `action_facts.py`, `observation.py`) | none of its own | resolve, validate, profile, project, bind | runtime loop | refusals at each of several checks |
| Controlled model call (`model_gateway/application/policy_adapter.py` and its repositories) | model call, reservation and ledger entries, context pack | complete | Bifrost, permit authority | a stream with unknown outcome, partial failure around two commits |
| Last hop (`infrastructure/model_gateway/{bridge,apps,egress_permit_issuer}.py`, `egress_permit_repository.py`) | one-shot egress permit | issue, admit, authorize, post | Bifrost, secret broker, provider | repeated, altered and late requests, expiry |
| Event stream (`domain/event_stream.py`, `task_events.py`, desktop `taskEventClient.ts`, `taskReducer.ts`) | cursor, connection state, projection | read a page, stream, reconnect | desktop | reconnects, duplicates, cursors ahead or expired |
| Context packs (`modules/memory`, `persistence/context_pack_repository.py`, `model_gateway/application/context_pack_consumption.py`) | pack rows with a state | obtain (reuse or assemble and save), consume, invalidate | gateway | unlocked read-then-write, ids taken for replays, budgets filled greedily |
| Memory (`memory_governance.py`, `memory_write_service.py`, `memory_recall_service.py`, `memory_repository.py`) | memory rows, tombstones | propose, revise, forget, pin, recall | context packs | merges and conflicts decided before the write, limits applied before filters |
| Chunking and retrieval (`knowledge/domain/chunking.py`, `retrieval.py`) | none: pure functions | tree of a document, parents, children, overlap; fusion, removal of duplicates | memory, documents | three limits and an overlap, scores of different scales |
| Documents, parse runs, index builds (`modules/knowledge`, the rest) | states of runs and builds | legality of a transition | | no repository and no caller in `src` |
| Final result (`final_*.py`, `task_result_repository.py`) | `task_result` row, episode substates | validate, repair, evaluate, decide, cite, render, commit | runtime loop | retries of a commit, bounded repair, what may be called complete |
| IAM, audit, API, payload codec, migrations, tools, canaries | sessions, append-only rows, none | | | little or no concurrent state |

What makes each of them correct is stated with the modules below; section 8 says what is not
modelled and why.

## 2. Modules

| Module | Models | Kind |
|---|---|---|
| `TaskCreation` | the creation of tasks by the API: idempotency, message numbers | component |
| `AtLeastOnceChannel` | what an outbox promises its callers | abstract specification |
| `Outbox` | the outbox table and its publishers | component; implements `AtLeastOnceChannel` |
| `TaskLifecycle` | what users and operators may rely on about one task | abstract specification |
| `TaskExecution` | task row, event log, cancellation, root and child workflows, control activities; composes `Outbox` (two messages: the start and the cancel signal) | composition; implements `TaskLifecycle` |
| `GoalPlanning` | the supervisor: goals, questions to the user, plans, with overlapping executions | component |
| `OneShotEgress` | what permit and budget promise about a model call | abstract specification |
| `ControlledCall` | the controlled model call from budget reservation to settlement and the last hop | component; implements `OneShotEgress` |
| `EventStream` | the event log, the event endpoint, the desktop client and the page that shows a task | composition of server and client |
| `RuntimeLoop` | facts, snapshot, directive, run of actions, counters and stored state of one planned task | component |
| `FinalEpisode` | what the finalization of a task promises: one result, told to whoever commits | abstract specification |
| `FinalSynthesis` | candidate, validation and repair, criteria, decision, citations, commit of the result | component; implements `FinalEpisode` |
| `ContextPack` | obtaining, consuming and invalidating context packs, their budget and their items | component |
| `MemoryStore` | the gate, the writes, the commands and the recall of memories | component |
| `Chunking` | from a parsed document to parent and child chunks | pure functions, one step each |
| `Retrieval` | rank fusion and the removal of duplicates | pure functions, one step each |
| `TaskCreationProofs`, `OutboxProofs`, `TaskExecutionProofs`, `GoalPlanningProofs`, `EventStreamProofs`, `FinalSynthesisProofs` | theorems about the module of that name | proofs |
| `ControlledCallProofs` | theorems about `ControlledCall`, and about `ContextPack` and `MemoryStore`, from which its prompts are made | proofs |
| `RuntimeProofs` | theorems about `RuntimeLoop`, `Retrieval` and `Chunking`, which share no state | proofs |
| `MCTaskCreation`, `MCOutbox`, `MCTaskExecution`, `MCGoalPlanning`, `MCControlledCall`, `MCEventStream`, `MCRuntimeLoop`, `MCFinalSynthesis`, `MCMemoryStore`, `MCChunking` | instances for TLC of the module of that name | |
| `MCContext` | instances of `ContextPack` and `Retrieval`, beside `MCMemoryStore` and `MCChunking` | |
| `MCSideBySide` | `MCTaskCreation`, `MCGoalPlanning` and `MCContext` in one run: six components that share no state, of which a behaviour takes one and leaves the others as they begin | |

### TaskCreation

Variables: the tables `tasks` (each row with its first event and start message), `idem` and
`messages`; `asked`, the request each execution was sent (chosen in `CreationInit`, never changed); `creation`, the
executions; `losses`. Actions, each one transaction or read: `LoadConversation` (owner check
and `max(sequence)`), `Refuse` (attachments, output contract), `LookUp` and `Reread`
(`_find_idempotency`, before and after the write), `Write` (`add_task_creation` and its commit, or
the `IntegrityError` of the loser), `LoseExecution` (the process or the connection is gone, before or after
the commit). The identifier of a task is a fresh uuid; the execution that draws it
stands for it. A client that sends its request again is another execution. Nothing in `src` creates
a conversation, so they are constants with an owner; a missing one looks like one of somebody else.

### Outbox

Variables: `row` (status, claimer, attempt count, and two abstractions of the clock: `due`
for `available_at <= now`, `stale` for a claim older than the lease), `poll` (each
publisher's batch, its current message, the count it read when claiming), `delivered`
(what Temporal accepted), `faults`. Actions: `Enqueue` (a business transaction),
`ClaimBatch` (`claim_batch`, one transaction with `SKIP LOCKED`), `RejectPayload` and `Send`
(the two outcomes of `_dispatch`; the answer of Temporal may be lost), `MarkPublished`,
`MarkFailed` (retry or dead, as decided from the count read at the claim), `Crash`. The
write-backs compare status and claimer like the SQL does, so a publisher whose row was
taken over writes nothing. The order of claims by `available_at, id` is left out: any
claimable batch may be taken.

### TaskExecution

The task row, its event log and its attempts are PostgreSQL; `root` and `child` are
workflows with one program counter per await. `RootStep` is the code between two awaits
(flag tests, deadline, cursor, start of a child); `ApplyEvents`, `ClaimAttempt` and
`CommitRoot` are the control activities, each one transaction; `late` holds executions
of activities whose workflow no longer waits for them (timed out, retried, cancelled) and that
may still commit. `OperatorCancel` is a cancellation by Temporal; `RequestCancel` is the user's
cancel transaction. The creation of attempts, the step QUEUED to PLANNING and the body
of an attempt are not in `src` and are marked external. The outbox rows are those of
`Outbox` with messages START and SIGNAL; a row of PLAN_ACTIVATED or of the goal events has the
destination "MQ", which no poller reads, and is not modelled.

### GoalPlanning

Variables: `task` (status, version, active plan), `clock` (the time left is more than the 30
minutes a question lives, less, or none), `goals`, `requests`, `plan`, `attempt` (the PLAN
attempts), `events` (counters by type), `materials` (what was read for each goal attempt: task
version, plan attempt, clock), `run` (executions of `activate`), `faults`. Actions:
`Start`, `UnderstandGoal` (the model answers), `CompleteGoal` (one transaction: replay, store or
refuse), `DraftPlan` (the model answers, the draft is validated, `Cyclic` is the depth-first
search), `ActivatePlan` (one transaction: replay, store or refuse), `Crash`; around them
`AssembleMaterials` (external), `EndAttempt`, `TimePasses`, `RequestCancel`, `CloseTask`. What the model
answers is any goal and any draft of the instance, another one at each run. Clarification rounds
are always round 1 and no code answers a request, so there is no second round.

### ControlledCall

`run` is an execution of `complete()`. `Accept` is the whole first transaction (context pack
consumed, call inserted, budget reserved, RESERVE entry), `Settle` the whole
second one (terminal call, settlement, entries); a call is never seen ACCEPTED or STREAMING because
those states lie inside a transaction. `IssuePermit`, `Admit` and `Authorize` are the short
transactions of the permit authority; `Post` is the request to the provider. Bifrost, between gateway and
bridge, is external: it may repeat, alter or delay the request. The five budget
dimensions are one number. `RECONCILING` is unreachable in the code, because a usage that
was not reported is always estimated as the full reservation.

### EventStream

Variables: `status` and `log` on the server; `link`, the connection (waiting, connecting, listing,
open) with its cursor and the frames on their way; `page`, the reducer's state and the client's
cursor; `screen`, what is shown (label, remembered status, result); `saved`, the cursor in
`localStorage`; `snaps`, snapshot requests and answers that may overtake each other; `fetching`,
`cancelling`, the two other requests; `seen`, a history variable with the events
shown so far; `faults`, `refreshes`. Actions: `WriterStep` (planning, goal, plan, cancel, close);
`OpenStream`, `ReadRow`, `ListEvents` (the two reads of `reconnect` and the answer), `DeliverFrame` (ignored,
a gap, the next event, or the terminal frame), `CloseStream`, `DropStream`; `AnswerSnapshot`,
`LoseSnapshot`, `ApplySnapshot`; `ShowResult`, `LoseResult`; `ClickCancel`, `AnswerCancel`,
`ShowCancel`, `LoseCancel`; `Refresh` (the page is loaded again). Frames are a set that is delivered by sequence,
because one connection keeps their order. COMPLETED is written by no code in `src` and is left out.

### RuntimeLoop

Variables: `status`, `attempts`, `effect`, `item`, `answer`, `question` are what the decision reads of the
tables of the task; `row` is `task_runtime_state` with its no-progress counters; `observed` the observations of
the event under way; `drv` the drivers. The plan has one item, whose status is kept for the active plan version and, as far as a
retry looks at them, for the earlier ones (`item.earlier`): `blocked_items` reads the items of every version. Actions of a driver: `ReadTask` and `ReadWork` (the two reads of
`load_facts`, then the snapshot and the directive, which need no await); one action for each directive
(`CloseRuntime`, `AdvanceCancellation`, `FailTask`, `RequestUserInput`, `StartReplan`, `RetryPlanItem`,
`StartFinalSynthesis`, `StartActions`, and `Yield` for the waits and the two refusals); `RunActions` (bind,
execute, classify, compare the version), `CommitRound` (observations and counters at the commit of the caller),
`Acknowledge`, `Abort`, `Retry`, `GiveUp`, `LoseAcknowledgement` (the same event is delivered again). Around
them the user, reconciliation, and replan and final attempts. The directives are listed in the order of
`_select_directive`, each with its condition; the counters stop at the threshold they are compared with. The
activity that drives the loop is not in `src`: it does what the docstrings of `runtime_loop` and `runtime_state`
ask of their callers, and is marked external.

### FinalSynthesis and FinalEpisode

Variables: `exec`, the executions of `finalize` for one task, and `row`, its `task_result` row. Actions: `Finalize`,
`ModelAnswers` (everything between the answer of the model and the next await: validation, repair or refusal,
evaluation, decision, citations, rendering), `insert_committed` (its own transaction), `Answers`, `Raise`, `Lose`
(before or after the commit). Materials, outputs and the support catalog are constants; a candidate has the parts the
validator and the renderer tell apart, and its texts are names. The checks of a candidate are a list in the
code's order, and the first that fails decides the verdict. `FinalEpisode` is the state machine of `final_episode.py`
(nobody in `src` advances it) with the one result of `task_result`: `FinalSynthesis` implements it under the mapping
`SubstateOf`.

### ContextPack

Variables: `packs` (the head rows by id), `user` (the callers), `voider` (invalidations under way). Actions: `Reuse` or
`Assemble` (the first read of `obtain`), `LookForId` and `Insert` (`save_pack` and its commit), `LoadForConsumption`
and `Consume`, `LoadForInvalidation` and `Invalidate` (each a read without a lock and a write at the commit),
`CallAgain` (a retry of the call), `Lose`. The budget (`allocate_elastic_budget`, `compute_context_budget`) and the
selection of items are operators; a pack is known by the request it was assembled from.

### MemoryStore

Variables: `memories`, `tombstones`, `writing` (the transactions that propose). `Begin` is the gate with all its reads
(legality, duplicates by hash, conflicts by key), `commit_candidate` the write at the commit, `RollBack` the other end;
`revise`, `forget` and `pin` are one step each. `recall` is an operator with its three channels, their limits, and the
revalidation of what they found.

### Chunking and Retrieval

Each is a chain of pure functions; a variable holds what the last function made, and there is one step for each
function, so that a run visits every input: `Receive`, `BuildTree`, `CreateParents`, `CreateChildren`; `Recall`,
`FuseLists` or `Pool`, `RemoveDuplicates`. A text is the sequence of its sentences, known by block and number. A
share `1 / (k + rank)` is counted in whole parts of a common multiple.

## 3. Runs

| Run | Instance | What it shows |
|---|---|---|
| `outbox` | 3 rows (one undispatchable), 2 publishers, 2 attempts, batches of 2, 1 fault, fairness | every row settles (`EverythingSettles`), the outbox implements `AtLeastOnceChannel`, which says what a row may be given up for and who settles it |
| `task_safety` | 2 attempts (goal, plan), 1 attempt per run of the root so that continue-as-new happens, 1 fault | no plan after a cancel, published signals are seen, no orphan without a fault, refinement of `TaskLifecycle` |
| `task_live` | 1 attempt, 1 fault, fairness | a cancel and a deadline lead to a terminal status |
| `call` | 2 executions, 2 calls (so replays happen), 2 requests on the last hop, reservation 1, usage up to 2, 1 crash, fairness | sent once as approved, the ledger balances, calls end, refinement of `OneShotEgress` |
| `stream` | 2 snapshots asked at most, 1 fault or reload, fairness | nothing is skipped, the terminal display is true, the end and all events come to be shown |
| `runtime` | 1 driver, 1 action, thresholds 1, 2, 2, 3, 1 replan, every signal | the stored row can be read back (`RowReadable`), the runtime is closed only over nothing (`CloseIsSafe`), the decision to converge stands (`ConvergenceHolds`) |
| `runtime_live` | the same, thresholds 1, 2, 2, 2, no signals, fairness | a stalled task ends (`StalledTaskEnds`), a cancelled task ends with its runtime closed (`CancelClosesRuntime`) |
| `final` | 2 executions, 12 materials, 20 model outputs, fairness | no unsupported fact is published (`NothingUnsupported`), a complete result is complete (`CompleteIsEarned`), one result per task (`ImplementsEpisode`), the repair ends (`EverySynthesisEnds`) |
| `side_by_side`, creation of tasks | 3 requests, 2 users with 2 and 1 conversations, 2 keys, 3 contents (one refused), 1 lost execution | retries are safe (`AnswersNameTheTask`), messages are numbered without gap (`MessagesInOrder`), a conflict is worth a retry (`ConflictIsRetryable`) |
| `side_by_side`, planning | 2 supervisors, 2 goal and 2 plan attempts, 2 goals (one with a blocking issue), 3 drafts (a chain, a fork, a cycle), 1 crash | tables agree, a task version has one goal (`RowsAgree`), a question excludes a plan, an active plan can be finished, replays are accepted |
| `side_by_side`, packs | 2 callers, 1 invalidation, 7 requests | packs are consumed as stored (`ConsumedIsStored`), within their budget (`PackIsWithinBudget`), and stay consumed (`ConsumedStaysConsumed`) |
| `side_by_side`, memories | 2 writers, 9 proposals, 3 memories, 2 recalls | contradictions are marked (`ContradictionIsMarked`); a recall is what it is defined to be (`RecallIsAsDefined`) |
| `side_by_side`, chunks | every document of 4 blocks of 10 sorts | every block is indexed once, in its place (`EveryBlockIsIndexed`), in bounded chunks (`ChunksAreBounded`) |
| `side_by_side`, ranking | 2 channels of up to 3 chunks, 5 maps of texts, 3 of scores | the best of every text is kept (`BestIsKept`) |
| `runtime_doc_cas` | `RuntimeLoop` with 2 drivers | a statement of the repository that the code does not keep (section 7) |
| `memory_doc_conflict` | `MemoryStore` with 1 writer and 3 proposals | another (section 7) |
| `chunking_doc_levels` | `Chunking` with the documents of `side_by_side` | another (section 7) |

`side_by_side` is one run: `part` says which component a behaviour is of, and the properties of the others are about their
beginnings. It has 920,947 distinct states and takes up to four minutes with two workers. Each component is reduced by its
own symmetry: the model values that are permuted in one stand for those of another as well, so that one set of
permutations serves all.

Why the bounds are enough. Two publishers, two supervisors, two executions of a call, two
requests on the last hop are what a race needs; a third request for a task lets two be retries of one key
while another user or conversation interferes. A third outbox row lets a batch hold a good, a bad and a
foreign row; two attempts per row give a first failure and a last one. `MaxPerRun = 1` makes
every attempt cross a continue-as-new. A usage of 0, 1 and 2 against a reservation of 1 lies on each side of
the boundary. Three drafts hold each result of the search for cycles: accepted with and without
a branch, refused by a cycle that is not a self-loop. Two snapshots can overtake each other. `MaxFaults` bounds crashes, overrun
leases, lost activities, dropped exchanges and reloads together; the fault is possible at
every step. A task is cancelled by an operator at most once. The thresholds of
the runtime loop are the smallest in the code's order that leave a round below each and a round at each; one item and one
action give every disposition of a round, and a second driver is what `runtime_doc_cas` adds. Of the twelve materials and twenty
outputs each is wrong in one way or right, and two executions meet in every pair of them. Three memories hold two that
contradict each other and one beside them, which takes the place of one of the two in a channel that reads two rows and is
dropped by the filter of kinds: then a recall holds both sides of the conflict only through their group. The requests for packs repeat an id, an input, both and neither. Four blocks hold a
heading over a heading over a body that crosses a page; three chunks in two channels hold a chunk found twice and a text
found twice. Type invariants are proved, not run (section 5).

Deadlock is checked except in `side_by_side`, `final`, `memory_doc_conflict` and `chunking_doc_levels`, whose executions are finitely many and
really stop when all are answered or the task is closed, and in the runs of `RuntimeLoop`, which stops when
every driver closed the runtime.

## 4. Fairness

Pollers run for ever: `OutboxPoller.run` (`temporal/application/worker.py`) swallows what a poll raises
and sleeps. Workers of Temporal run for ever and an execution activity returns within its
start-to-close timeout. The clocks of backoff and lease advance. In `ControlledCall` a living process
goes on, and its HTTP client has a timeout, so that a stream ends. In `EventStream` the
reconnect timer of the client fires and a request that was sent is answered or fails; the writers of the
task, the user, dropped connections and reloads are not fair. In `RuntimeLoop` the driver goes on, the attempts, reconciliations and
results that were started end, and the delivery of one event is acknowledged or given up in the end (Temporal limits the
attempts of an activity): strong fairness, because each lost acknowledgement starts the round again; nobody has to
answer a question or to cancel. In `FinalSynthesis` a model call ends with an answer or an error (its HTTP client has a
timeout), and a living process goes on. Nothing is assumed of
users, planner, operators, late activities, the deadline, Bifrost or the bridge. No fairness
obliges a poller to claim one particular row; `EverythingSettles` holds all the same
because claimed rows settle and only finitely many remain. `TaskCreation`, `GoalPlanning`,
`ContextPack` and `MemoryStore` state safety only: whether a client, a supervisor or a caller tries again is decided outside `src`.

## 5. Proofs

`TaskCreationProofs` proves for any number of requests, users, keys, conversations and lost executions: `TypeCorrect`,
`KeysMakeOneTask`, `AnswersAreSafe`, `NumbersInOrder`, `ConflictsAreRetryable`. The invariant `IInv` joins what
the tables say of each other (`OneTaskPerKey`, `Numbered`) with `Progress` (an execution under way has left nothing in
the tables, the number it read is at most one ahead of its conversation, and one that was beaten has a winner)
and `Answered` (behind each answer there is a row). Numbers stay without gap because a number
that was read and is not taken is still the next one (`StoredNumber`).

`OutboxProofs` proves for any set of messages and publishers, any attempt
bound, batch size and number of faults: `TypeCorrect`, `PublishedTruthful`, `DeadJustified`,
`SettledIsFinal`, `ClaimExclusive` and `OutboxIsChannel` (the outbox implements the
channel). The properties are not inductive as they stand. The invariant `IInv` adds: a poll
that reports "sent" has its message delivered; the count a publisher read is never ahead of the table; only
rows that were written are in a batch. The refinement proof maps each action to a step of the channel or a stutter.

`TaskExecutionProofs` proves for any number of attempts, attempts per run, publishers and faults:
`TypeCorrect`, `PlanNeverFollowsCancel` (with: a cancel in the log means the status is no longer one from which
a plan is activated), `OutcomeIsFinal`, `OneChild` and `RootClosesLast` (with: a root that is committing or has
committed has a status compatible with it, and a task whose root started exists). Steps of
the composed outbox preserve the outbox invariant by the lemmas of `OutboxProofs`,
used through INSTANCE; frame lemmas say which actions touch which variable, so that each
invariant's proof looks only at the actions that can disturb it. Three more results each rest on an invariant of their own:

* `NobodyIsOrphaned`: `CalmInv` says of a task without a fault and without a cancellation of its root that no activity is
  late and that each RUNNING attempt is being worked on (`AtWork`); `NoOrphanWithoutFault` says so of closed roots only.
* `SignalIsSeen`: `SignalInv` says that a delivered signal has its row and its root, and that an open root whose log holds
  a cancellation it has not read will read it or is ending (`Wakeful`).
* `LifecycleImplemented`: each step of the composition is a step of `TaskLifecycle` or a stutter. The steps that commit need to
  know why they were decided (`Justified`): a root ends FAILED only when the deadline passed, a child is cancelled
  only when the cancellation was granted, and the same holds of activities that commit late.

`GoalPlanningProofs` proves for any number of supervisors, attempts, goals, drafts and crashes: `TypeCorrect`,
`TablesAgree`, `AnswersHold`, `VersionFences`, `QuestionOrPlan`, `ReplaysAccepted`. Two invariants need each
other: the rows are consistent (`RowInv`: goals are unique by attempt, goal and version; the active plan rests
on a stored goal whose execution ended the plan's attempt; a task that is PLANNING has neither a question nor
a plan) because an execution knows at each step that what it did before is still stored (`ExecutionTrue`), and
that knowledge lasts because rows are never taken back (`Kept`). `PlanCanFinish`: the search for cycles is a
recursive function, so the proof first shows that its recursion has a solution (`EveryNumber`: no least number without
one), then that an item the search does not refuse lies on no walk that comes back (`WalksBack`), and last that only drafts
that passed are stored (`PlansSound`).

`EventStreamProofs` proves for any number of faults, reloads and snapshots: `TypeCorrect`, `CursorsNeverAhead`,
`ResumeSkipsNothing`, `TerminalNeverLies`, `TerminalStays`. The invariant adds what is under way: frames, snapshots and
the answer of the cancel button each tell of a past moment of the task, and the moments that matter
last, because the log only grows and a terminal status is never left.

`ControlledCallProofs` proves for any number of executions, calls, requests on the last hop, reservations, usages and
crashes: `TypeCorrect`, `SentOnce`, `CallAndBudget`, `PaidInFull`, `LedgerAlwaysBalances` and `CallsAreEgress` (calls
implement `OneShotEgress`). The invariant links each call to the one execution that inserted it (`CallInv`,
`RunInv`: an execution between its two transactions holds a SENDING call and a CONSUMING reservation), each request
that passed admission to the permit it used up (`HopInv`, `PassedOnce`: no action takes a used permit back to
READY, because only an execution that is still issuing makes one), and a reported usage to the request that was posted
for it (`UsageInv`). The ten actions that leave an execution with the call it holds share one lemma (`HeldStep`),
the steps of the last hop another (`HopMovesInv`). The balance of the ledger is no induction: an invariant lists
the entries of a reservation at each point of its life, three at most, and `TotalUnfolds` unfolds their sum.

Of `ContextPack` it proves, for any number of callers and invalidations and any requests: `PackTypeCorrect`,
`StoredIsConsumed`, `ConsumedStays`, `PackFits`. `ConsumedIsStored` is not inductive: between the read of a row and its commit others write
it. `ReadTrue` says what a caller may still rely on (the row is there, with the request it declared, and a row it read as
consumed says when), `Grows` that every transaction keeps it so, and `VoidsReady` that only a ready row is being taken back.

`PackFits` says of every stored pack what `PackIsWithinBudget` says. Its invariant is short (`Assembled`: a pack that is stored, or
about to be, was assembled from a request that fits its window); the work is `SelectionFits`, about the selection of
items as a function. Each loop of `select_context_items` is a recursive function along a sequence, and has a lemma with
what holds after `n` turns: `DedupedAre` (one item per content, the first, and the mandatory ones stay first),
`MandatoryAreFound`, `ElasticAreRanked` (the sort takes every elastic item to a place of its own, in order), `Choosing`
(what a bucket has left and what it holds add up to its limit, and an item that was passed over did not fit).
`SharesFit` bounds the sum of five shares that are rounded down; `WithinBudget` adds them to the mandatory tokens.
Sums over sequences rest on `TokensAppend`, `TokensGrow` and `TokensOfFirst`. Two steps serve all of these: `StepByStep`, which
says what a recursive function along a sequence keeps, and `EveryPlaceIsTaken`, that counting who comes before whom
sorts.

Of `MemoryStore` it proves, for any proposals, corrections and recalls: `StoreTypeCorrect`, `ContradictionMarked`,
`RecallDefined`. `StoreInv` says that each row is one the code writes and points back only, and that there is room for the writes
under way (`Room`). The mark of a contradiction is the work of two transactions: `Marks` says that a proposal gets its
mark when it is planned, `Lasts` that no later command takes it away.

`RuntimeProofs` proves of `RuntimeLoop`, for any thresholds, run lengths and numbers of attempts: `LoopTypeCorrect`, and in two steps what the
loop promises. First, for any number of drivers, `CasKeepsRowReadable` and `CasHoldsConvergence`: if `upsert` compared and swapped,
as it says, the stored row could always be read back and a forced decision to converge would stand. Then
`OneDriverIsCas`: with one driver it does, because nobody else writes the row (`AloneIsCurrent`). Together, `RowStaysReadable` and
`ConvergenceIsHeld`. `ClosedIsQuiet` needs `CloseInv`: a driver that decided to close found the task ended with nothing
under way, and nothing starts afterwards. With two drivers these three fail (section 6), so one driver is a hypothesis
of the theorems (`OneDriver`) and not of the module. `Knows` says that the state a driver read is the row while no other has written.

Of `Retrieval` it proves, for any lists, scores and texts: `FusionSorts` (`rrf` answers candidates, best first) and `BestSurvive`
(`BestIsKept`). The invariant (`RankInv`) only types what the functions hand on; the argument is `UniqueChunksAre`
(each chunk once, where it was first met, with the best of its copies), `BestOfTextIs` (for each text one whom none with that text
beats) and `KeptGoesOn`, that the last loop keeps an order it is given.

Of `Chunking` it proves, for any documents and limits, `ChunksStayBounded` (`ChunksAreBounded`). The invariant (`ChunkInv`) says what each
function hands to the next as the set its values belong to, and the limits are part of the sets: a `Parent` is within its
limit, or one block, or a group of atomic blocks; a `Child` is within its limit apart from its overlap, or one sentence,
or one atomic block. Each loop has an invariant of its own, proved a step at a time by `OneAfterTheOther`: of the tree, that the open sections
are sections and that after a heading one is open (`TreeWork`, `OpenSections`), so that no block is added to a group of atomic blocks; of the groups of a
parent, that only a group of one block exceeds the limit (`Group`); of the children, that what is collected for the next child
is within the limit (`Chunked`); of the parts of a paragraph, that each is within the limit or one sentence (`Part`, `Cut`). That the share of a
part is rounded does not matter: the sentence that reaches the limit is in the next part.

`BlocksAreIndexed` (`EveryBlockIsIndexed`) needs what the loops do with all the blocks together, and an invariant of its own,
`IndexInv`. Three facts are handed from function to function. First, which blocks are in hand, each in one place: `Once` says
that the sequences of blocks of the nodes under work share no block and make up a given set. A block that is visited leaves
those to come and joins the open sections or the nodes (`VisitKept`, `TreeOfKept`); cutting a node into units and groups of units
keeps `Once` (`UnitsOnce`, `GroupsOnce`, `ParentsOnce`). Second, under which headings: the stack of open sections is the set
`HeadingsOver`, in order, at every place of the document. A heading closes what is not above it (`HeadingsChange`,
`PoppedIs`), another block changes nothing (`HeadingsStay`), so what is filed under the open section is filed where it
belongs (`VisitFiled`, `TreeOfFiled`), and its page is within those of its node (`PagesCover`). Third, what is told: the
texts of the children, one after the other and without their overlaps, are the text of the parent (`Tells`), through the parts of a
large paragraph (`PartsTell`), a large block (`LargeTells`) and the blocks that are collected for the next child (`TakeBlockTells`,
`ChildrenTell`). The theorem assumes that no two blocks of a document have one id (`ChunkingConfig`): the code keeps blocks by
their ids, and a canonical document computes them to be stable and its own (`compute_block_id`).

`FinalSynthesisProofs` proves for any number of executions and any materials, outputs and catalog: `TypeCorrect` and
`SynthesisIsEpisode` (finalization implements `FinalEpisode`). The digest of a commit covers its decision
(`DigestCoversDecision`), so an execution whose commit was a replay answers the decision of the row (`KnowsRow`); each step is an
advance of the episode along `LegalMoves`, its commit, its answer, or nothing to it. `FactsAreSupported` and
`CompletenessIsEarned` need no history: a published result rests on a candidate that passed validation, citation and decision, and
their checks together exclude an unsupported fact and an unearned COMPLETE, for any materials and any answers of the models.

Assumptions: `CreationAssumption`, `OutboxAssumption`, `ExecutionAssumption`, `PlanningAssumption`,
`ControlledCallAssumption`, `EventStreamAssumption`, `RuntimeLoopAssumption`, `ContextPackAssumption`, `NoPackAssumption`, `MemoryStoreAssumption`, `RankConstants`, `ChunkingConfig`,
`FinalMaterialsAssumption` and
`FinalSynthesisAssumption` on the constants (bounds are naturals, absent values are no rows, materials and requests are well
formed), which TLC evaluates in every run. The digests of keys and requests are taken as collision-free.

Proofs about recursive functions and about finite sets use no theorem of induction (those of the library take an operator as
parameter, which the installed provers do not instantiate): they take the least element of a set of counterexamples
(`LeastOf`, from `WFMin` and `NatLessThanWellFounded`).

Every safety invariant and action property of the passing runs is stated by a theorem. Only model-checked is
liveness (`EverythingSettles`, `CancelConverges`, `DeadlineConverges`, `CallsEnd`, `EndIsShown`, `EventsArrive`,
`StalledTaskEnds`, `CancelClosesRuntime`, `EverySynthesisEnds`), for liveness under fairness is beyond the prover. Some theorems state
properties that are in no configuration, such as `ClaimExclusive`, `AnswersHold` and `CallAndBudget`: they hold for every instance.

## 6. Abstractions and observations

* `claim_next_attempt` may commit while its answer is lost; the retry then claims the next
  attempt and the first stays RUNNING. The model has this behaviour, so `NoOrphanWithoutFault` speaks of
  runs without a fault. A Temporal cancellation while the child awaits its terminal commit leaves an
  attempt RUNNING in the same way.
* A failure of the root that is not a cancellation leaves the task in an open status; nothing in `src`
  repairs it. The liveness properties exclude it explicitly.
* The activation of a plan has no version fence: a plan made for an older goal can be activated after a newer
  goal was stored.
* After a reload the client takes the first event for a gap and asks for a snapshot. The window of 256 events of one
  replay is not bounded in the model.
* The desktop draws a new idempotency key and a new conversation identifier for each click
  (`src/desktop/src/renderer/index.ts:185`), and `load_conversation` answers NOT_FOUND for a conversation that
  nobody has created; `src` creates none.
* The expiry of an idempotency row (`expires_at`) is stored and never read: a key is spent for ever, and the model has no expiry.
* Versions of permits and calls are compared by the code but never updated; the comparison is left out.
* Input validation, digests, formatting, logging, telemetry and audit rows are left out.
* The retry policy (`retry_policy.py`) has no caller in `src`.

Runtime loop:

* `RUNTIME_DEADLOCK_DETECTED` is raised while a replan or a final attempt runs and nothing is ready (`runtime_decision.py`): the
  driver has to ask again, as the model's does.
* A round whose commit was not acknowledged is executed and counted again: the counters are not tied to an event.
* After a failed replan the same grant starts another one, because `convergence_action` stays REPLAN.
* A task that ended with an unknown effect still gets START_REPLAN, RETRY_PLAN_ITEM or FAIL_TASK until the effect is reconciled.
* Progress and regression in one run of actions raise after the actions were executed.
* With two drivers `CloseIsSafe` and `ConvergenceHolds` fail too; nothing in `src` says that there is only one.

Final synthesis:

* `min_citations` of an EVIDENCE_SUPPORT criterion is never compared with the number of its citations.
* A claim that no block shows counts as substantive; the citations of a claim may come from a supported entry other than
  the one with its text.
* An accepted candidate can still raise: no core criterion, a format other than Markdown, sizes, more than 16 citations of a
  criterion.
* A retry that follows a lost answer, with another candidate, ends as FINAL_COMMIT_CONFLICT, although the task has its result.
* The writer looks at no cancellation and no deadline. `final_episode.py:179` says that a cancellation that came first makes
  the commit fail; `cancel_vs_commit_terminal`, `final_commit_block`, `deadline_verdict`, `snapshot_rebuild_verdict` and
  `classify_model_call_resumption` have no caller in `src`.

Context packs and memory:

* A correction through `validate_and_commit` never makes the old memory SUPERSEDED, as the comment of `memory_models.py:3-5` says.
* The first memory of a conflict does not receive the group of the conflict, so that a recall of the second may not show it (finding
  `memory_doc_conflict`). `RecallIsAsDefined` says of memories that have the same group only that they are shown together.
* A recall limits each channel before it filters by kind and validity: a valid memory can be missed with `truncated` false.
  `pinned` changes neither rank nor truncation.
* `revise` and `forget` look at no state: a forgotten memory can be revised back. `is_legal_state_transition` has no caller.
* Two merges at once lose a provenance, two writes at once store a memory twice.
* The canonical hash joins its parts without a separator, so different memories share a hash.
* A unique constraint makes one pack per task, attempt, digest and policy: after an invalidation the same input cannot be
  assembled again, and the loser of two assemblers gets an error although the docstring of `context_pack_service` has both assembled.
* A consumption that commits between the read and the commit of an invalidation is overwritten; `ConsumedStaysConsumed` says
  that nothing else takes a consumed pack back. Two consumptions at once both report a fresh one.
* Duplicates go before a pack is filled, so of two candidates with one content, in different buckets, only the first is
  tried: the content is left out when the first does not fit, even where the second would have. `PackIsWithinBudget` speaks of the
  first.
* Nobody in `src` calls `obtain` or invalidates a pack, and forgetting a memory does not touch the packs that hold it.

Chunking and retrieval (called by tests only):

* A heading that skips a level gets a warning and no logical node, against the docstring of `build_document_tree` (finding
  `chunking_doc_levels`). `EveryBlockIsIndexed` files a block under the headings the document has. Warnings are left out.
* `child_target_tokens` and `parent_target_tokens` are never read, although the docstring of `chunking.py` says that children
  accumulate up to the target.
* The overlap is added beyond `child_max_tokens`, and its text comes from blocks that `block_refs` does not name.
* All parents of a divided section carry the pages of the whole section; a group of atomic blocks has no limit.
* A block without a token count raises KeyError in `make_parent` and counts as zero elsewhere.
* `_dedup_score` takes the largest of scores of different scales, so a lexical score beats fusion; its docstring says that
  rerank and fusion come first. `source` of a fused candidate is that of the first list, not of the best rank.

Findings of other parts that no run repeats (the properties that show them would have to be violated; the models above
have these behaviours):

* The root compares the clock with the deadline before it reads new events, so a task whose log holds TASK_CANCELLED can end
  FAILED (`agent_task.py:145`; `cancel_decision.py:5-6` says otherwise).
* A usage above the reservation raises an exception that nothing catches: the call stays SENDING and the reservation CONSUMING
  (`policy_adapter.py:421`, `budget_ledger.py:68`).
* A broken connection between bridge and provider reaches the gateway as a 502 and is recorded as FAILED although the
  provider may have executed the call (`apps.py:175`, `stream_normalizer.py:5`).
* A slow answer of the cancel button overwrites the label of a task whose end is already shown (`index.ts:212`, `view.ts:5`).
* The question of a blocked goal lives 30 minutes and the default deadline of a task is 10 minutes away, so such a goal is
  refused and the user is never asked (`planning.py:290`, `goal_gate.py:4`).

## 7. Findings

* `runtime_doc_cas`: `upsert` says that the row is overwritten by compare-and-swap on `row_version`. The version is compared when
  the row is read; the write at the commit of the caller compares nothing, so of two drivers the later commit lands on a
  round it never saw (`runtime_state_repository.py:170`).
* `memory_doc_conflict`: the docstring of `memory_recall_service.py` says that neither side of a conflict is silently dropped, for the
  siblings of a conflict group are added (line 5). Only the later memory of a conflict gets the group
  (`memory_write_service.py:163`), so the earlier is nobody's sibling; a channel that reads a row of another kind in its place
  leaves it out, and `truncated` is false.
* `chunking_doc_levels`: the docstring of `build_document_tree` says that a logical node is added where a level is skipped
  (`chunking.py:308`). The code adds the warning only (line 364), and the heading becomes a child of the section that is open.

## 8. Not modelled, and plan

Not modelled: documents, parse runs and reading order (tables of legal transitions and geometry; no repository and no caller in
`src`); `evaluate_sufficiency` and the extraction of query features; identity and access (sessions are read, no rule
depends on an order of steps that `src` contains); the audit log (append only); the HTTP routes, settings and composition;
the secret broker client; the payload codec and worker versioning; schema and migrations, except where a constraint takes part
in an action; canary programs and maintenance tools; `final_gold_gate` and the readiness reports (evaluations without state).

Done: `Outbox`, `TaskExecution`, `GoalPlanning`, `EventStream`, `TaskCreation`, `ControlledCall`, `ContextPack` and `FinalSynthesis`
with proofs, and so are `RuntimeLoop`, `MemoryStore`, `Retrieval` and `Chunking`. Left, in this order:

1. The composition of `ContextPack` with the first transaction of `ControlledCall`, and of `FinalSynthesis` with `RuntimeLoop`, once
   `src` contains the code that connects them.
2. Sessions and token expiry (`modules/iam`).

A run is added only for a question of its own: a new component joins a composed instance.
