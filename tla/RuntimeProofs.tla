---------------------------- MODULE RuntimeProofs ----------------------------
(* Theorems about the agent runtime and what it reads: RuntimeLoop, the loop  *)
(* that decides and acts; Retrieval, which candidates are kept; and Chunking, *)
(* what a document is cut into.  They are for any number of drivers and for   *)
(* any decisions, candidates and documents.  The three share nothing but the  *)
(* lemmas about numbers, sequences and sorting that come first.               *)
(*                                                                            *)
(*   LoopInv   what a driver of the loop knows of the row while it acts       *)
(*   ChunkInv  what each function that makes the index hands to the next:     *)
(*             that every block fits                                          *)
(*   IndexInv  the same, for what is found: which blocks of the document the  *)
(*             functions have in hand, each of them once, under which heading *)
EXTENDS RuntimeLoop, Retrieval, Chunking, FiniteSetTheorems,
        SequenceTheorems, WellFoundedInduction, TLAPS

-----------------------------------------------------------------------------
(* A set of numbers has a least one *)

Below == {p \in Nat \X Nat : p[1] < p[2]}

LEMMA LeastOf ==
  ASSUME NEW S, S \subseteq Nat, S # {}
  PROVE  \E x \in S : \A y \in S : x <= y
<1>1. IsWellFoundedOn(Below, Nat)
  <2>1. OpToRel(<, Nat) = Below
    BY DEF OpToRel, Below
  <2> QED
    BY <2>1, NatLessThanWellFounded
<1>2. PICK x \in S : \A y \in S : ~ (<<y, x>> \in Below)
  BY <1>1, WFMin
<1>3. \A y \in S : x <= y
  <2>1. SUFFICES ASSUME NEW y \in S, y < x PROVE FALSE
    OBVIOUS
  <2>2. <<y, x>> \in Below
    BY <2>1 DEF Below
  <2> QED
    BY <1>2, <2>2
<1> QED
  BY <1>3

LEMMA LeastExists ==
  ASSUME NEW S, S \subseteq Nat, S # {}
  PROVE  Min(S) \in S /\ \A y \in S : Min(S) <= y
BY LeastOf DEF Min

-----------------------------------------------------------------------------
(* Recursion along a sequence *)

\* What holds at 0, and at each number when at the one before it, holds at all of them.
LEMMA OneAfterTheOther ==
  ASSUME NEW N \in Nat, NEW S, 0 \in S, \A n \in 1..N : n - 1 \in S => n \in S
  PROVE  \A n \in 0..N : n \in S
<1> DEFINE Left == {n \in Nat : n \in 0..N /\ n \notin S}
<1>1. SUFFICES ASSUME Left # {} PROVE FALSE
  OBVIOUS
<1>2. PICK n \in Left : \A m \in Left : n <= m
  <2> Left \subseteq Nat
    OBVIOUS
  <2> HIDE DEF Left
  <2> QED
    BY <1>1, LeastOf
<1>3. n # 0 /\ n \in 1..N /\ n - 1 \in 0..N /\ n - 1 \in Nat
  OBVIOUS
<1>4. n - 1 \in S
  BY <1>2, <1>3
<1> QED
  BY <1>3, <1>4

Runs(f, N, R, base, step) ==
  f \in [0..N -> R] /\ f[0] = base /\ \A n \in 1..N : f[n] = step[<<n, f[n - 1]>>]

\* A function can be defined by what it is at 0 and by how it goes on from each number to
\* the next.
LEMMA StepByStep ==
  ASSUME NEW N \in Nat, NEW R, NEW base \in R, NEW step \in [(1..N) \X R -> R]
  PROVE  \E f : Runs(f, N, R, base, step)
<1> DEFINE S == {m \in 0..N : \E f : Runs(f, m, R, base, step)}
<1>1. 0 \in S
  <2> DEFINE f == [n \in 0..0 |-> base]
  <2>1. f \in [0..0 -> R] /\ f[0] = base
    OBVIOUS
  <2>2. \A n \in 1..0 : FALSE
    OBVIOUS
  <2> HIDE DEF f
  <2>3. Runs(f, 0, R, base, step)
    BY <2>1, <2>2 DEF Runs
  <2> QED
    BY <2>3
<1>2. ASSUME NEW m \in 1..N, m - 1 \in S PROVE m \in S
  <2>1. PICK f : Runs(f, m - 1, R, base, step)
    BY <1>2
  <2> DEFINE g == [n \in 0..m |-> IF n = m THEN step[<<m, f[m - 1]>>] ELSE f[n]]
  <2>2. m - 1 \in 0..(m - 1) /\ f[m - 1] \in R /\ step[<<m, f[m - 1]>>] \in R
    BY <2>1 DEF Runs
  <2>3. g \in [0..m -> R] /\ g[0] = base
    BY <2>1, <2>2 DEF Runs
  <2>4. ASSUME NEW n \in 1..m PROVE g[n] = step[<<n, g[n - 1]>>]
    <3>1. CASE n = m
      <4>1. m - 1 \in 0..m /\ m - 1 # m /\ m \in 0..m
        OBVIOUS
      <4> QED
        BY <3>1, <4>1
    <3>2. CASE n # m
      <4>1. n \in 1..m - 1 /\ n - 1 \in 0..m /\ n - 1 # m
        BY <3>2
      <4> QED
        BY <2>1, <4>1 DEF Runs
    <3> QED
      BY <3>1, <3>2
  <2> HIDE DEF g
  <2>5. Runs(g, m, R, base, step)
    BY <2>3, <2>4 DEF Runs
  <2> QED
    BY <2>5
<1>3. N \in S
  <2> HIDE DEF S
  <2>1. \A n \in 0..N : n \in S
    BY <1>1, <1>2, OneAfterTheOther
  <2> QED
    BY <2>1
<1> QED
  BY <1>3

-----------------------------------------------------------------------------
(* A stable sort *)

\* A strict order of all of S, as a set of pairs.
Orders(R, S) ==
  /\ \A i \in S : <<i, i>> \notin R
  /\ \A i, j \in S : i # j => <<i, j>> \in R \/ <<j, i>> \in R
  /\ \A i, j, k \in S : <<i, j>> \in R /\ <<j, k>> \in R => <<i, k>> \in R

\* The place of everyone is how many come before.
PlaceIn(R, S) == [i \in S |-> Cardinality({j \in S : <<j, i>> \in R}) + 1]

Places(R, S, place) ==
  /\ Cardinality(S) \in Nat
  /\ place \in [S -> 1..Cardinality(S)]
  /\ \A i, j \in S : <<i, j>> \in R => place[i] < place[j]
  /\ \A i, j \in S : place[i] = place[j] => i = j
  /\ \A n \in 1..Cardinality(S) : \E i \in S : place[i] = n

\* Counting who comes before gives everyone of a strict order a place, and every place to
\* someone.
LEMMA EveryPlaceIsTaken ==
  ASSUME NEW S, IsFiniteSet(S), NEW R, Orders(R, S),
         NEW place, place = PlaceIn(R, S)
  PROVE  Places(R, S, place)
<1> DEFINE N == Cardinality(S)
           Ahead(i) == {j \in S : <<j, i>> \in R}
<1>1. N \in Nat
  BY FS_CardinalityType
<1>2. ASSUME NEW i \in S
      PROVE  IsFiniteSet(Ahead(i)) /\ Cardinality(Ahead(i)) \in 0..N - 1
  <2>1. Ahead(i) \in SUBSET (S \ {i})
    BY DEF Orders
  <2>2. IsFiniteSet(S \ {i}) /\ Cardinality(S \ {i}) = N - 1
    BY FS_RemoveElement
  <2> HIDE DEF Ahead
  <2>3. IsFiniteSet(Ahead(i)) /\ Cardinality(Ahead(i)) <= N - 1
    BY <2>1, <2>2, FS_Subset
  <2>4. Cardinality(Ahead(i)) \in Nat
    BY <2>3, FS_CardinalityType
  <2> QED
    BY <1>1, <2>3, <2>4
<1>3. ASSUME NEW i \in S, NEW j \in S, <<i, j>> \in R
      PROVE  Cardinality(Ahead(i)) < Cardinality(Ahead(j))
  <2>1. Ahead(i) \in SUBSET Ahead(j) /\ i \in Ahead(j) /\ i \notin Ahead(i)
    BY <1>3 DEF Orders
  <2> HIDE DEF Ahead
  <2>2. Cardinality(Ahead(i)) \in Nat /\ Cardinality(Ahead(j)) \in Nat /\ IsFiniteSet(Ahead(j))
    BY <1>2
  <2>3. Cardinality(Ahead(i)) <= Cardinality(Ahead(j)) /\ (Cardinality(Ahead(j)) = Cardinality(Ahead(i)) => Ahead(j) = Ahead(i))
    BY <2>1, <2>2, FS_Subset
  <2> QED
    BY <2>1, <2>2, <2>3
<1>4. place = [i \in S |-> Cardinality(Ahead(i)) + 1]
  BY DEF PlaceIn
<1> HIDE DEF Ahead, N
<1>5. place \in [S -> 1..N]
  BY <1>1, <1>2, <1>4
<1>6. \A i, j \in S : <<i, j>> \in R => place[i] < place[j]
  BY <1>2, <1>3, <1>4
<1>7. \A i, j \in S : place[i] = place[j] => i = j
  <2>1. SUFFICES ASSUME NEW i \in S, NEW j \in S, place[i] = place[j], i # j PROVE FALSE
    OBVIOUS
  <2>2. place[i] < place[j] \/ place[j] < place[i]
    BY <1>6, <2>1 DEF Orders
  <2>3. place[i] \in 1..N
    BY <1>5
  <2> QED
    BY <1>1, <2>1, <2>2, <2>3
<1>8. \A n \in 1..N : \E i \in S : place[i] = n
  <2>1. place \in Injection(S, 1..N)
    BY <1>5, <1>7 DEF Injection, IsInjective
  <2>2. IsFiniteSet(1..N) /\ Cardinality(1..N) = N
    BY <1>1, FS_Interval
  <2>3. place \in Surjection(S, 1..N)
    BY <2>1, <2>2, FS_Injection DEF N
  <2> QED
    BY <2>3 DEF Surjection
<1> QED
  BY <1>1, <1>5, <1>6, <1>7, <1>8 DEF N, Places

-----------------------------------------------------------------------------
(* The counters *)

Thresholds ==
  /\ FORCE_CONVERGE_AT \in Nat /\ EPOCH_CONVERGE_AT \in Nat /\ TASK_CONVERGE_AT \in Nat
  /\ MAX_REPLAN_PER_TASK \in Nat

LEMMA ThresholdsAreNumbers == Thresholds
BY RuntimeLoopAssumption DEF Thresholds

LEMMA BumpTypes ==
  ASSUME NEW t \in Nat, NEW n \in 0..t
  PROVE  Bump(n, t) \in 0..t /\ n <= Bump(n, t)
BY DEF Bump

LEMMA StallTypes ==
  ASSUME NEW np \in NoProgress
  PROVE  /\ AfterStall(np) \in NoProgress
         /\ AfterStall(np).episode_replan_used = np.episode_replan_used
         /\ AfterStall(np).task_replan_count = np.task_replan_count
         /\ Forced(np) => Forced(AfterStall(np))
<1> DEFINE c == Bump(np.consecutive, FORCE_CONVERGE_AT)
           e == Bump(np.epoch, EPOCH_CONVERGE_AT)
           t == Bump(np.task, TASK_CONVERGE_AT)
           n == AfterStall(np)
<1>1. /\ c \in 0..FORCE_CONVERGE_AT /\ np.consecutive <= c
      /\ e \in 0..EPOCH_CONVERGE_AT /\ np.epoch <= e
      /\ t \in 0..TASK_CONVERGE_AT /\ np.task <= t
  BY ThresholdsAreNumbers, BumpTypes DEF NoProgress, Thresholds
<1>2. n = [np EXCEPT !.consecutive = c, !.epoch = e, !.task = t]
  BY DEF AfterStall
<1> HIDE DEF c, e, t, n
<1>3. /\ n \in NoProgress /\ n.consecutive = c /\ n.epoch = e /\ n.task = t
      /\ n.episode_replan_used = np.episode_replan_used
      /\ n.task_replan_count = np.task_replan_count
  BY <1>1, <1>2 DEF NoProgress
<1>4. Forced(np) => Forced(n)
  BY <1>1, <1>3, ThresholdsAreNumbers DEF Forced, Thresholds, NoProgress
<1> QED
  BY <1>3, <1>4 DEF n

LEMMA MarkTypes ==
  ASSUME NEW np \in NoProgress, NEW alternative \in BOOLEAN, replan_permitted(np, alternative)
  PROVE  /\ mark_replan_used(np) \in NoProgress /\ mark_replan_used(np).episode_replan_used
         /\ mark_replan_used(np).task_replan_count \in 1..MAX_REPLAN_PER_TASK
<1> DEFINE t == np.task_replan_count + 1
           n == mark_replan_used(np)
<1>1. t \in 1..MAX_REPLAN_PER_TASK /\ t \in 0..MAX_REPLAN_PER_TASK
  BY ThresholdsAreNumbers DEF replan_permitted, NoProgress, Thresholds
<1>2. n = [np EXCEPT !.episode_replan_used = TRUE, !.task_replan_count = t]
  BY DEF mark_replan_used
<1> HIDE DEF t, n
<1>3. n \in NoProgress /\ n.episode_replan_used = TRUE /\ n.task_replan_count = t
  BY <1>1, <1>2 DEF NoProgress
<1> QED
  BY <1>1, <1>3 DEF n

LEMMA ProgressTypes ==
  ASSUME NEW np \in NoProgress
  PROVE  AfterProgress(np) \in NoProgress
<1>1. 0 \in 0..FORCE_CONVERGE_AT
  BY ThresholdsAreNumbers DEF Thresholds
<1>2. AfterProgress(np) = [np EXCEPT !.consecutive = 0, !.episode_replan_used = FALSE]
  BY DEF AfterProgress
<1> QED
  BY <1>1, <1>2 DEF NoProgress

\* What a round makes of the counters: a replan with its budget, or none.
MergedWell(np, disposition, m) ==
  /\ m.np \in NoProgress /\ m.convergence_action \in Convergence
  /\ m.convergence_action = "REPLAN" =>
       m.np.episode_replan_used /\ m.np.task_replan_count \in 1..MAX_REPLAN_PER_TASK
  /\ disposition # "PROGRESS" /\ Forced(np) => m.convergence_action = "CONVERGE"

LEMMA MergedTypes ==
  ASSUME NEW np \in NoProgress, NEW disposition, NEW alternative \in BOOLEAN
  PROVE  MergedWell(np, disposition, Merged(np, disposition, alternative))
<1>1. PICK n \in NoProgress : n = AfterStall(np) /\ (Forced(np) => Forced(n))
  BY StallTypes
<1>2. Merged(np, disposition, alternative) =
        IF disposition = "PROGRESS"
        THEN [np |-> AfterProgress(np), convergence_action |-> "CONTINUE_LOOP"]
        ELSE IF ~Forced(n) /\ ~ReplanEligible(n, disposition)
        THEN [np |-> n, convergence_action |-> "CONTINUE_LOOP"]
        ELSE IF ~Forced(n) /\ replan_permitted(n, alternative)
        THEN [np |-> mark_replan_used(n), convergence_action |-> "REPLAN"]
        ELSE [np |-> n, convergence_action |-> "CONVERGE"]
  BY <1>1 DEF Merged
<1>3. AfterProgress(np) \in NoProgress
  BY ProgressTypes
<1>4. MergedWell(np, "PROGRESS", [np |-> AfterProgress(np), convergence_action |-> "CONTINUE_LOOP"])
  BY <1>3 DEF MergedWell, Convergence
<1>5. ~Forced(n) => MergedWell(np, disposition, [np |-> n, convergence_action |-> "CONTINUE_LOOP"])
  BY <1>1 DEF MergedWell, Convergence
<1>6. ~Forced(n) /\ replan_permitted(n, alternative) =>
        MergedWell(np, disposition, [np |-> mark_replan_used(n), convergence_action |-> "REPLAN"])
  BY <1>1, MarkTypes DEF MergedWell, Convergence
<1>7. MergedWell(np, disposition, [np |-> n, convergence_action |-> "CONVERGE"])
  BY <1>1 DEF MergedWell, Convergence
<1> QED
  BY <1>2, <1>4, <1>5, <1>6, <1>7

-----------------------------------------------------------------------------
(* The row a round writes *)

LEMMA WrittenFields ==
  ASSUME NEW old \in LoopState, NEW base \in LoopState, NEW new \in LoopState
  PROVE  /\ Written(old, base, new) \in LoopState
         /\ base = old => Written(old, base, new) = new
<1> DEFINE w == Written(old, base, new)
           Pick(o, b, n) == IF n # b THEN n ELSE o
           Counters == [c \in DOMAIN new.np |-> Pick(old.np[c], base.np[c], new.np[c])]
<1>1. DOMAIN new = {"np", "convergence_action", "replan_required", "blocking_issue"}
  BY DEF LoopState
<1>2. DOMAIN new.np = {"consecutive", "epoch", "task", "episode_replan_used", "task_replan_count"}
  BY DEF LoopState, NoProgress
<1>3. Counters = [consecutive |-> Counters["consecutive"], epoch |-> Counters["epoch"],
                  task |-> Counters["task"], episode_replan_used |-> Counters["episode_replan_used"],
                  task_replan_count |-> Counters["task_replan_count"]]
  BY <1>2
<1>4. w = [np |-> Counters,
           convergence_action |-> Pick(old.convergence_action, base.convergence_action, new.convergence_action),
           replan_required |-> Pick(old.replan_required, base.replan_required, new.replan_required),
           blocking_issue |-> Pick(old.blocking_issue, base.blocking_issue, new.blocking_issue)]
  BY <1>1 DEF Written
<1>5. Counters \in NoProgress
  <2>1. /\ Counters["consecutive"] \in 0..FORCE_CONVERGE_AT /\ Counters["epoch"] \in 0..EPOCH_CONVERGE_AT
        /\ Counters["task"] \in 0..TASK_CONVERGE_AT /\ Counters["episode_replan_used"] \in BOOLEAN
        /\ Counters["task_replan_count"] \in 0..MAX_REPLAN_PER_TASK
    BY <1>2 DEF LoopState, NoProgress
  <2> HIDE DEF Counters
  <2> QED
    BY <1>3, <2>1 DEF NoProgress
<1>6. w \in LoopState
  <2> HIDE DEF Counters
  <2> QED
    BY <1>4, <1>5 DEF LoopState
<1>7. base = old => w = new
  <2>1. SUFFICES ASSUME base = old PROVE w = new
    OBVIOUS
  <2>2. Counters = new.np
    BY <2>1, <1>2 DEF LoopState, NoProgress
  <2> HIDE DEF Counters
  <2> QED
    BY <1>4, <2>1, <2>2 DEF LoopState
<1> QED
  BY <1>6, <1>7

-----------------------------------------------------------------------------
(* The steps of a driver *)

Results == Outcome \union {Unbound}
Busy == {"reading", "decided", "acting", "writing"}

ActivityPoint == {"idle", "reading", "decided", "acting", "writing", "committed", "raised", "stopped"}

LEMMA IdleTyped == Idle \in Activity /\ Idle.pc = "idle"
<1>1. Baseline \in LoopState
  BY ThresholdsAreNumbers DEF Baseline, LoopState, NoProgress, Convergence, Thresholds
<1>2. <<>> \in Seq(Outcome \union {Unbound})
  OBVIOUS
<1> QED
  BY <1>1, <1>2 DEF Idle, Activity, TaskStatus

LEMMA PointTyped ==
  ASSUME NEW a \in Activity, NEW pc \in ActivityPoint
  PROVE  LET b == [a EXCEPT !.pc = pc]
         IN  b \in Activity /\ b.pc = pc /\ b.base = a.base /\ b.current = a.current
               /\ b.seen = a.seen /\ b.step = a.step
BY DEF Activity, ActivityPoint

\* A driver that begins to read.
Reading(a, s, r, n, b) ==
  [a EXCEPT !.pc = "reading", !.seen = s, !.ready_set_ref = r, !.next_reconcile_at = n,
            !.base = b, !.current = TRUE]

LEMMA DecideTyped ==
  ASSUME NEW a \in Activity, NEW s \in Directive \union Refusal
  PROVE  LET e == [a EXCEPT !.pc = "decided", !.seen = "RUNNING", !.ready_set_ref = FALSE,
                            !.next_reconcile_at = FALSE, !.step = s]
         IN  e \in Activity /\ e.pc = "decided" /\ e.base = a.base /\ e.current = a.current
               /\ e.step = s
BY DEF Activity, TaskStatus

LEMMA StartTyped ==
  ASSUME NEW a \in Activity
  PROVE  LET e == [a EXCEPT !.pc = "acting", !.step = "none"]
         IN  e \in Activity /\ e.pc = "acting" /\ e.base = a.base /\ e.current = a.current
BY DEF Activity

LEMMA RunTyped ==
  ASSUME NEW a \in Activity, NEW n \in Nat, NEW done \in [1..n -> Ended]
  PROVE  LET e == [a EXCEPT !.pc = "writing", !.done = done]
         IN  e \in Activity /\ e.pc = "writing" /\ e.base = a.base /\ e.current = a.current
<1>1. Ended \subseteq Outcome \union {Unbound}
  <2>1. Answers \subseteq Outcome
    BY DEF Answers, Outcome
  <2> QED
    BY <2>1 DEF Ended
<1>2. done \in [1..n -> Outcome \union {Unbound}]
  BY <1>1
<1>3. done \in Seq(Outcome \union {Unbound})
  BY <1>2, SeqDef
<1> QED
  BY <1>3 DEF Activity

LEMMA AgainTyped ==
  ASSUME NEW a \in Activity, NEW b \in LoopState
  PROVE  LET e == [a EXCEPT !.pc = "acting", !.base = b, !.current = TRUE]
         IN  e \in Activity /\ e.pc = "acting" /\ e.base = b /\ e.current = TRUE
BY DEF Activity

LEMMA StaleTyped ==
  ASSUME NEW a \in Activity
  PROVE  LET e == [a EXCEPT !.current = FALSE]
         IN  e \in Activity /\ e.pc = a.pc /\ e.base = a.base /\ e.current = FALSE
BY DEF Activity

\* The first directive that is admitted is admitted.
LEMMA SelectTyped ==
  ASSUME NEW f
  PROVE  /\ Decide(f) \in Directive \union Refusal
         /\ Decide(f) = "CLOSE_RUNTIME" => MayClose(f)
<1> DEFINE admitted == {i \in DOMAIN Priority : Admits(f)[i]}
<1>1. DOMAIN Priority = 1..10 /\ \A i \in 1..10 : Priority[i] \in Directive
  BY DEF Priority, Directive
<1>2. \A i \in 1..10 : Priority[i] = "CLOSE_RUNTIME" => i = 1
  BY DEF Priority
<1>3. Select(f) = IF admitted = {} THEN "RUNTIME_DEADLOCK_DETECTED" ELSE Priority[Min(admitted)]
  BY DEF Select
<1>4. admitted # {} => Min(admitted) \in admitted
  <2>1. admitted \subseteq Nat
    BY <1>1
  <2> HIDE DEF admitted
  <2> QED
    BY <2>1, LeastExists
<1>5. Admits(f)[1] = MayClose(f)
  BY DEF Admits
<1>6. Select(f) \in Directive \union Refusal
  BY <1>1, <1>3, <1>4 DEF Refusal
<1>7. Select(f) = "CLOSE_RUNTIME" => MayClose(f)
  BY <1>1, <1>2, <1>3, <1>4, <1>5
<1> QED
  BY <1>6, <1>7 DEF Decide, Refusal

-----------------------------------------------------------------------------
(* The invariant *)

\* While a driver is at work on a row that is still the one it has read, it has it right.
Knows(d) == drv[d].pc \in Busy /\ drv[d].current => drv[d].base = row

LoopInv == TypeOK /\ \A d \in Driver : Knows(d)

\* One driver becomes another activity, and the row stays.
BecomesActivity(d, a) ==
  /\ drv' = [drv EXCEPT ![d] = a] /\ UNCHANGED row
  /\ a.pc \in Busy /\ a.current => a.base = row
  /\ (drv[d].pc \in Busy => drv[d].current) => (a.pc \in Busy => a.current)

LEMMA BecomesKnows ==
  ASSUME LoopInv, NEW d \in Driver, NEW a \in Activity, BecomesActivity(d, a)
  PROVE  /\ drv' \in [Driver -> Activity] /\ \A e \in Driver : Knows(e)'
         /\ drv'[d] = a /\ \A e \in Driver : e # d => drv'[e] = drv[e]
<1>1. /\ drv' \in [Driver -> Activity] /\ drv'[d] = a
      /\ \A e \in Driver : e # d => drv'[e] = drv[e]
  BY DEF LoopInv, TypeOK, BecomesActivity
<1> QED
  BY <1>1 DEF LoopInv, Knows, BecomesActivity

LEMMA BecomesByPoint ==
  ASSUME LoopInv, NEW d \in Driver, NEW pc \in ActivityPoint \ Busy, Moves(d, pc), UNCHANGED row
  PROVE  \E a \in Activity : BecomesActivity(d, a) /\ a.pc = pc
<1> DEFINE a == [drv[d] EXCEPT !.pc = pc]
<1>1. a \in Activity /\ a.pc = pc
  BY PointTyped DEF LoopInv, TypeOK
<1>2. drv' = [drv EXCEPT ![d] = a]
  BY DEF Moves
<1> HIDE DEF a
<1> QED
  BY <1>1, <1>2 DEF BecomesActivity

LEMMA BecomesIdle ==
  ASSUME NEW d \in Driver, Rests(d), UNCHANGED row
  PROVE  \E a \in Activity : BecomesActivity(d, a) /\ a.pc = "idle"
BY IdleTyped DEF Rests, BecomesActivity, Busy

LEMMA BecomesAgain ==
  ASSUME LoopInv, NEW d \in Driver, RunAgain(d), UNCHANGED row
  PROVE  \E a \in Activity : BecomesActivity(d, a) /\ a.pc = "acting"
<1> DEFINE a == [drv[d] EXCEPT !.pc = "acting", !.base = row, !.current = TRUE]
<1>1. a \in Activity /\ a.pc = "acting" /\ a.base = row /\ a.current = TRUE
  BY AgainTyped DEF LoopInv, TypeOK
<1>2. drv' = [drv EXCEPT ![d] = a]
  BY DEF RunAgain
<1> HIDE DEF a
<1> QED
  BY <1>1, <1>2 DEF BecomesActivity

LEMMA BecomesReading ==
  ASSUME LoopInv, NEW d \in Driver, ReadTask(d)
  PROVE  \E a \in Activity : BecomesActivity(d, a) /\ a.pc = "reading" /\ a.seen = status
<1>1. PICK r \in BOOLEAN, n \in BOOLEAN : r = (item.status = "READY") /\ n = (effect = "RECONCILING")
  OBVIOUS
<1>2. PICK a : a = Reading(drv[d], status, r, n, row)
  OBVIOUS
<1>3. drv' = [drv EXCEPT ![d] = a] /\ UNCHANGED row
  BY <1>1, <1>2 DEF ReadTask, Reading
<1>4. a \in Activity /\ a.pc = "reading" /\ a.base = row /\ a.current = TRUE /\ a.seen = status
  <2>1. drv[d] \in Activity /\ status \in TaskStatus /\ row \in LoopState
    BY DEF LoopInv, TypeOK
  <2>2. r \in BOOLEAN /\ n \in BOOLEAN
    OBVIOUS
  <2> QED
    BY <1>2, <2>1, <2>2 DEF Reading, Activity
<1> QED
  BY <1>3, <1>4 DEF BecomesActivity

LEMMA BecomesDecided ==
  ASSUME LoopInv, NEW d \in Driver, ReadWork(d)
  PROVE  \E a \in Activity : BecomesActivity(d, a) /\ a.pc = "decided" /\ a.step = Decide(Facts(drv[d]))
<1> DEFINE s == Decide(Facts(drv[d]))
           a == [drv[d] EXCEPT !.pc = "decided", !.seen = "RUNNING", !.ready_set_ref = FALSE,
                               !.next_reconcile_at = FALSE, !.step = s]
<1>1. drv' = [drv EXCEPT ![d] = a] /\ UNCHANGED row /\ drv[d].pc = "reading" /\ drv[d] \in Activity
  BY DEF ReadWork, LoopInv, TypeOK
<1>2. s \in Directive \union Refusal
  BY SelectTyped
<1> HIDE DEF s
<1>3. a \in Activity /\ a.pc = "decided" /\ a.base = drv[d].base /\ a.current = drv[d].current /\ a.step = s
  BY <1>1, <1>2, DecideTyped
<1> HIDE DEF a
<1>4. Knows(d)
  BY DEF LoopInv
<1> QED
  BY <1>1, <1>3, <1>4 DEF BecomesActivity, Knows, Busy, s

LEMMA BecomesActing ==
  ASSUME LoopInv, NEW d \in Driver, StartActions(d)
  PROVE  \E a \in Activity : BecomesActivity(d, a) /\ a.pc = "acting"
<1> DEFINE a == [drv[d] EXCEPT !.pc = "acting", !.step = "none"]
<1>1. drv' = [drv EXCEPT ![d] = a] /\ UNCHANGED row /\ drv[d].pc = "decided" /\ drv[d] \in Activity
  BY DEF StartActions, Decided, LoopInv, TypeOK
<1>2. a \in Activity /\ a.pc = "acting" /\ a.base = drv[d].base /\ a.current = drv[d].current
  BY <1>1, StartTyped
<1> HIDE DEF a
<1>3. Knows(d)
  BY DEF LoopInv
<1> QED
  BY <1>1, <1>2, <1>3 DEF BecomesActivity, Knows, Busy

LEMMA BecomesWriting ==
  ASSUME LoopInv, NEW d \in Driver, RunActions(d)
  PROVE  \E a \in Activity : BecomesActivity(d, a) /\ a.pc \in {"writing", "raised"}
<1>0. PICK n \in 0..MaxProposals : \E done \in [1..n -> Ended] :
        drv' = IF Classified(done) /\ drv[d].current
               THEN [drv EXCEPT ![d].pc = "writing", ![d].done = done]
               ELSE [drv EXCEPT ![d].pc = "raised"]
  BY DEF RunActions
<1>1. PICK done \in [1..n -> Ended] :
        drv' = IF Classified(done) /\ drv[d].current
               THEN [drv EXCEPT ![d].pc = "writing", ![d].done = done]
               ELSE [drv EXCEPT ![d].pc = "raised"]
  BY <1>0
<1>2. UNCHANGED row /\ drv[d].pc = "acting" /\ drv[d] \in Activity /\ Knows(d) /\ n \in Nat
  BY RuntimeLoopAssumption DEF RunActions, LoopInv, TypeOK
<1>3. CASE Classified(done) /\ drv[d].current
  <2> DEFINE a == [drv[d] EXCEPT !.pc = "writing", !.done = done]
  <2>1. drv' = [drv EXCEPT ![d] = a]
    BY <1>1, <1>3
  <2>2. a \in Activity /\ a.pc = "writing" /\ a.base = drv[d].base /\ a.current = drv[d].current
    BY <1>2, RunTyped
  <2> HIDE DEF a
  <2> QED
    BY <1>2, <1>3, <2>1, <2>2 DEF BecomesActivity, Knows, Busy
<1>4. CASE ~(Classified(done) /\ drv[d].current)
  <2>1. Moves(d, "raised")
    BY <1>1, <1>4 DEF Moves
  <2>2. "raised" \in ActivityPoint \ Busy
    BY DEF ActivityPoint, Busy
  <2> QED
    BY <1>2, <2>1, <2>2, BecomesByPoint
<1> QED
  BY <1>3, <1>4

\* Every step of a driver but the commit of a round is such a step.
LEMMA DriverBecomes ==
  ASSUME LoopInv, NEW d \in Driver,
         (Drive(d) /\ ~CommitRound(d)) \/ Abort(d) \/ Retry(d) \/ LoseAcknowledgement(d)
  PROVE  \E a \in Activity : BecomesActivity(d, a)
<1>1. CASE CloseRuntime(d)
  BY <1>1, BecomesByPoint DEF CloseRuntime, ActivityPoint, Busy
<1>2. CASE Abort(d)
  BY <1>2, BecomesByPoint DEF Abort, ActivityPoint, Busy
<1>3. CASE \/ AdvanceCancellation(d) \/ FailTask(d) \/ Yield(d) \/ RequestUserInput(d)
           \/ StartReplan(d) \/ RetryPlanItem(d) \/ StartFinalSynthesis(d)
  BY <1>3, BecomesIdle DEF AdvanceCancellation, FailTask, Yield, RequestUserInput, StartReplan,
     RetryPlanItem, StartFinalSynthesis
<1>4. CASE Acknowledge(d) \/ GiveUp(d)
  BY <1>4, BecomesIdle DEF Acknowledge, GiveUp
<1>5. CASE Retry(d) \/ LoseAcknowledgement(d)
  BY <1>5, BecomesAgain DEF Retry, LoseAcknowledgement
<1> QED
  BY <1>1, <1>2, <1>3, <1>4, <1>5, BecomesReading, BecomesDecided, BecomesActing, BecomesWriting
     DEF Drive, Dispatch, Work

-----------------------------------------------------------------------------
(* The commit of a round *)

\* The row a round is to leave behind, from the one its driver has read.
RoundOf(base, done, alternative, asks) ==
  LET merge == Merged(base.np, Disposition(done), alternative)
      stalled == Disposition(done) # "PROGRESS"
  IN  [base EXCEPT !.np = merge.np,
                   !.convergence_action = merge.convergence_action,
                   !.blocking_issue = @ \/ (stalled /\ "BLOCKING_ISSUE" \in asks),
                   !.replan_required = stalled /\ "REPLAN_REQUIRED" \in asks]

LEMMA RoundTyped ==
  ASSUME NEW base \in LoopState, NEW done, NEW alternative \in BOOLEAN, NEW asks
  PROVE  LET new == RoundOf(base, done, alternative, asks)
         IN  /\ new \in LoopState
             /\ MergedWell(base.np, Disposition(done),
                           [np |-> new.np, convergence_action |-> new.convergence_action])
<1>1. PICK merge : merge = Merged(base.np, Disposition(done), alternative)
  OBVIOUS
<1>2. MergedWell(base.np, Disposition(done), merge)
  BY <1>1, MergedTypes DEF LoopState
<1>3. PICK blocks \in BOOLEAN :
        blocks = (base.blocking_issue \/ (Disposition(done) # "PROGRESS" /\ "BLOCKING_ISSUE" \in asks))
  OBVIOUS
<1>4. PICK required \in BOOLEAN :
        required = (Disposition(done) # "PROGRESS" /\ "REPLAN_REQUIRED" \in asks)
  OBVIOUS
<1> DEFINE new == [base EXCEPT !.np = merge.np, !.convergence_action = merge.convergence_action,
                               !.blocking_issue = blocks, !.replan_required = required]
<1>5. RoundOf(base, done, alternative, asks) = new
  BY <1>1, <1>3, <1>4 DEF RoundOf
<1>6. /\ new \in LoopState /\ new.np = merge.np
      /\ new.convergence_action = merge.convergence_action
  BY <1>2 DEF LoopState, MergedWell
<1> HIDE DEF new
<1>7. MergedWell(base.np, Disposition(done),
                 [np |-> new.np, convergence_action |-> new.convergence_action])
  BY <1>2, <1>6 DEF MergedWell
<1> QED
  BY <1>5, <1>6, <1>7

\* What the commit of a round does.
LEMMA CommitDoes ==
  ASSUME LoopInv, NEW d \in Driver, CommitRound(d)
  PROVE  /\ drv[d].pc = "writing" /\ drv[d] \in Activity /\ drv[d].base \in LoopState
         /\ \E alternative \in BOOLEAN, asks \in SUBSET Signals :
              row' = Written(row, drv[d].base, RoundOf(drv[d].base, drv[d].done, alternative, asks))
<1>1. drv[d].pc = "writing" /\ drv[d] \in Activity
  BY DEF CommitRound, LoopInv, TypeOK
<1>2. drv[d].base \in LoopState
  BY <1>1 DEF Activity
<1>3. PICK alternative \in BOOLEAN, asks \in SUBSET Signals :
        row' = Written(row, drv[d].base, RoundOf(drv[d].base, drv[d].done, alternative, asks))
  BY DEF CommitRound, RoundOf
<1> QED
  BY <1>1, <1>2, <1>3

LEMMA CommitKnows ==
  ASSUME LoopInv, NEW d \in Driver, CommitRound(d)
  PROVE  /\ row' \in LoopState
         /\ drv' \in [Driver -> Activity] /\ \A e \in Driver : Knows(e)'
         /\ drv'[d].pc = "committed"
<1>1. row' \in LoopState
  <2>1. row \in LoopState /\ drv[d].base \in LoopState
    BY CommitDoes DEF LoopInv, TypeOK
  <2>2. PICK alternative \in BOOLEAN, asks \in SUBSET Signals :
          row' = Written(row, drv[d].base, RoundOf(drv[d].base, drv[d].done, alternative, asks))
    BY CommitDoes
  <2>3. RoundOf(drv[d].base, drv[d].done, alternative, asks) \in LoopState
    BY <2>1, RoundTyped
  <2> QED
    BY <2>1, <2>2, <2>3, WrittenFields
<1> DEFINE c == [Idle EXCEPT !.pc = "committed"]
<1>2. c \in Activity /\ c.pc = "committed"
  BY IdleTyped, PointTyped DEF ActivityPoint
<1>3. drv' = [e \in Driver |-> IF e = d THEN c ELSE [drv[e] EXCEPT !.current = FALSE]]
  BY DEF CommitRound
<1> HIDE DEF c
<1>4. ASSUME NEW e \in Driver
      PROVE  drv'[e] \in Activity /\ (e = d => drv'[e].pc = "committed") /\ (e # d => drv'[e].current = FALSE)
  <2>1. drv[e] \in Activity
    BY DEF LoopInv, TypeOK
  <2> QED
    BY <1>2, <1>3, <2>1, StaleTyped
<1>5. drv' \in [Driver -> Activity]
  BY <1>3, <1>4
<1> QED
  BY <1>1, <1>4, <1>5 DEF Knows, Busy

-----------------------------------------------------------------------------
(* The types of the rest *)

LEMMA ObservedTyped ==
  ASSUME NEW old \in Seq(SourceKind), NEW done \in Seq(Outcome \union {Unbound})
  PROVE  Inserted(old, Observations(done)) \in Seq(SourceKind)
<1> DEFINE new == Observations(done)
<1>1. Len(done) \in Nat /\ DOMAIN done = 1..Len(done)
  BY LenProperties
<1>2. \A o : ObservationOf(o) \in SourceKind
  BY DEF ObservationOf, SourceKind
<1>3. new \in [1..Len(done) -> SourceKind]
  BY <1>1, <1>2 DEF Observations
<1> HIDE DEF new
<1>4. new \in Seq(SourceKind) /\ Len(old) \in Nat /\ Len(new) \in Nat /\ DOMAIN new = 1..Len(new)
  <2>1. new \in Seq(SourceKind)
    BY <1>1, <1>3, SeqDef
  <2> QED
    BY <2>1, LenProperties
<1>5. \A i \in (Len(old) + 1)..Len(new) : new[i] \in SourceKind
  BY <1>4, LenProperties
<1>6. SubSeq(new, Len(old) + 1, Len(new)) \in Seq(SourceKind)
  BY <1>4, <1>5, SubSeqProperties
<1> QED
  BY <1>6, ConcatProperties DEF Inserted, new

OthersTyped ==
  /\ status \in TaskStatus /\ attempts \subseteq AttemptKind
  /\ effect \in {"NONE", "OUTCOME_UNKNOWN", "RECONCILING"} /\ item \in PlanItem
  /\ answer \in {"NONE", "COMPLETE", "PARTIAL"} /\ question \in {"NONE", "PENDING"}
  /\ observed \in [Driver -> Seq(SourceKind)]

\* What a step does to the item.
ItemStatus == {"PENDING", "READY", "RUNNING", "BLOCKED"}

LEMMA ItemTyped ==
  ASSUME NEW i \in PlanItem, NEW s \in ItemStatus
  PROVE  /\ i.status \in ItemStatus /\ i.iteration \in 1..3 /\ i.earlier \in {"NONE", "BLOCKED"}
         /\ [i EXCEPT !.status = s] \in PlanItem
         /\ [i EXCEPT !.earlier = "NONE"] \in PlanItem
<1>1. i.status \in ItemStatus /\ i.iteration \in 1..3 /\ i.earlier \in {"NONE", "BLOCKED"}
  BY DEF PlanItem, ItemStatus
<1>2. [i EXCEPT !.status = s] = [status |-> s, iteration |-> i.iteration, earlier |-> i.earlier]
  BY DEF PlanItem
<1>3. [i EXCEPT !.earlier = "NONE"] = [status |-> i.status, iteration |-> i.iteration, earlier |-> "NONE"]
  BY DEF PlanItem
<1>4. [status |-> s, iteration |-> i.iteration, earlier |-> i.earlier] \in PlanItem
  BY <1>1 DEF PlanItem, ItemStatus
<1>5. [status |-> i.status, iteration |-> i.iteration, earlier |-> "NONE"] \in PlanItem
  BY <1>1 DEF PlanItem, ItemStatus
<1> QED
  BY <1>1, <1>2, <1>3, <1>4, <1>5

LEMMA OthersOfDriver ==
  ASSUME LoopInv, NEW d \in Driver,
         Drive(d) \/ Abort(d) \/ Retry(d) \/ LoseAcknowledgement(d)
  PROVE  OthersTyped'
<1>1. OthersTyped
  BY DEF LoopInv, TypeOK, OthersTyped
<1>2. CASE \/ ReadTask(d) \/ ReadWork(d) \/ CloseRuntime(d) \/ Yield(d) \/ StartFinalSynthesis(d)
           \/ RunActions(d) \/ Abort(d) \/ Retry(d) \/ LoseAcknowledgement(d)
  BY <1>1, <1>2 DEF OthersTyped, ReadTask, ReadWork, CloseRuntime, Yield, StartFinalSynthesis,
     RunActions, Abort, Retry, LoseAcknowledgement, worldVars
<1>3. CASE AdvanceCancellation(d) \/ FailTask(d) \/ RequestUserInput(d)
  BY <1>1, <1>3 DEF OthersTyped, AdvanceCancellation, FailTask, RequestUserInput, TaskStatus
<1>4. CASE StartReplan(d)
  BY <1>1, <1>4 DEF OthersTyped, StartReplan, AttemptKind
<1>5. CASE RetryPlanItem(d)
  <2>1. UNCHANGED <<status, attempts, effect, answer, question, observed>>
    BY <1>5 DEF RetryPlanItem
  <2>2. item' \in PlanItem
    <3>1. CASE Blocked
      <4>1. item' = [status |-> "READY", iteration |-> item.iteration + 1, earlier |-> "NONE"]
        BY <1>5, <3>1 DEF RetryPlanItem
      <4>2. item.iteration + 1 \in 1..3
        BY <3>1 DEF Blocked
      <4> QED
        BY <4>1, <4>2 DEF PlanItem
    <3>2. CASE ~Blocked
      <4>1. item' = [item EXCEPT !.earlier = "NONE"]
        BY <1>5, <3>2 DEF RetryPlanItem
      <4> QED
        BY <1>1, <4>1 DEF OthersTyped, PlanItem
    <3> QED
      BY <3>1, <3>2
  <2> QED
    BY <1>1, <2>1, <2>2 DEF OthersTyped
<1>6. CASE StartActions(d)
  BY <1>1, <1>6 DEF OthersTyped, StartActions, PlanItem, AttemptKind
<1>7. CASE CommitRound(d)
  <2>1. drv[d] \in Activity
    BY DEF LoopInv, TypeOK
  <2>2. drv[d].done \in Seq(Outcome \union {Unbound})
    BY <2>1 DEF Activity
  <2>3. observed' \in [Driver -> Seq(SourceKind)]
    <3>1. observed' = [observed EXCEPT ![d] = Inserted(observed[d], Observations(drv[d].done))]
      BY <1>7 DEF CommitRound
    <3>2. Inserted(observed[d], Observations(drv[d].done)) \in Seq(SourceKind)
      BY <1>1, <2>2, ObservedTyped DEF OthersTyped
    <3> QED
      BY <1>1, <3>1, <3>2 DEF OthersTyped
  <2>4. item' \in PlanItem
    <3>1. item' = [item EXCEPT !.status = "BLOCKED"] \/ item' = NextItem
      BY <1>7 DEF CommitRound
    <3> QED
      BY <1>1, <3>1, ItemTyped DEF OthersTyped, ItemStatus, NextItem, PlanItem
  <2>5. attempts' \subseteq AttemptKind /\ UNCHANGED <<status, effect, answer, question>>
    <3>1. attempts' = attempts \ {"WORK"} /\ UNCHANGED <<status, effect, answer, question>>
      BY <1>7 DEF CommitRound
    <3> QED
      BY <1>1, <3>1 DEF OthersTyped
  <2> QED
    BY <1>1, <2>3, <2>4, <2>5 DEF OthersTyped
<1>8. CASE Acknowledge(d)
  BY <1>1, <1>8 DEF OthersTyped, Acknowledge, worldVars
<1>9. CASE GiveUp(d)
  <2>1. PICK s \in ItemStatus : item' = [item EXCEPT !.status = s]
    <3>1. item.status \in ItemStatus
      BY <1>1 DEF OthersTyped, PlanItem, ItemStatus
    <3>2. item' = [item EXCEPT !.status = IF item.status = "RUNNING" THEN "BLOCKED" ELSE item.status]
      BY <1>9 DEF GiveUp
    <3> QED
      BY <3>1, <3>2 DEF ItemStatus
  <2>2. item' \in PlanItem
    BY <1>1, <2>1, ItemTyped DEF OthersTyped
  <2>3. /\ attempts' = attempts \ {"WORK"} /\ effect' \in {effect, "OUTCOME_UNKNOWN"}
        /\ observed' = [observed EXCEPT ![d] = <<>>] /\ UNCHANGED <<status, answer, question>>
    BY <1>9 DEF GiveUp
  <2> QED
    BY <1>1, <2>2, <2>3 DEF OthersTyped
<1> QED
  BY <1>2, <1>3, <1>4, <1>5, <1>6, <1>7, <1>8, <1>9 DEF Drive, Dispatch, Work

\* What happens outside the drivers: only the user's answers touch the row.
LEMMA WorldSteps ==
  ASSUME LoopInv, World
  PROVE  /\ OthersTyped' /\ row' \in LoopState /\ UNCHANGED drv
         /\ \/ UNCHANGED row
            \/ /\ \A d \in Driver : drv[d].pc = "idle"
               /\ row' = [row EXCEPT !.blocking_issue = FALSE]
                  \/ row' = [row EXCEPT !.np = new_input_epoch_reset(@)]
<1>1. OthersTyped /\ row \in LoopState
  BY DEF LoopInv, TypeOK, OthersTyped
<1>2. CASE AnswerQuestion
  BY <1>1, <1>2 DEF AnswerQuestion, OthersTyped, LoopState
<1>3. CASE NewInput
  <2>1. row' = [row EXCEPT !.np = new_input_epoch_reset(row.np)]
    BY <1>3 DEF NewInput
  <2>2. new_input_epoch_reset(row.np) \in NoProgress
    <3>1. row.np \in NoProgress /\ 0 \in 0..EPOCH_CONVERGE_AT
      BY <1>1, ThresholdsAreNumbers DEF LoopState, Thresholds
    <3> QED
      BY <3>1 DEF new_input_epoch_reset, NoProgress
  <2>3. row' \in LoopState
    BY <1>1, <2>1, <2>2 DEF LoopState
  <2> QED
    BY <1>1, <1>3, <2>1, <2>3 DEF NewInput, OthersTyped, worldVars
<1>4. CASE RequestCancel \/ CompleteTask
  BY <1>1, <1>4 DEF RequestCancel, CompleteTask, OthersTyped, TaskStatus
<1>5. CASE ItemReady \/ EndReplan
  <2>1. item' \in PlanItem
    <3>1. CASE ItemReady
      <4>1. item' = [item EXCEPT !.status = "READY"]
        BY <3>1 DEF ItemReady
      <4> QED
        BY <1>1, <4>1, ItemTyped DEF OthersTyped, ItemStatus
    <3>2. CASE EndReplan
      <4>1. PICK e \in {"NONE", "BLOCKED"} :
              item' = item \/ item' = [status |-> "READY", iteration |-> 1, earlier |-> e]
        BY <3>2 DEF EndReplan
      <4> QED
        BY <1>1, <4>1 DEF OthersTyped, PlanItem
    <3> QED
      BY <1>5, <3>1, <3>2
  <2> QED
    BY <1>1, <1>5, <2>1 DEF ItemReady, EndReplan, OthersTyped
<1>6. CASE StartFinalAttempt \/ EndFinalAttempt
  BY <1>1, <1>6 DEF StartFinalAttempt, EndFinalAttempt, OthersTyped, AttemptKind
<1>7. CASE Reconcile
  BY <1>1, <1>7 DEF Reconcile, OthersTyped
<1> QED
  BY <1>2, <1>3, <1>4, <1>5, <1>6, <1>7 DEF World

LEMMA LoopInvInit == Init => LoopInv
<1> SUFFICES ASSUME Init PROVE LoopInv
  OBVIOUS
<1>1. Idle \in Activity /\ Idle.pc = "idle" /\ Baseline \in LoopState
  BY IdleTyped DEF Idle, Activity
<1>2. <<>> \in Seq(SourceKind)
  OBVIOUS
<1>3. TypeOK
  BY <1>1, <1>2 DEF Init, TypeOK, TaskStatus, PlanItem
<1> QED
  BY <1>1, <1>3 DEF Init, LoopInv, Knows, Busy

LEMMA LoopInvStep == LoopInv /\ [Next]_vars => LoopInv'
<1> SUFFICES ASSUME LoopInv, [Next]_vars PROVE LoopInv'
  OBVIOUS
<1>1. CASE UNCHANGED vars
  BY <1>1 DEF vars, LoopInv, TypeOK, Knows
<1>2. ASSUME NEW d \in Driver, Drive(d) \/ Abort(d) \/ Retry(d) \/ LoseAcknowledgement(d)
      PROVE  LoopInv'
  <2>1. OthersTyped'
    BY <1>2, OthersOfDriver
  <2>2. row' \in LoopState /\ drv' \in [Driver -> Activity] /\ \A e \in Driver : Knows(e)'
    <3>1. CASE CommitRound(d)
      BY <3>1, CommitKnows
    <3>2. CASE ~CommitRound(d)
      <4>1. PICK a \in Activity : BecomesActivity(d, a)
        BY <1>2, <3>2, DriverBecomes
      <4>2. row' \in LoopState
        BY <4>1 DEF BecomesActivity, LoopInv, TypeOK
      <4> QED
        BY <4>1, <4>2, BecomesKnows
    <3> QED
      BY <3>1, <3>2
  <2> QED
    BY <2>1, <2>2 DEF LoopInv, TypeOK, OthersTyped
<1>3. CASE World
  <2>1. OthersTyped' /\ row' \in LoopState /\ UNCHANGED drv
    BY <1>3, WorldSteps
  <2>2. \A d \in Driver : Knows(d)'
    BY <1>3, <2>1, WorldSteps DEF LoopInv, Knows, Busy
  <2> QED
    BY <2>1, <2>2 DEF LoopInv, TypeOK, OthersTyped
<1> QED
  BY <1>1, <1>2, <1>3 DEF Next

LEMMA LoopInvAlways == Spec => []LoopInv
BY LoopInvInit, LoopInvStep, PTL DEF Spec

\* The row, the drivers and the task have the types they are declared with.
THEOREM LoopTypeCorrect == Spec => []TypeOK
<1>1. LoopInv => TypeOK
  BY DEF LoopInv
<1> QED
  BY <1>1, LoopInvAlways, PTL

-----------------------------------------------------------------------------
(* Rounds that land on the row they were computed from *)

\* The driver of a task is one activity at a time.
OneDriver == \A d, e \in Driver : d = e

AloneIsCurrent == \A d \in Driver : drv[d].pc \in Busy => drv[d].current

\* upsert's compare-and-swap holds where one driver is at work: nobody else writes
\* the row between its read and its commit.
THEOREM OneDriverIsCas == ASSUME OneDriver PROVE Spec => UpsertIsCas
<1>1. Init => AloneIsCurrent
  BY DEF Init, AloneIsCurrent, Idle, Busy
<1>2. LoopInv /\ AloneIsCurrent /\ [Next]_vars => AloneIsCurrent'
  <2> SUFFICES ASSUME LoopInv, AloneIsCurrent, [Next]_vars PROVE AloneIsCurrent'
    OBVIOUS
  <2>1. CASE UNCHANGED vars
    BY <2>1 DEF vars, AloneIsCurrent
  <2>2. ASSUME NEW d \in Driver, Drive(d) \/ Abort(d) \/ Retry(d) \/ LoseAcknowledgement(d)
        PROVE  AloneIsCurrent'
    <3>1. CASE CommitRound(d)
      BY <3>1, CommitKnows DEF AloneIsCurrent, OneDriver, Busy
    <3>2. CASE ~CommitRound(d)
      <4>1. PICK a \in Activity : BecomesActivity(d, a)
        BY <2>2, <3>2, DriverBecomes
      <4>2. drv'[d] = a
        BY <4>1, BecomesKnows
      <4> QED
        BY <4>1, <4>2 DEF AloneIsCurrent, OneDriver, BecomesActivity
    <3> QED
      BY <3>1, <3>2
  <2>3. CASE World
    BY <2>3, WorldSteps DEF AloneIsCurrent
  <2> QED
    BY <2>1, <2>2, <2>3 DEF Next
<1>3. LoopInv /\ AloneIsCurrent /\ [Next]_vars => [\A d \in Driver : CommitRound(d) => drv[d].current]_vars
  BY CommitDoes DEF AloneIsCurrent, Busy
<1> QED
  BY <1>1, <1>2, <1>3, LoopInvAlways, PTL DEF Spec, UpsertIsCas

\* A round that lands on the row it was computed from leaves what it computed.
LEMMA CommitLands ==
  ASSUME LoopInv, NEW d \in Driver, CommitRound(d), drv[d].current
  PROVE  /\ row' \in LoopState /\ row \in LoopState
         /\ MergedWell(row.np, Disposition(drv[d].done),
                       [np |-> row'.np, convergence_action |-> row'.convergence_action])
<1>1. row \in LoopState /\ drv[d].base = row
  BY CommitDoes DEF LoopInv, TypeOK, Knows, Busy
<1>2. PICK alternative \in BOOLEAN, asks \in SUBSET Signals :
        row' = Written(row, row, RoundOf(row, drv[d].done, alternative, asks))
  BY <1>1, CommitDoes
<1>3. /\ RoundOf(row, drv[d].done, alternative, asks) \in LoopState
      /\ MergedWell(row.np, Disposition(drv[d].done),
                    [np |-> RoundOf(row, drv[d].done, alternative, asks).np,
                     convergence_action |-> RoundOf(row, drv[d].done, alternative, asks).convergence_action])
  BY <1>1, RoundTyped
<1>4. row' = RoundOf(row, drv[d].done, alternative, asks)
  BY <1>1, <1>2, <1>3, WrittenFields
<1> QED
  BY <1>1, <1>3, <1>4

\* What may become of the row, if rounds land on the row they were computed from.
LEMMA RowSteps ==
  ASSUME LoopInv, [Next]_vars, [\A d \in Driver : CommitRound(d) => drv[d].current]_vars
  PROVE  \/ UNCHANGED row
         \/ \E d \in Driver :
              /\ CommitRound(d)
              /\ MergedWell(row.np, Disposition(drv[d].done),
                            [np |-> row'.np, convergence_action |-> row'.convergence_action])
         \/ row' = [row EXCEPT !.blocking_issue = FALSE]
         \/ row' = [row EXCEPT !.np = new_input_epoch_reset(@)]
<1>1. CASE UNCHANGED vars
  BY <1>1 DEF vars
<1>2. ASSUME Next, \A d \in Driver : CommitRound(d) => drv[d].current
      PROVE  \/ UNCHANGED row
             \/ \E d \in Driver :
                  /\ CommitRound(d)
                  /\ MergedWell(row.np, Disposition(drv[d].done),
                                [np |-> row'.np, convergence_action |-> row'.convergence_action])
             \/ row' = [row EXCEPT !.blocking_issue = FALSE]
             \/ row' = [row EXCEPT !.np = new_input_epoch_reset(@)]
  <2>1. CASE World
    BY <2>1, WorldSteps
  <2>2. ASSUME NEW d \in Driver, Drive(d) \/ Abort(d) \/ Retry(d) \/ LoseAcknowledgement(d),
               ~CommitRound(d)
        PROVE  UNCHANGED row
    BY <2>2, DriverBecomes DEF BecomesActivity
  <2>3. ASSUME NEW d \in Driver, CommitRound(d)
        PROVE  MergedWell(row.np, Disposition(drv[d].done),
                          [np |-> row'.np, convergence_action |-> row'.convergence_action])
    BY <1>2, <2>3, CommitLands
  <2> QED
    BY <1>2, <2>1, <2>2, <2>3 DEF Next
<1> QED
  BY <1>1, <1>2

\* However many drivers there are: if upsert compared and swapped, as it says, the
\* row could always be read back.
THEOREM CasKeepsRowReadable == Spec /\ UpsertIsCas => []RowReadable
<1>1. Init => RowReadable
  BY DEF Init, RowReadable, Readable, Baseline
<1>2. LoopInv /\ RowReadable /\ [Next]_vars /\ [\A d \in Driver : CommitRound(d) => drv[d].current]_vars
        => RowReadable'
  <2> SUFFICES ASSUME LoopInv, RowReadable, [Next]_vars,
                      [\A d \in Driver : CommitRound(d) => drv[d].current]_vars
               PROVE  RowReadable'
    OBVIOUS
  <2>0. row \in LoopState /\ row.np \in NoProgress
    BY DEF LoopInv, TypeOK, LoopState
  <2>1. CASE UNCHANGED row
    BY <2>1 DEF RowReadable, Readable
  <2>2. ASSUME NEW d \in Driver,
               MergedWell(row.np, Disposition(drv[d].done),
                          [np |-> row'.np, convergence_action |-> row'.convergence_action])
        PROVE  RowReadable'
    BY <2>2 DEF MergedWell, RowReadable, Readable
  <2>3. CASE row' = [row EXCEPT !.blocking_issue = FALSE]
    <3>1. row'.np = row.np /\ row'.convergence_action = row.convergence_action
      BY <2>0, <2>3 DEF LoopState
    <3> QED
      BY <3>1 DEF RowReadable, Readable
  <2>4. CASE row' = [row EXCEPT !.np = new_input_epoch_reset(row.np)]
    <3>1. row'.np = new_input_epoch_reset(row.np) /\ row'.convergence_action = row.convergence_action
      BY <2>0, <2>4 DEF LoopState
    <3>2. /\ new_input_epoch_reset(row.np).episode_replan_used = row.np.episode_replan_used
          /\ new_input_epoch_reset(row.np).task_replan_count = row.np.task_replan_count
      BY <2>0 DEF new_input_epoch_reset, NoProgress
    <3> QED
      BY <3>1, <3>2 DEF RowReadable, Readable
  <2> QED
    BY <2>1, <2>2, <2>3, <2>4, RowSteps
<1> QED
  BY <1>1, <1>2, LoopInvAlways, PTL DEF Spec, UpsertIsCas

\* With one driver the stored row can always be read back (state_from_record).
THEOREM RowStaysReadable == ASSUME OneDriver PROVE Spec => []RowReadable
BY OneDriverIsCas, CasKeepsRowReadable, PTL

-----------------------------------------------------------------------------
(* The decision to converge *)

\* However many drivers there are: if upsert compared and swapped, only a round with
\* progress would take a forced decision to converge back.
THEOREM CasHoldsConvergence == Spec /\ UpsertIsCas => ConvergenceHolds
<1>1. LoopInv /\ [Next]_vars /\ [\A d \in Driver : CommitRound(d) => drv[d].current]_vars
        => [row.convergence_action = "CONVERGE" /\ Forced(row.np)
              => \/ row'.convergence_action = "CONVERGE"
                 \/ \E d \in Driver : CommitRound(d) /\ HasDelta(drv[d].done)]_vars
  <2> SUFFICES ASSUME LoopInv, [Next]_vars,
                      [\A d \in Driver : CommitRound(d) => drv[d].current]_vars,
                      row.convergence_action = "CONVERGE", Forced(row.np)
               PROVE  \/ row'.convergence_action = "CONVERGE"
                      \/ \E d \in Driver : CommitRound(d) /\ HasDelta(drv[d].done)
    OBVIOUS
  <2>1. row \in LoopState
    BY DEF LoopInv, TypeOK
  <2>2. CASE \/ UNCHANGED row \/ row' = [row EXCEPT !.blocking_issue = FALSE]
            \/ row' = [row EXCEPT !.np = new_input_epoch_reset(@)]
    BY <2>1, <2>2 DEF LoopState
  <2>3. ASSUME NEW d \in Driver, CommitRound(d),
               MergedWell(row.np, Disposition(drv[d].done),
                          [np |-> row'.np, convergence_action |-> row'.convergence_action])
        PROVE  row'.convergence_action = "CONVERGE" \/ HasDelta(drv[d].done)
    <3>1. CASE HasDelta(drv[d].done)
      BY <3>1
    <3>2. CASE ~HasDelta(drv[d].done)
      <4>1. Disposition(drv[d].done) # "PROGRESS"
        BY <3>2 DEF Disposition
      <4> QED
        BY <2>3, <4>1 DEF MergedWell
    <3> QED
      BY <3>1, <3>2
  <2> QED
    BY <2>2, <2>3, RowSteps
<1> QED
  BY <1>1, LoopInvAlways, PTL DEF Spec, UpsertIsCas, ConvergenceHolds

\* Where one driver is at work a forced decision to converge stands until a round
\* makes progress (merge_loop_no_progress).
THEOREM ConvergenceIsHeld == ASSUME OneDriver PROVE Spec => ConvergenceHolds
BY OneDriverIsCas, CasHoldsConvergence, PTL

-----------------------------------------------------------------------------
(* Closing the runtime *)

Closing(d) == drv[d].pc = "stopped" \/ Decided(d, "CLOSE_RUNTIME")
Quiet == status = "ENDED" /\ attempts = {} /\ effect # "OUTCOME_UNKNOWN"

\* A driver that reads of an end saw one; one that closes, or has, left nothing behind.
CloseInv ==
  \A d \in Driver :
    /\ drv[d].pc = "reading" /\ drv[d].seen = "ENDED" => status = "ENDED"
    /\ Closing(d) => Quiet

\* An ended task stays ended, and nothing of it begins again outside its drivers.
LEMMA WorldStaysQuiet ==
  ASSUME LoopInv, World
  PROVE  /\ status = "ENDED" => status' = "ENDED"
         /\ Quiet => Quiet'
<1>1. CASE RequestCancel \/ AnswerQuestion \/ NewInput \/ ItemReady
  BY <1>1 DEF RequestCancel, AnswerQuestion, NewInput, ItemReady, Quiet, worldVars
<1>2. CASE EndReplan \/ StartFinalAttempt \/ EndFinalAttempt
  BY <1>2 DEF EndReplan, StartFinalAttempt, EndFinalAttempt, Quiet
<1>3. CASE CompleteTask \/ Reconcile
  BY <1>3 DEF CompleteTask, Reconcile, Quiet
<1> QED
  BY <1>1, <1>2, <1>3 DEF World

\* The steps of a driver that do not lead towards a close.
LEMMA StepsAside ==
  ASSUME LoopInv, NEW d \in Driver,
         Drive(d) \/ Abort(d) \/ Retry(d) \/ LoseAcknowledgement(d),
         ~ReadTask(d), ~ReadWork(d), ~CloseRuntime(d)
  PROVE  drv'[d].pc \notin {"reading", "decided", "stopped"}
<1>1. CASE CommitRound(d)
  BY <1>1, CommitKnows
<1>2. ASSUME NEW a \in Activity, BecomesActivity(d, a),
             a.pc \notin {"reading", "decided", "stopped"}
      PROVE  drv'[d].pc \notin {"reading", "decided", "stopped"}
  BY <1>2, BecomesKnows
<1>3. CASE Abort(d)
  <2>1. \E a \in Activity : BecomesActivity(d, a) /\ a.pc = "raised"
    BY <1>3, BecomesByPoint DEF Abort, ActivityPoint, Busy
  <2> QED
    BY <1>2, <2>1
<1>4. CASE \/ AdvanceCancellation(d) \/ FailTask(d) \/ Yield(d) \/ RequestUserInput(d)
           \/ StartReplan(d) \/ RetryPlanItem(d) \/ StartFinalSynthesis(d)
           \/ Acknowledge(d) \/ GiveUp(d)
  <2>1. Rests(d) /\ UNCHANGED row
    BY <1>4 DEF AdvanceCancellation, FailTask, Yield, RequestUserInput, StartReplan, RetryPlanItem,
       StartFinalSynthesis, Acknowledge, GiveUp
  <2> QED
    BY <1>2, <2>1, BecomesIdle
<1>5. CASE Retry(d) \/ LoseAcknowledgement(d)
  BY <1>2, <1>5, BecomesAgain DEF Retry, LoseAcknowledgement
<1>6. CASE StartActions(d)
  BY <1>2, <1>6, BecomesActing
<1>7. CASE RunActions(d)
  BY <1>2, <1>7, BecomesWriting
<1> QED
  BY <1>1, <1>3, <1>4, <1>5, <1>6, <1>7 DEF Drive, Dispatch, Work

\* A driver of its own that closes the runtime left nothing behind, now and for good.
THEOREM ClosedIsQuiet == ASSUME OneDriver PROVE Spec => []CloseIsSafe
<1>1. Init => CloseInv
  BY DEF Init, CloseInv, Closing, Decided, Idle
<1>2. LoopInv /\ CloseInv /\ [Next]_vars => CloseInv'
  <2> SUFFICES ASSUME LoopInv, CloseInv, [Next]_vars PROVE CloseInv'
    OBVIOUS
  <2>1. CASE UNCHANGED vars
    BY <2>1 DEF vars, CloseInv, Closing, Decided, Quiet
  <2>2. CASE World
    <3>1. UNCHANGED drv
      BY <2>2, WorldSteps
    <3> QED
      BY <2>2, <3>1, WorldStaysQuiet DEF CloseInv, Closing, Decided
  <2>3. ASSUME NEW d \in Driver, Drive(d) \/ Abort(d) \/ Retry(d) \/ LoseAcknowledgement(d)
        PROVE  CloseInv'
    <3>1. CASE ReadTask(d)
      <4>1. PICK a \in Activity : BecomesActivity(d, a) /\ a.pc = "reading" /\ a.seen = status
        BY <3>1, BecomesReading
      <4>2. drv'[d] = a
        BY <4>1, BecomesKnows
      <4>3. UNCHANGED status
        BY <3>1 DEF ReadTask, worldVars
      <4> QED
        BY <4>1, <4>2, <4>3 DEF CloseInv, Closing, Decided, OneDriver
    <3>2. CASE ReadWork(d)
      <4>1. PICK a \in Activity : BecomesActivity(d, a) /\ a.pc = "decided" /\ a.step = Decide(Facts(drv[d]))
        BY <3>2, BecomesDecided
      <4>2. drv'[d] = a
        BY <4>1, BecomesKnows
      <4>3. UNCHANGED <<status, attempts, effect>> /\ drv[d].pc = "reading"
        BY <3>2 DEF ReadWork, worldVars
      <4>4. a.step = "CLOSE_RUNTIME" => Quiet
        <5>1. a.step = "CLOSE_RUNTIME" => MayClose(Facts(drv[d]))
          BY <4>1, SelectTyped
        <5>2. MayClose(Facts(drv[d])) => drv[d].seen = "ENDED" /\ attempts = {} /\ effect # "OUTCOME_UNKNOWN"
          BY DEF MayClose, Facts
        <5>3. drv[d].seen = "ENDED" => status = "ENDED"
          BY <4>3 DEF CloseInv
        <5> QED
          BY <5>1, <5>2, <5>3 DEF Quiet
      <4> QED
        BY <4>1, <4>2, <4>3, <4>4 DEF CloseInv, Closing, Decided, Quiet, OneDriver
    <3>3. CASE CloseRuntime(d)
      <4>1. Closing(d) /\ UNCHANGED <<status, attempts, effect>>
        BY <3>3 DEF CloseRuntime, Closing, worldVars
      <4>2. PICK a \in Activity : BecomesActivity(d, a) /\ a.pc = "stopped"
        BY <3>3, BecomesByPoint DEF CloseRuntime, ActivityPoint, Busy
      <4>3. drv'[d] = a
        BY <4>2, BecomesKnows
      <4>4. Quiet'
        BY <4>1 DEF CloseInv, Quiet
      <4> QED
        BY <4>2, <4>3, <4>4 DEF CloseInv, OneDriver
    <3>4. CASE ~ReadTask(d) /\ ~ReadWork(d) /\ ~CloseRuntime(d)
      BY <2>3, <3>4, StepsAside DEF CloseInv, Closing, Decided, OneDriver
    <3> QED
      BY <3>1, <3>2, <3>3, <3>4
  <2> QED
    BY <2>1, <2>2, <2>3 DEF Next
<1>3. CloseInv => CloseIsSafe
  BY DEF CloseInv, Closing, Quiet, CloseIsSafe
<1> QED
  BY <1>1, <1>2, <1>3, LoopInvAlways, PTL DEF Spec

-----------------------------------------------------------------------------
(* Scores *)

LEMMA ScoreIsNumber ==
  ASSUME NEW c \in Candidate
  PROVE  dedup_score(c) \in Int
<1>1. CASE Scores(c) = {}
  BY <1>1 DEF dedup_score
<1>2. CASE Scores(c) # {}
  <2>1. Scores(c) \subseteq Nat
    BY DEF Scores, Candidate, Score
  <2>2. \E x \in Scores(c) : \A y \in Scores(c) : x >= y
    <3>1. \A w, x, y, z : {w, x, y, z} \ {Absent} # {} /\ {w, x, y, z} \ {Absent} \subseteq Nat
             => \E m \in {w, x, y, z} \ {Absent} : \A n \in {w, x, y, z} \ {Absent} : m >= n
      OBVIOUS
    <3> QED
      BY <1>2, <2>1, <3>1 DEF Scores
  <2>3. Max(Scores(c)) \in Scores(c)
    BY <2>2 DEF Max
  <2> QED
    BY <1>2, <2>1, <2>3 DEF dedup_score
<1> QED
  BY <1>1, <1>2

-----------------------------------------------------------------------------
(* The best of every chunk *)

First(all, chunk) == Min(PlaceOf(chunk, all))

LEMMA FirstIs ==
  ASSUME NEW all \in Seq(Candidate), NEW m \in 1..Len(all)
  PROVE  /\ First(all, all[m].chunk_id) \in 1..m
         /\ all[First(all, all[m].chunk_id)].chunk_id = all[m].chunk_id
<1> DEFINE places == PlaceOf(all[m].chunk_id, all)
<1>1. DOMAIN all = 1..Len(all) /\ Len(all) \in Nat
  OBVIOUS
<1>2. m \in places /\ places \subseteq 1..Len(all)
  BY <1>1 DEF PlaceOf
<1>3. Min(places) \in places /\ Min(places) <= m
  <2> HIDE DEF places
  <2>1. places \subseteq Nat /\ places # {}
    BY <1>1, <1>2
  <2> QED
    BY <1>2, <2>1, LeastExists
<1> QED
  BY <1>1, <1>2, <1>3 DEF First, PlaceOf

LEMMA FirstIsNew ==
  ASSUME NEW all \in Seq(Candidate), NEW m \in 1..Len(all),
         \A l \in 1..m - 1 : all[l].chunk_id # all[m].chunk_id
  PROVE  First(all, all[m].chunk_id) = m
BY FirstIs

Unique(all, n, kept) ==
  /\ kept \in Seq(Candidate)
  /\ \A i \in DOMAIN kept : \E m \in 1..n : kept[i] = all[m]
  /\ \A m \in 1..n : \E i \in DOMAIN kept :
       kept[i].chunk_id = all[m].chunk_id /\ dedup_score(kept[i]) >= dedup_score(all[m])
  /\ \A i, j \in DOMAIN kept : i < j => First(all, kept[i].chunk_id) < First(all, kept[j].chunk_id)

LEMMA KeepOfChunkTyped ==
  ASSUME NEW kept \in Seq(Candidate), NEW c \in Candidate
  PROVE  KeepOfChunk(kept, c) \in Seq(Candidate)
<1>1. CASE PlaceOf(c.chunk_id, kept) = {}
  BY <1>1 DEF KeepOfChunk
<1>2. CASE PlaceOf(c.chunk_id, kept) # {}
  BY <1>2 DEF KeepOfChunk, PlaceOf
<1> QED
  BY <1>1, <1>2

LEMMA KeepOfChunkUnique ==
  ASSUME NEW all \in Seq(Candidate), NEW n \in 1..Len(all), NEW kept, Unique(all, n - 1, kept)
  PROVE  Unique(all, n, KeepOfChunk(kept, all[n]))
<1> DEFINE c == all[n]
           now == KeepOfChunk(kept, c)
<1>1. /\ Len(all) \in Nat /\ kept \in Seq(Candidate) /\ c \in Candidate /\ DOMAIN kept = 1..Len(kept)
      /\ Len(kept) \in Nat /\ \A i \in DOMAIN kept : kept[i] \in Candidate
  BY DEF Unique
<1>2. \A m \in 1..n : m = n \/ m \in 1..n - 1
  OBVIOUS
<1>3. 1..n - 1 \subseteq 1..n /\ 1..n \subseteq 1..Len(all)
  BY <1>1
<1>4. \A m \in 1..Len(all) : all[m] \in Candidate /\ dedup_score(all[m]) \in Int
  BY ScoreIsNumber
<1>5. \A i \in DOMAIN kept : dedup_score(kept[i]) \in Int
  BY <1>1, ScoreIsNumber
<1>6. CASE PlaceOf(c.chunk_id, kept) = {}
  <2>1. now = Append(kept, c)
    BY <1>6 DEF KeepOfChunk
  <2>2. /\ now \in Seq(Candidate) /\ DOMAIN now = 1..Len(kept) + 1 /\ now[Len(kept) + 1] = c
        /\ \A i \in DOMAIN kept : i \in DOMAIN now /\ now[i] = kept[i]
    BY <1>1, <2>1
  <2>3. \A i \in DOMAIN kept : kept[i].chunk_id # c.chunk_id
    BY <1>6 DEF PlaceOf
  <2>4. First(all, c.chunk_id) = n
    <3>1. \A l \in 1..n - 1 : all[l].chunk_id # c.chunk_id
      BY <2>3 DEF Unique
    <3> QED
      BY <3>1, FirstIsNew
  <2>5. \A i \in DOMAIN kept : First(all, kept[i].chunk_id) < n
    <3>1. SUFFICES ASSUME NEW i \in DOMAIN kept PROVE First(all, kept[i].chunk_id) < n
      OBVIOUS
    <3>2. PICK m \in 1..n - 1 : kept[i] = all[m]
      BY DEF Unique
    <3>3. First(all, all[m].chunk_id) \in 1..m
      BY <1>3, FirstIs
    <3> QED
      BY <3>2, <3>3
  <2> HIDE DEF now, c
  <2>6. \A i \in DOMAIN now : i \in DOMAIN kept \/ i = Len(kept) + 1
    BY <1>1, <2>2
  <2>7. \A i \in DOMAIN now : \E m \in 1..n : now[i] = all[m]
    <3>1. \A i \in DOMAIN kept : \E m \in 1..n : now[i] = all[m]
      BY <1>3, <2>2 DEF Unique
    <3>2. n \in 1..n /\ now[Len(kept) + 1] = all[n]
      BY <1>1, <2>2 DEF c
    <3> QED
      BY <2>6, <3>1, <3>2
  <2>8. ASSUME NEW m \in 1..n
        PROVE  \E i \in DOMAIN now : now[i].chunk_id = all[m].chunk_id /\ dedup_score(now[i]) >= dedup_score(all[m])
    <3>1. CASE m = n
      <4>1. Len(kept) + 1 \in DOMAIN now /\ now[Len(kept) + 1] = all[m]
        BY <1>1, <2>2, <3>1 DEF c
      <4> QED
        BY <1>3, <1>4, <4>1
    <3>2. CASE m \in 1..n - 1
      <4>1. PICK i \in DOMAIN kept : kept[i].chunk_id = all[m].chunk_id /\ dedup_score(kept[i]) >= dedup_score(all[m])
        BY <3>2 DEF Unique
      <4> QED
        BY <2>2, <4>1
    <3> QED
      BY <1>2, <3>1, <3>2
  <2>9. \A i, j \in DOMAIN now : i < j => First(all, now[i].chunk_id) < First(all, now[j].chunk_id)
    <3>1. SUFFICES ASSUME NEW i \in DOMAIN now, NEW j \in DOMAIN now, i < j
                   PROVE  First(all, now[i].chunk_id) < First(all, now[j].chunk_id)
      OBVIOUS
    <3>2. i \in DOMAIN kept
      BY <1>1, <2>2, <3>1
    <3>3. CASE j \in DOMAIN kept
      BY <2>2, <3>1, <3>2, <3>3 DEF Unique
    <3>4. CASE j = Len(kept) + 1
      BY <2>2, <2>4, <2>5, <3>2, <3>4
    <3> QED
      BY <2>6, <3>3, <3>4
  <2> QED
    BY <2>2, <2>7, <2>8, <2>9 DEF Unique, c, now
<1>7. CASE PlaceOf(c.chunk_id, kept) # {}
  <2> DEFINE place == CHOOSE k \in PlaceOf(c.chunk_id, kept) : TRUE
  <2>1. place \in DOMAIN kept /\ kept[place].chunk_id = c.chunk_id
    BY <1>7 DEF PlaceOf
  <2>2. now = IF Better(c, kept[place]) THEN [kept EXCEPT ![place] = c] ELSE kept
    BY <1>7 DEF KeepOfChunk
  <2> HIDE DEF place, now, c
  <2>3. /\ now \in Seq(Candidate) /\ DOMAIN now = DOMAIN kept
        /\ \A i \in DOMAIN kept : now[i] = kept[i] \/ (i = place /\ now[i] = c)
        /\ now[place] = c \/ (now[place] = kept[place] /\ ~ Better(c, kept[place]))
        /\ now[place] = c => Better(c, kept[place]) \/ c = kept[place]
    BY <1>1, <2>1, <2>2
  <2>4. \A i \in DOMAIN kept : now[i].chunk_id = kept[i].chunk_id
    BY <2>1, <2>3
  <2>5. dedup_score(c) \in Int
    BY <1>1, ScoreIsNumber
  <2>6. \A i \in DOMAIN kept : dedup_score(now[i]) >= dedup_score(kept[i]) /\ dedup_score(now[i]) \in Int
    BY <1>5, <2>1, <2>3, <2>5 DEF Better
  <2>7. dedup_score(now[place]) >= dedup_score(c)
    BY <1>5, <2>1, <2>3, <2>5 DEF Better
  <2>8. \A i \in DOMAIN now : \E m \in 1..n : now[i] = all[m]
    <3>1. \A i \in DOMAIN kept : \E m \in 1..n : kept[i] = all[m]
      BY <1>3 DEF Unique
    <3>2. n \in 1..n /\ c = all[n]
      BY <1>1 DEF c
    <3> QED
      BY <2>3, <3>1, <3>2
  <2>9. ASSUME NEW m \in 1..n
        PROVE  \E i \in DOMAIN now : now[i].chunk_id = all[m].chunk_id /\ dedup_score(now[i]) >= dedup_score(all[m])
    <3>1. CASE m = n
      BY <2>1, <2>3, <2>4, <2>7, <3>1 DEF c
    <3>2. CASE m \in 1..n - 1
      <4>1. PICK i \in DOMAIN kept : kept[i].chunk_id = all[m].chunk_id /\ dedup_score(kept[i]) >= dedup_score(all[m])
        BY <3>2 DEF Unique
      <4>2. dedup_score(now[i]) >= dedup_score(all[m])
        BY <1>3, <1>4, <1>5, <2>6, <4>1
      <4> QED
        BY <2>3, <2>4, <4>1, <4>2
    <3> QED
      BY <1>2, <3>1, <3>2
  <2>10. \A i, j \in DOMAIN now : i < j => First(all, now[i].chunk_id) < First(all, now[j].chunk_id)
    BY <2>3, <2>4 DEF Unique
  <2> QED
    BY <2>3, <2>8, <2>9, <2>10 DEF Unique, c, now
<1> QED
  BY <1>6, <1>7

LEMMA UniqueChunksAre ==
  ASSUME NEW all \in Seq(Candidate)
  PROVE  Unique(all, Len(all), UniqueChunks(all))
<1> DEFINE N == Len(all)
           Solves(f) == f = [n \in 0..N |-> IF n = 0 THEN <<>> ELSE KeepOfChunk(f[n - 1], all[n])]
<1>1. N \in Nat /\ \A n \in 1..N : all[n] \in Candidate
  OBVIOUS
<1>2. \E f : Solves(f)
  <2> DEFINE step == [p \in (1..N) \X Seq(Candidate) |-> KeepOfChunk(p[2], all[p[1]])]
  <2>1. step \in [(1..N) \X Seq(Candidate) -> Seq(Candidate)]
    <3>1. \A p \in (1..N) \X Seq(Candidate) : p[2] \in Seq(Candidate) /\ all[p[1]] \in Candidate
      BY <1>1
    <3>2. \A p \in (1..N) \X Seq(Candidate) : KeepOfChunk(p[2], all[p[1]]) \in Seq(Candidate)
      BY <3>1, KeepOfChunkTyped
    <3> QED
      BY <3>2
  <2>2. <<>> \in Seq(Candidate)
    OBVIOUS
  <2> HIDE DEF step, N, Solves
  <2>3. PICK f : Runs(f, N, Seq(Candidate), <<>>, step)
    BY <1>1, <2>1, <2>2, StepByStep
  <2>4. ASSUME NEW n \in 1..N PROVE f[n] = KeepOfChunk(f[n - 1], all[n])
    <3>1. n \in 1..N /\ n - 1 \in 0..N /\ f[n - 1] \in Seq(Candidate)
      BY <1>1, <2>3 DEF Runs
    <3>2. step[<<n, f[n - 1]>>] = KeepOfChunk(f[n - 1], all[n])
      BY <3>1 DEF step
    <3> QED
      BY <2>3, <3>1, <3>2 DEF Runs
  <2>5. \A n \in 0..N : f[n] = IF n = 0 THEN <<>> ELSE KeepOfChunk(f[n - 1], all[n])
    BY <1>1, <2>3, <2>4 DEF Runs
  <2>6. Solves(f)
    BY <2>3, <2>5 DEF Runs, Solves
  <2> QED
    BY <2>6
<1>3. PICK f : Solves(f) /\ UniqueChunks(all) = f[N]
  <2> DEFINE g == CHOOSE f : Solves(f)
  <2>1. Solves(g)
    BY <1>2
  <2>2. UniqueChunks(all) = g[N]
    BY DEF UniqueChunks
  <2> QED
    BY <2>1, <2>2
<1>4. f[0] = <<>> /\ \A n \in 1..N : f[n] = KeepOfChunk(f[n - 1], all[n])
  BY <1>1, <1>3
<1> DEFINE S == {n \in 0..N : Unique(all, n, f[n])}
<1>5. 0 \in S
  <2>1. <<>> \in Seq(Candidate) /\ DOMAIN <<>> = {} /\ 1..0 = {}
    OBVIOUS
  <2>2. Unique(all, 0, <<>>)
    BY <2>1 DEF Unique
  <2> QED
    BY <1>1, <1>4, <2>2
<1>6. ASSUME NEW n \in 1..N, n - 1 \in S PROVE n \in S
  <2>1. n \in 1..Len(all) /\ Unique(all, n - 1, f[n - 1])
    BY <1>6
  <2>2. Unique(all, n, f[n])
    BY <1>4, <2>1, KeepOfChunkUnique
  <2> QED
    BY <2>1, <2>2
<1>7. N \in S
  <2> HIDE DEF S, Solves
  <2>1. \A n \in 0..N : n \in S
    BY <1>1, <1>5, <1>6, OneAfterTheOther
  <2> QED
    BY <1>1, <2>1
<1> QED
  BY <1>3, <1>7

-----------------------------------------------------------------------------
(* The best of every text *)

BestTable == UNION {[hashes -> Candidate] : hashes \in SUBSET TextHash}

OfText(all, n, best) ==
  /\ best \in BestTable
  /\ \A t \in DOMAIN best : t # Absent /\ best[t].text_hash = t /\ \E m \in 1..n : best[t] = all[m]
  /\ \A m \in 1..n : all[m].text_hash # Absent =>
       /\ all[m].text_hash \in DOMAIN best
       /\ dedup_score(best[all[m].text_hash]) >= dedup_score(all[m])

LEMMA KeepOfTextTyped ==
  ASSUME NEW best \in BestTable, NEW c \in Candidate
  PROVE  KeepOfText(best, c) \in BestTable
<1>1. PICK hashes \in SUBSET TextHash : best \in [hashes -> Candidate]
  BY DEF BestTable
<1> DEFINE Put == [t \in DOMAIN best \union {c.text_hash} |-> IF t = c.text_hash THEN c ELSE best[t]]
<1>2. ASSUME c.text_hash # Absent PROVE Put \in BestTable
  <2>1. hashes \union {c.text_hash} \in SUBSET TextHash
    BY <1>2 DEF Candidate
  <2>2. Put \in [hashes \union {c.text_hash} -> Candidate]
    BY <1>1
  <2> QED
    BY <2>1, <2>2 DEF BestTable
<1> QED
  BY <1>2 DEF KeepOfText

LEMMA KeepOfTextBest ==
  ASSUME NEW all \in Seq(Candidate), NEW n \in 1..Len(all), NEW best, OfText(all, n - 1, best)
  PROVE  OfText(all, n, KeepOfText(best, all[n]))
<1> DEFINE c == all[n]
           now == KeepOfText(best, c)
<1>1. /\ Len(all) \in Nat /\ c \in Candidate /\ n \in 1..n
      /\ \A m \in 1..n : m = n \/ m \in 1..n - 1
      /\ 1..n - 1 \subseteq 1..n /\ 1..n \subseteq 1..Len(all)
  OBVIOUS
<1>2. \A m \in 1..n : all[m] \in Candidate /\ dedup_score(all[m]) \in Int
  BY <1>1, ScoreIsNumber
<1>3. now \in BestTable
  BY <1>1, KeepOfTextTyped DEF OfText
<1>4. \A t \in DOMAIN best : dedup_score(best[t]) \in Int
  BY <1>1, <1>2 DEF OfText
<1>5. CASE c.text_hash = Absent \/ (c.text_hash \in DOMAIN best /\ ~ Better(c, best[c.text_hash]))
  <2>1. now = best
    BY <1>5 DEF KeepOfText
  <2>2. \A t \in DOMAIN best : t # Absent /\ best[t].text_hash = t /\ \E m \in 1..n : best[t] = all[m]
    BY <1>1 DEF OfText
  <2>3. ASSUME NEW m \in 1..n, all[m].text_hash # Absent
        PROVE  /\ all[m].text_hash \in DOMAIN best
               /\ dedup_score(best[all[m].text_hash]) >= dedup_score(all[m])
    <3>1. CASE m = n
      BY <1>2, <1>4, <1>5, <2>3, <3>1 DEF Better
    <3>2. CASE m \in 1..n - 1
      BY <2>3, <3>2 DEF OfText
    <3> QED
      BY <1>1, <3>1, <3>2
  <2> QED
    BY <1>3, <2>1, <2>2, <2>3 DEF OfText
<1>6. CASE ~ (c.text_hash = Absent \/ (c.text_hash \in DOMAIN best /\ ~ Better(c, best[c.text_hash])))
  <2>1. now = [t \in DOMAIN best \union {c.text_hash} |-> IF t = c.text_hash THEN c ELSE best[t]]
    BY <1>6 DEF KeepOfText
  <2>2. /\ DOMAIN now = DOMAIN best \union {c.text_hash} /\ now[c.text_hash] = c
        /\ \A t \in DOMAIN best : t # c.text_hash => now[t] = best[t]
    BY <2>1
  <2>3. c.text_hash # Absent /\ (c.text_hash \in DOMAIN best => Better(c, best[c.text_hash]))
    BY <1>6
  <2> HIDE DEF now
  <2>4. ASSUME NEW t \in DOMAIN now
        PROVE  t # Absent /\ now[t].text_hash = t /\ \E m \in 1..n : now[t] = all[m]
    <3>1. CASE t = c.text_hash
      BY <1>1, <2>2, <2>3, <3>1
    <3>2. CASE t # c.text_hash
      <4>1. t \in DOMAIN best /\ now[t] = best[t]
        BY <2>2, <3>2
      <4> QED
        BY <1>1, <4>1 DEF OfText
    <3> QED
      BY <3>1, <3>2
  <2>5. ASSUME NEW m \in 1..n, all[m].text_hash # Absent
        PROVE  /\ all[m].text_hash \in DOMAIN now
               /\ dedup_score(now[all[m].text_hash]) >= dedup_score(all[m])
    <3>1. CASE m = n
      <4>1. dedup_score(c) \in Int
        BY <1>1, <1>2
      <4> QED
        BY <2>2, <3>1, <4>1
    <3>2. CASE m \in 1..n - 1
      <4>1. all[m].text_hash \in DOMAIN best /\ dedup_score(best[all[m].text_hash]) >= dedup_score(all[m])
        BY <2>5, <3>2 DEF OfText
      <4>2. CASE all[m].text_hash # c.text_hash
        BY <2>2, <4>1, <4>2
      <4>3. CASE all[m].text_hash = c.text_hash
        <5>1. dedup_score(c) > dedup_score(best[all[m].text_hash])
          BY <2>3, <4>1, <4>3 DEF Better
        <5>2. dedup_score(c) \in Int /\ dedup_score(all[m]) \in Int /\ dedup_score(best[all[m].text_hash]) \in Int
          BY <1>1, <1>2, <1>4, <4>1
        <5> HIDE DEF c
        <5> QED
          BY <2>2, <4>1, <4>3, <5>1, <5>2
      <4> QED
        BY <4>2, <4>3
    <3> QED
      BY <1>1, <3>1, <3>2
  <2> QED
    BY <1>3, <2>4, <2>5 DEF OfText, now
<1> QED
  BY <1>5, <1>6

LEMMA BestOfTextIs ==
  ASSUME NEW all \in Seq(Candidate)
  PROVE  OfText(all, Len(all), BestOfText(all))
<1> DEFINE N == Len(all)
           Solves(f) == f = [n \in 0..N |-> IF n = 0 THEN <<>> ELSE KeepOfText(f[n - 1], all[n])]
<1>1. N \in Nat /\ \A n \in 1..N : all[n] \in Candidate
  OBVIOUS
<1>2. <<>> \in BestTable
  <2>1. {} \in SUBSET TextHash /\ <<>> \in [{} -> Candidate]
    OBVIOUS
  <2> QED
    BY <2>1 DEF BestTable
<1>3. \E f : Solves(f)
  <2> DEFINE step == [p \in (1..N) \X BestTable |-> KeepOfText(p[2], all[p[1]])]
  <2>1. step \in [(1..N) \X BestTable -> BestTable]
    <3>1. \A p \in (1..N) \X BestTable : p[2] \in BestTable /\ all[p[1]] \in Candidate
      BY <1>1
    <3>2. \A p \in (1..N) \X BestTable : KeepOfText(p[2], all[p[1]]) \in BestTable
      BY <3>1, KeepOfTextTyped
    <3> QED
      BY <3>2
  <2> HIDE DEF step, N, Solves
  <2>2. PICK f : Runs(f, N, BestTable, <<>>, step)
    BY <1>1, <1>2, <2>1, StepByStep
  <2>3. ASSUME NEW n \in 1..N PROVE f[n] = KeepOfText(f[n - 1], all[n])
    <3>1. n \in 1..N /\ n - 1 \in 0..N /\ f[n - 1] \in BestTable
      BY <1>1, <2>2 DEF Runs
    <3>2. step[<<n, f[n - 1]>>] = KeepOfText(f[n - 1], all[n])
      BY <3>1 DEF step
    <3> QED
      BY <2>2, <3>1, <3>2 DEF Runs
  <2>4. \A n \in 0..N : f[n] = IF n = 0 THEN <<>> ELSE KeepOfText(f[n - 1], all[n])
    BY <1>1, <2>2, <2>3 DEF Runs
  <2>5. Solves(f)
    BY <2>2, <2>4 DEF Runs, Solves
  <2> QED
    BY <2>5
<1>4. PICK f : Solves(f) /\ BestOfText(all) = f[N]
  <2> DEFINE g == CHOOSE f : Solves(f)
  <2>1. Solves(g)
    BY <1>3
  <2>2. BestOfText(all) = g[N]
    BY DEF BestOfText
  <2> QED
    BY <2>1, <2>2
<1>5. f[0] = <<>> /\ \A n \in 1..N : f[n] = KeepOfText(f[n - 1], all[n])
  BY <1>1, <1>4
<1> DEFINE S == {n \in 0..N : OfText(all, n, f[n])}
<1>6. 0 \in S
  <2>1. DOMAIN <<>> = {} /\ 1..0 = {}
    OBVIOUS
  <2>2. OfText(all, 0, <<>>)
    BY <1>2, <2>1 DEF OfText
  <2> QED
    BY <1>1, <1>5, <2>2
<1>7. ASSUME NEW n \in 1..N, n - 1 \in S PROVE n \in S
  <2>1. n \in 1..Len(all) /\ OfText(all, n - 1, f[n - 1])
    BY <1>7
  <2>2. OfText(all, n, f[n])
    BY <1>5, <2>1, KeepOfTextBest
  <2> QED
    BY <2>1, <2>2
<1>8. N \in S
  <2> HIDE DEF S, Solves
  <2>1. \A n \in 0..N : n \in S
    BY <1>1, <1>6, <1>7, OneAfterTheOther
  <2> QED
    BY <1>1, <2>1
<1> QED
  BY <1>4, <1>8

-----------------------------------------------------------------------------
(* What is kept *)

Staying(unique, best) ==
  {c \in Candidate : c.text_hash = Absent \/ c.chunk_id \in {best[t].chunk_id : t \in DOMAIN best}}

Kept(all, unique, best, n, kept) ==
  /\ kept \in Seq(Candidate)
  /\ \A i \in DOMAIN kept : \E m \in 1..n : kept[i] = unique[m] /\ unique[m] \in Staying(unique, best)
  /\ \A m \in 1..n : unique[m] \in Staying(unique, best) => \E i \in DOMAIN kept : kept[i] = unique[m]
  /\ \A i, j \in DOMAIN kept : i < j => First(all, kept[i].chunk_id) < First(all, kept[j].chunk_id)

LEMMA KeptGoesOn ==
  ASSUME NEW all \in Seq(Candidate), NEW unique, Unique(all, Len(all), unique), NEW best,
         NEW n \in 1..Len(unique), NEW kept, Kept(all, unique, best, n - 1, kept)
  PROVE  /\ unique[n] \in Staying(unique, best) => Kept(all, unique, best, n, Append(kept, unique[n]))
         /\ unique[n] \notin Staying(unique, best) => Kept(all, unique, best, n, kept)
<1> DEFINE now == Append(kept, unique[n])
<1>1. /\ unique \in Seq(Candidate) /\ Len(unique) \in Nat /\ DOMAIN unique = 1..Len(unique)
      /\ kept \in Seq(Candidate) /\ Len(kept) \in Nat /\ DOMAIN kept = 1..Len(kept)
      /\ unique[n] \in Candidate /\ n \in 1..n
      /\ \A m \in 1..n : m = n \/ m \in 1..n - 1
      /\ 1..n - 1 \subseteq 1..n
  BY DEF Unique, Kept
<1>2. ASSUME unique[n] \notin Staying(unique, best) PROVE Kept(all, unique, best, n, kept)
  <2>1. \A i \in DOMAIN kept : \E m \in 1..n : kept[i] = unique[m] /\ unique[m] \in Staying(unique, best)
    BY <1>1 DEF Kept
  <2>2. \A m \in 1..n : unique[m] \in Staying(unique, best) => \E i \in DOMAIN kept : kept[i] = unique[m]
    BY <1>1, <1>2 DEF Kept
  <2> QED
    BY <2>1, <2>2 DEF Kept
<1>3. ASSUME unique[n] \in Staying(unique, best) PROVE Kept(all, unique, best, n, now)
  <2>1. /\ now \in Seq(Candidate) /\ DOMAIN now = 1..Len(kept) + 1 /\ now[Len(kept) + 1] = unique[n]
        /\ \A i \in DOMAIN kept : i \in DOMAIN now /\ now[i] = kept[i]
        /\ \A i \in DOMAIN now : i \in DOMAIN kept \/ i = Len(kept) + 1
        /\ Len(kept) + 1 \in DOMAIN now
    BY <1>1
  <2> HIDE DEF now
  <2>2. \A i \in DOMAIN now : \E m \in 1..n : now[i] = unique[m] /\ unique[m] \in Staying(unique, best)
    <3>1. \A i \in DOMAIN kept : \E m \in 1..n : now[i] = unique[m] /\ unique[m] \in Staying(unique, best)
      BY <1>1, <2>1 DEF Kept
    <3> QED
      BY <1>1, <1>3, <2>1, <3>1
  <2>3. \A m \in 1..n : unique[m] \in Staying(unique, best) => \E i \in DOMAIN now : now[i] = unique[m]
    <3>1. \A m \in 1..n - 1 : unique[m] \in Staying(unique, best) => \E i \in DOMAIN now : now[i] = unique[m]
      BY <2>1 DEF Kept
    <3> QED
      BY <1>1, <2>1, <3>1
  <2>4. \A i \in DOMAIN kept : First(all, kept[i].chunk_id) < First(all, unique[n].chunk_id)
    <3>1. SUFFICES ASSUME NEW i \in DOMAIN kept
                   PROVE  First(all, kept[i].chunk_id) < First(all, unique[n].chunk_id)
      OBVIOUS
    <3>2. PICK m \in 1..n - 1 : kept[i] = unique[m]
      BY DEF Kept
    <3>3. m \in DOMAIN unique /\ n \in DOMAIN unique /\ m < n
      BY <1>1
    <3> QED
      BY <3>2, <3>3 DEF Unique
  <2>5. \A i, j \in DOMAIN now : i < j => First(all, now[i].chunk_id) < First(all, now[j].chunk_id)
    <3>1. SUFFICES ASSUME NEW i \in DOMAIN now, NEW j \in DOMAIN now, i < j
                   PROVE  First(all, now[i].chunk_id) < First(all, now[j].chunk_id)
      OBVIOUS
    <3>2. i \in DOMAIN kept
      BY <1>1, <2>1, <3>1
    <3>3. CASE j \in DOMAIN kept
      BY <2>1, <3>1, <3>2, <3>3 DEF Kept
    <3>4. CASE j = Len(kept) + 1
      BY <2>1, <2>4, <3>2, <3>4
    <3> QED
      BY <2>1, <3>3, <3>4
  <2> QED
    BY <2>1, <2>2, <2>3, <2>5 DEF Kept
<1> QED
  BY <1>2, <1>3

LEMMA DedupIs ==
  ASSUME NEW all \in Seq(Candidate)
  PROVE  LET unique == UniqueChunks(all)
         IN  Kept(all, unique, BestOfText(unique), Len(unique), dedup_candidates(all))
<1> DEFINE unique == UniqueChunks(all)
           best == BestOfText(unique)
           N == Len(unique)
           ids == {best[t].chunk_id : t \in DOMAIN best}
           Stays(n) == unique[n].text_hash = Absent \/ unique[n].chunk_id \in ids
           Next1(kept, n) == IF Stays(n) THEN Append(kept, unique[n]) ELSE kept
           Solves(f) == f = [n \in 0..N |-> IF n = 0 THEN <<>> ELSE IF Stays(n) THEN Append(f[n - 1], unique[n]) ELSE f[n - 1]]
<1>1. Unique(all, Len(all), unique)
  BY UniqueChunksAre
<1>2. N \in Nat /\ \A n \in 1..N : unique[n] \in Candidate
  BY <1>1 DEF Unique
<1>3. \A n \in 1..N : Stays(n) <=> unique[n] \in Staying(unique, best)
  BY <1>2 DEF Staying
<1> HIDE DEF N, unique, best
<1>4. \E f : Solves(f)
  <2> DEFINE step == [p \in (1..N) \X Seq(Candidate) |-> Next1(p[2], p[1])]
  <2>1. step \in [(1..N) \X Seq(Candidate) -> Seq(Candidate)]
    <3>1. \A p \in (1..N) \X Seq(Candidate) : p[2] \in Seq(Candidate) /\ unique[p[1]] \in Candidate
      BY <1>2
    <3>2. \A p \in (1..N) \X Seq(Candidate) : Next1(p[2], p[1]) \in Seq(Candidate)
      BY <3>1
    <3> QED
      BY <3>2
  <2>2. <<>> \in Seq(Candidate)
    OBVIOUS
  <2> HIDE DEF step, Solves
  <2>3. PICK f : Runs(f, N, Seq(Candidate), <<>>, step)
    BY <1>2, <2>1, <2>2, StepByStep
  <2>4. ASSUME NEW n \in 1..N PROVE f[n] = Next1(f[n - 1], n)
    <3>1. n - 1 \in 0..N /\ f[n - 1] \in Seq(Candidate)
      BY <1>2, <2>3 DEF Runs
    <3>2. step[<<n, f[n - 1]>>] = Next1(f[n - 1], n)
      BY <3>1 DEF step
    <3> QED
      BY <2>3, <3>1, <3>2 DEF Runs
  <2>5. \A n \in 0..N : f[n] = IF n = 0 THEN <<>> ELSE IF Stays(n) THEN Append(f[n - 1], unique[n]) ELSE f[n - 1]
    <3>1. SUFFICES ASSUME NEW n \in 0..N
                   PROVE  f[n] = IF n = 0 THEN <<>> ELSE IF Stays(n) THEN Append(f[n - 1], unique[n]) ELSE f[n - 1]
      OBVIOUS
    <3>2. CASE n = 0
      BY <2>3, <3>2 DEF Runs
    <3>3. CASE n # 0
      <4>1. n \in 1..N
        BY <1>2, <3>3
      <4> QED
        BY <2>4, <3>3, <4>1
    <3> QED
      BY <3>2, <3>3
  <2>6. Solves(f)
    BY <2>3, <2>5 DEF Runs, Solves
  <2> QED
    BY <2>6
<1>5. PICK f : Solves(f) /\ dedup_candidates(all) = f[N]
  <2> DEFINE g == CHOOSE f : Solves(f)
  <2>1. Solves(g)
    BY <1>4, Zenon
  <2>2. dedup_candidates(all) = g[N]
    BY DEF dedup_candidates, unique, best, N
  <2> QED
    BY <2>1, <2>2, Zenon
<1>6. /\ f[0] = <<>>
      /\ \A n \in 1..N : f[n] = IF Stays(n) THEN Append(f[n - 1], unique[n]) ELSE f[n - 1]
  <2>1. f[0] = <<>>
    BY <1>2, <1>5
  <2>2. ASSUME NEW n \in 1..N PROVE f[n] = IF Stays(n) THEN Append(f[n - 1], unique[n]) ELSE f[n - 1]
    <3>1. n \in 0..N /\ n # 0
      BY <1>2
    <3> QED
      BY <1>5, <3>1
  <2> QED
    BY <2>1, <2>2
<1> HIDE DEF Solves, Stays
<1> DEFINE S == {n \in 0..N : Kept(all, unique, best, n, f[n])}
<1>7. 0 \in S
  <2>1. <<>> \in Seq(Candidate) /\ DOMAIN <<>> = {} /\ 1..0 = {}
    OBVIOUS
  <2>2. Kept(all, unique, best, 0, <<>>)
    BY <2>1 DEF Kept
  <2> QED
    BY <1>2, <1>6, <2>2
<1>8. ASSUME NEW n \in 1..N, n - 1 \in S PROVE n \in S
  <2>1. n \in 1..Len(unique) /\ Kept(all, unique, best, n - 1, f[n - 1])
    BY <1>8 DEF N
  <2>2. Kept(all, unique, best, n, f[n])
    BY <1>1, <1>3, <1>6, <2>1, KeptGoesOn
  <2>3. n \in 0..N
    BY <1>2
  <2> QED
    BY <2>2, <2>3
<1>9. N \in S
  <2> HIDE DEF S
  <2>1. \A n \in 0..N : n \in S
    BY <1>2, <1>7, <1>8, OneAfterTheOther
  <2> QED
    BY <1>2, <2>1
<1> QED
  BY <1>5, <1>9 DEF unique, best, N

\* dedup_candidates, of any candidates: none that was better is lost and no duplicate is left.
LEMMA BestStay ==
  ASSUME NEW all \in Seq(Candidate), NEW kept, kept = dedup_candidates(all)
  PROVE  /\ \A i, j \in DOMAIN kept : i < j =>
              /\ First(all, kept[i].chunk_id) < First(all, kept[j].chunk_id)
              /\ kept[i].text_hash = kept[j].text_hash => kept[i].text_hash = Absent
         /\ \A c \in ToSet(all) : \E k \in ToSet(kept) :
              /\ dedup_score(k) >= dedup_score(c)
              /\ \E d \in ToSet(all) :
                   /\ d.chunk_id = c.chunk_id
                   /\ k = d \/ (k.text_hash = d.text_hash /\ k.text_hash # Absent)
<1> DEFINE unique == UniqueChunks(all)
           best == BestOfText(unique)
<1>1. Unique(all, Len(all), unique)
  BY UniqueChunksAre
<1>2. Kept(all, unique, best, Len(unique), kept)
  BY DedupIs
<1>3. unique \in Seq(Candidate) /\ Len(unique) \in Nat /\ DOMAIN unique = 1..Len(unique)
  BY <1>1 DEF Unique
<1>4. OfText(unique, Len(unique), best)
  BY <1>3, BestOfTextIs
<1> HIDE DEF unique, best
<1>5. ASSUME NEW l \in DOMAIN unique, NEW m \in DOMAIN unique, unique[l].chunk_id = unique[m].chunk_id
      PROVE  l = m
  <2>1. l \in Nat /\ m \in Nat /\ (l < m \/ m < l \/ l = m)
    BY <1>3
  <2>2. PICK n \in 1..Len(all) : unique[l] = all[n]
    BY <1>1 DEF Unique
  <2>3. First(all, unique[l].chunk_id) \in Nat
    <3>1. First(all, all[n].chunk_id) \in 1..n
      BY FirstIs
    <3> QED
      BY <2>2, <3>1
  <2>4. \A x, y \in DOMAIN unique : x < y => First(all, unique[x].chunk_id) < First(all, unique[y].chunk_id)
    BY <1>1 DEF Unique
  <2>5. ~ (First(all, unique[l].chunk_id) < First(all, unique[m].chunk_id))
    BY <1>5, <2>3
  <2>6. ~ (First(all, unique[m].chunk_id) < First(all, unique[l].chunk_id))
    BY <1>5, <2>3
  <2> QED
    BY <2>1, <2>4, <2>5, <2>6
\* Whoever stays and has a text is the best of it.
<1>6. ASSUME NEW c \in ToSet(unique), c \in Staying(unique, best), c.text_hash # Absent
      PROVE  c.text_hash \in DOMAIN best /\ c = best[c.text_hash]
  <2>1. PICK t \in DOMAIN best : c.chunk_id = best[t].chunk_id
    BY <1>6 DEF Staying
  <2>2. PICK m \in 1..Len(unique) : best[t] = unique[m] /\ best[t].text_hash = t
    BY <1>4 DEF OfText
  <2>3. PICK l \in DOMAIN unique : c = unique[l]
    BY DEF ToSet
  <2>4. l = m
    BY <1>3, <1>5, <2>1, <2>2, <2>3
  <2> QED
    BY <2>2, <2>3, <2>4
<1>7. \A i \in DOMAIN kept : kept[i] \in ToSet(unique) /\ kept[i] \in Staying(unique, best)
  BY <1>2, <1>3 DEF Kept, ToSet
<1>8. ASSUME NEW i \in DOMAIN kept, NEW j \in DOMAIN kept, i < j
      PROVE  /\ First(all, kept[i].chunk_id) < First(all, kept[j].chunk_id)
             /\ kept[i].text_hash = kept[j].text_hash => kept[i].text_hash = Absent
  <2>1. First(all, kept[i].chunk_id) < First(all, kept[j].chunk_id)
    BY <1>2, <1>8 DEF Kept
  <2>2. ASSUME kept[i].text_hash = kept[j].text_hash, kept[i].text_hash # Absent PROVE FALSE
    <3>1. kept[i] = kept[j]
      BY <1>6, <1>7, <2>2
    <3>2. PICK m \in 1..Len(unique) : kept[i] = unique[m]
      BY <1>2 DEF Kept
    <3>3. PICK n \in 1..Len(all) : kept[i] = all[n]
      BY <1>1, <1>3, <3>2 DEF Unique
    <3>4. First(all, all[n].chunk_id) \in 1..n
      BY FirstIs
    <3> QED
      BY <2>1, <3>1, <3>3, <3>4
  <2> QED
    BY <2>1, <2>2
<1>9. ASSUME NEW c \in ToSet(all)
      PROVE  \E k \in ToSet(kept) :
               /\ dedup_score(k) >= dedup_score(c)
               /\ \E d \in ToSet(all) :
                    /\ d.chunk_id = c.chunk_id
                    /\ k = d \/ (k.text_hash = d.text_hash /\ k.text_hash # Absent)
  <2>1. PICK n \in 1..Len(all) : c = all[n]
    BY DEF ToSet
  <2>2. PICK i \in DOMAIN unique : unique[i].chunk_id = c.chunk_id /\ dedup_score(unique[i]) >= dedup_score(c)
    BY <1>1, <2>1 DEF Unique
  <2> DEFINE d == unique[i]
  <2>3. d \in ToSet(all)
    <3>1. PICK m \in 1..Len(all) : d = all[m]
      BY <1>1 DEF Unique
    <3> QED
      BY <3>1 DEF ToSet
  <2>4. c \in Candidate /\ d \in Candidate
    BY <1>3, <2>1
  <2>5. CASE d \in Staying(unique, best)
    <3>1. d \in ToSet(kept)
      BY <1>2, <1>3, <2>5 DEF Kept, ToSet
    <3> QED
      BY <2>2, <2>3, <3>1
  <2>6. CASE d \notin Staying(unique, best)
    <3>1. d.text_hash # Absent
      BY <2>4, <2>6 DEF Staying
    <3> DEFINE k == best[d.text_hash]
    <3>2. d.text_hash \in DOMAIN best /\ dedup_score(k) >= dedup_score(d)
      BY <1>3, <1>4, <3>1 DEF OfText
    <3>3. k.text_hash = d.text_hash /\ \E m \in 1..Len(unique) : k = unique[m]
      BY <1>4, <3>2 DEF OfText
    <3>4. k \in Candidate
      BY <1>3, <3>3
    <3>5. k \in Staying(unique, best)
      BY <3>2, <3>4 DEF Staying
    <3>6. k \in ToSet(kept)
      <4>1. PICK m \in 1..Len(unique) : k = unique[m]
        BY <3>3
      <4>2. PICK j \in DOMAIN kept : kept[j] = unique[m]
        BY <1>2, <3>5, <4>1 DEF Kept
      <4> QED
        BY <4>1, <4>2 DEF ToSet
    <3>7. dedup_score(k) >= dedup_score(c)
      <4>1. dedup_score(k) \in Int /\ dedup_score(d) \in Int /\ dedup_score(c) \in Int
        BY <2>4, <3>4, ScoreIsNumber
      <4> HIDE DEF k, d
      <4> QED
        BY <2>2, <3>2, <4>1 DEF d
    <3> QED
      BY <2>2, <2>3, <3>1, <3>3, <3>6, <3>7
  <2> QED
    BY <2>5, <2>6
<1> QED
  BY <1>8, <1>9

-----------------------------------------------------------------------------
(* Fusion *)

Ranked == {c \in Candidate : c.fusion_score \in Nat}

\* A sequence of sequences is joined from its first to its last.
LEMMA FlattenRun ==
  ASSUME NEW T, NEW seqs \in Seq(Seq(T))
  PROVE  \E f \in [0..Len(seqs) -> Seq(T)] :
           /\ f[0] = <<>> /\ \A n \in 1..Len(seqs) : f[n] = f[n - 1] \o seqs[n]
           /\ FlattenSeq(seqs) = f[Len(seqs)]
<1> DEFINE N == Len(seqs)
           Solves(f) == f = [i \in 1..N |-> IF i = 1 THEN seqs[i] ELSE f[i - 1] \o seqs[i]]
<1>1. N \in Nat /\ \A n \in 1..N : seqs[n] \in Seq(T)
  OBVIOUS
<1>2. CASE N = 0
  <2> DEFINE f == [n \in 0..N |-> <<>>]
  <2>1. f \in [0..N -> Seq(T)] /\ f[0] = <<>> /\ f[N] = <<>>
    BY <1>2
  <2>2. 1..N = {}
    BY <1>2
  <2>3. FlattenSeq(seqs) = <<>>
    BY <1>2 DEF FlattenSeq
  <2> HIDE DEF f
  <2> QED
    BY <2>1, <2>2, <2>3
<1>3. CASE N # 0
  <2>1. \E f : Solves(f)
    <3> DEFINE step == [p \in (1..N) \X Seq(T) |-> p[2] \o seqs[p[1]]]
    <3>1. step \in [(1..N) \X Seq(T) -> Seq(T)] /\ <<>> \in Seq(T)
      BY <1>1
    <3> HIDE DEF step, N, Solves
    <3>2. PICK f : Runs(f, N, Seq(T), <<>>, step)
      BY <1>1, <3>1, StepByStep
    <3> DEFINE g == [n \in 1..N |-> f[n]]
    <3>3. ASSUME NEW n \in 1..N PROVE g[n] = IF n = 1 THEN seqs[n] ELSE g[n - 1] \o seqs[n]
      <4>1. n - 1 \in 0..N /\ f[n - 1] \in Seq(T) /\ seqs[n] \in Seq(T) /\ g[n] = f[n]
        BY <1>1, <3>2 DEF Runs
      <4>2. step[<<n, f[n - 1]>>] = f[n - 1] \o seqs[n]
        BY <4>1 DEF step
      <4>3. f[n] = f[n - 1] \o seqs[n]
        BY <3>2, <4>2 DEF Runs
      <4>4. CASE n = 1
        <5>1. f[0] = <<>> /\ n - 1 = 0
          BY <3>2, <4>4 DEF Runs
        <5>2. <<>> \o seqs[n] = seqs[n]
          BY <4>1
        <5> QED
          BY <4>1, <4>3, <4>4, <5>1, <5>2
      <4>5. CASE n # 1
        <5>1. n - 1 \in 1..N
          BY <1>1, <4>5
        <5> QED
          BY <4>1, <4>3, <4>5, <5>1
      <4> QED
        BY <4>4, <4>5
    <3> HIDE DEF g
    <3>4. g = [n \in 1..N |-> g[n]]
      BY DEF g
    <3>5. Solves(g)
      BY <3>3, <3>4 DEF Solves
    <3> QED
      BY <3>5, Zenon
  <2>2. PICK f : Solves(f) /\ FlattenSeq(seqs) = f[N]
    <3> DEFINE g == CHOOSE f : Solves(f)
    <3>1. Solves(g)
      BY <2>1, Zenon
    <3>2. FlattenSeq(seqs) = g[N]
      BY <1>3 DEF FlattenSeq
    <3> QED
      BY <3>1, <3>2, Zenon
  <2>3. \A n \in 1..N : f[n] = IF n = 1 THEN seqs[n] ELSE f[n - 1] \o seqs[n]
    BY <2>2
  <2> HIDE DEF Solves
  <2> DEFINE S == {n \in 0..N : n # 0 => f[n] \in Seq(T)}
  <2>4. 0 \in S
    BY <1>1
  <2>5. ASSUME NEW n \in 1..N, n - 1 \in S PROVE n \in S
    <3>1. n \in 0..N /\ seqs[n] \in Seq(T)
      BY <1>1
    <3>2. CASE n = 1
      BY <2>3, <3>1, <3>2
    <3>3. CASE n # 1
      <4>1. f[n - 1] \in Seq(T)
        BY <2>5, <3>3
      <4>2. f[n] = f[n - 1] \o seqs[n]
        BY <2>3, <3>3
      <4>3. f[n] \in Seq(T)
        BY <3>1, <4>1, <4>2
      <4> QED
        BY <3>1, <4>3
    <3> QED
      BY <3>2, <3>3
  <2>6. \A n \in 1..N : f[n] \in Seq(T)
    <3> HIDE DEF S
    <3>1. \A n \in 0..N : n \in S
      BY <1>1, <2>4, <2>5, OneAfterTheOther
    <3> QED
      BY <1>1, <3>1 DEF S
  <2> DEFINE h == [n \in 0..N |-> IF n = 0 THEN <<>> ELSE f[n]]
  <2>7. h \in [0..N -> Seq(T)]
    <3>1. \A n \in 0..N : n = 0 \/ n \in 1..N
      BY <1>1
    <3> QED
      BY <2>6, <3>1
  <2>8. h[0] = <<>> /\ h[N] = f[N]
    BY <1>1, <1>3
  <2>9. ASSUME NEW n \in 1..N PROVE h[n] = h[n - 1] \o seqs[n]
    <3>1. n \in 0..N /\ n # 0 /\ n - 1 \in 0..N /\ seqs[n] \in Seq(T)
      BY <1>1
    <3>2. CASE n = 1
      <4>1. h[n] = seqs[n] /\ h[n - 1] = <<>>
        BY <2>3, <3>1, <3>2
      <4>2. <<>> \o seqs[n] = seqs[n]
        BY <3>1
      <4> HIDE DEF h
      <4> QED
        BY <4>1, <4>2
    <3>3. CASE n # 1
      <4>1. h[n] = f[n] /\ h[n - 1] = f[n - 1]
        BY <3>1, <3>3
      <4> QED
        BY <2>3, <3>3, <4>1
    <3> QED
      BY <3>2, <3>3
  <2> HIDE DEF h
  <2> QED
    BY <2>2, <2>7, <2>8, <2>9
<1> QED
  BY <1>2, <1>3

LEMMA FlattenTyped ==
  ASSUME NEW T, NEW seqs \in Seq(Seq(T))
  PROVE  FlattenSeq(seqs) \in Seq(T)
<1>1. PICK f \in [0..Len(seqs) -> Seq(T)] : FlattenSeq(seqs) = f[Len(seqs)]
  BY FlattenRun
<1>2. Len(seqs) \in 0..Len(seqs)
  OBVIOUS
<1> QED
  BY <1>1, <1>2

LEMMA ToSetJoined ==
  ASSUME NEW T, NEW s \in Seq(T), NEW t \in Seq(T)
  PROVE  ToSet(s \o t) = ToSet(s) \union ToSet(t)
<1> DEFINE u == s \o t
<1>1. Len(s) \in Nat /\ Len(t) \in Nat /\ DOMAIN s = 1..Len(s) /\ DOMAIN t = 1..Len(t)
  OBVIOUS
<1>2. DOMAIN u = 1..Len(s) + Len(t) /\ \A i \in DOMAIN u : u[i] = IF i <= Len(s) THEN s[i] ELSE t[i - Len(s)]
  OBVIOUS
<1> HIDE DEF u
<1>3. ASSUME NEW x \in ToSet(u) PROVE x \in ToSet(s) \union ToSet(t)
  <2>1. PICK i \in DOMAIN u : x = u[i]
    BY DEF ToSet
  <2>2. i <= Len(s) => i \in DOMAIN s
    BY <1>1, <1>2
  <2>3. ~ (i <= Len(s)) => i - Len(s) \in DOMAIN t
    BY <1>1, <1>2
  <2> QED
    BY <1>2, <2>1, <2>2, <2>3 DEF ToSet
<1>4. ASSUME NEW x \in ToSet(s) PROVE x \in ToSet(u)
  <2>1. PICK i \in DOMAIN s : x = s[i]
    BY DEF ToSet
  <2>2. i \in DOMAIN u /\ i <= Len(s)
    BY <1>1, <1>2
  <2> QED
    BY <1>2, <2>1, <2>2 DEF ToSet
<1>5. ASSUME NEW x \in ToSet(t) PROVE x \in ToSet(u)
  <2>1. PICK i \in DOMAIN t : x = t[i]
    BY DEF ToSet
  <2> DEFINE k == i + Len(s)
  <2>2. k \in DOMAIN u /\ ~ (k <= Len(s)) /\ k - Len(s) = i
    BY <1>1, <1>2
  <2> HIDE DEF k
  <2>3. u[k] = x
    BY <1>2, <2>1, <2>2
  <2> QED
    BY <2>2, <2>3 DEF ToSet
<1> QED
  BY <1>3, <1>4, <1>5 DEF u

LEMMA FlattenNothing == FlattenSeq(<<>>) = <<>>
BY DEF FlattenSeq

\* One more sequence is joined to the end.
LEMMA FlattenMore ==
  ASSUME NEW T, NEW seqs \in Seq(Seq(T)), NEW s \in Seq(T)
  PROVE  FlattenSeq(Append(seqs, s)) = FlattenSeq(seqs) \o s
<1> DEFINE t == Append(seqs, s)
           N == Len(seqs)
<1>1. t \in Seq(Seq(T)) /\ Len(t) = N + 1 /\ N \in Nat /\ t[N + 1] = s /\ \A n \in 1..N : t[n] = seqs[n]
  OBVIOUS
<1> HIDE DEF t
<1>2. PICK f \in [0..N -> Seq(T)] :
        f[0] = <<>> /\ (\A n \in 1..N : f[n] = f[n - 1] \o seqs[n]) /\ FlattenSeq(seqs) = f[N]
  BY FlattenRun
<1>3. PICK g \in [0..Len(t) -> Seq(T)] :
        g[0] = <<>> /\ (\A n \in 1..Len(t) : g[n] = g[n - 1] \o t[n]) /\ FlattenSeq(t) = g[Len(t)]
  BY <1>1, FlattenRun
<1> DEFINE S == {n \in 0..N : g[n] = f[n]}
<1> HIDE DEF N
<1>4. 0 \in S
  BY <1>1, <1>2, <1>3
<1>5. \A n \in 1..N : n - 1 \in S => n \in S
  <2>1. \A n \in 1..N : n \in 1..Len(t) /\ n \in 0..N
    BY <1>1
  <2> QED
    BY <1>1, <1>2, <1>3, <2>1
<1>6. N \in S
  <2> HIDE DEF S
  <2>1. \A n \in 0..N : n \in S
    BY <1>1, <1>4, <1>5, OneAfterTheOther
  <2> QED
    BY <1>1, <2>1
<1>7. g[N + 1] = g[N] \o s
  <2> DEFINE k == N + 1
  <2>1. k \in 1..Len(t) /\ k - 1 = N /\ t[k] = s
    BY <1>1
  <2> HIDE DEF k
  <2>2. g[k] = g[k - 1] \o t[k]
    BY <1>3, <2>1
  <2>3. g[k] = g[N] \o s
    BY <2>1, <2>2
  <2> QED
    BY <2>3 DEF k
<1> QED
  BY <1>1, <1>2, <1>3, <1>6, <1>7 DEF t

\* A sequence is what it had before its last member, and that member.
FrontOf(front, s) ==
  /\ s = Append(front, s[Len(s)]) /\ Len(front) = Len(s) - 1
  /\ \A y : [s EXCEPT ![Len(s)] = y] = Append(front, y)

LEMMA LastApart ==
  ASSUME NEW T, NEW s \in Seq(T), s # <<>>
  PROVE  \E front \in Seq(T) : FrontOf(front, s)
<1> DEFINE N == Len(s)
           front == [i \in 1..N - 1 |-> s[i]]
<1>1. N \in Nat /\ N >= 1 /\ DOMAIN s = 1..N /\ \A i \in 1..N : s[i] \in T
  OBVIOUS
<1>2. front \in Seq(T) /\ Len(front) = N - 1 /\ DOMAIN front = 1..N - 1 /\ \A i \in 1..N - 1 : front[i] = s[i]
  <2>1. N - 1 \in Nat /\ \A i \in 1..N - 1 : s[i] \in T
    BY <1>1
  <2>2. front \in [1..N - 1 -> T]
    BY <2>1
  <2> QED
    BY <2>1, <2>2
<1> HIDE DEF front, N
<1>3. ASSUME NEW y PROVE [s EXCEPT ![N] = y] = Append(front, y)
  <2> DEFINE u == [s EXCEPT ![N] = y]
             v == Append(front, y)
             U == T \union {y}
  <2>1. s \in Seq(U) /\ front \in Seq(U) /\ y \in U
    BY <1>2
  <2> HIDE DEF U
  <2>2. u \in Seq(U) /\ Len(u) = N /\ \A i \in 1..N : u[i] = IF i = N THEN y ELSE s[i]
    BY <1>1, <2>1 DEF N
  <2>3. v \in Seq(U) /\ Len(v) = N /\ \A i \in 1..N : v[i] = IF i = N THEN y ELSE s[i]
    <3>1. v \in Seq(U) /\ Len(v) = Len(front) + 1 /\ v[Len(front) + 1] = y
          /\ \A i \in 1..Len(front) : v[i] = front[i]
      BY <2>1
    <3>2. Len(front) + 1 = N
      BY <1>1, <1>2
    <3>3. \A i \in 1..N : i # N => i \in 1..N - 1
      BY <1>1
    <3> HIDE DEF v
    <3> QED
      BY <1>2, <3>1, <3>2, <3>3
  <2> HIDE DEF u, v
  <2>4. u = v
    BY <2>2, <2>3
  <2> QED
    BY <2>4 DEF u, v
<1>4. s = Append(front, s[N])
  <2>1. [s EXCEPT ![N] = s[N]] = s
    BY <1>1
  <2> QED
    BY <1>3, <2>1
<1> QED
  BY <1>2, <1>3, <1>4 DEF N, FrontOf

\* Joined is joined: whether a member is added to the last sequence or to all of them.
LEMMA FlattenLast ==
  ASSUME NEW T, NEW seqs \in Seq(Seq(T)), seqs # <<>>, NEW x \in T
  PROVE  FlattenSeq([seqs EXCEPT ![Len(seqs)] = Append(seqs[Len(seqs)], x)]) = Append(FlattenSeq(seqs), x)
<1> DEFINE last == seqs[Len(seqs)]
<1>1. PICK front \in Seq(Seq(T)) : FrontOf(front, seqs)
  BY LastApart
<1>2. last \in Seq(T)
  OBVIOUS
<1> HIDE DEF last
<1>8. seqs = Append(front, last) /\ \A y : [seqs EXCEPT ![Len(seqs)] = y] = Append(front, y)
  BY <1>1 DEF last, FrontOf
<1>3. Append(last, x) \in Seq(T)
  BY <1>2
<1>4. FlattenSeq(Append(front, Append(last, x))) = FlattenSeq(front) \o Append(last, x)
  BY <1>3, FlattenMore
<1>5. FlattenSeq(seqs) = FlattenSeq(front) \o last
  BY <1>2, <1>8, FlattenMore
<1>6. FlattenSeq(front) \in Seq(T)
  BY FlattenTyped
<1>7. \A s \in Seq(T) : s \o Append(last, x) = Append(s \o last, x)
  BY <1>2
<1> QED
  BY <1>2, <1>4, <1>5, <1>6, <1>7, <1>8 DEF last

\* What is joined holds what its parts hold.
LEMMA FlattenHolds ==
  ASSUME NEW T, NEW seqs \in Seq(Seq(T))
  PROVE  ToSet(FlattenSeq(seqs)) = UNION {ToSet(seqs[n]) : n \in DOMAIN seqs}
<1> DEFINE N == Len(seqs)
           Upto(n) == UNION {ToSet(seqs[i]) : i \in 1..n}
<1>1. N \in Nat /\ DOMAIN seqs = 1..N /\ \A n \in 1..N : seqs[n] \in Seq(T)
  OBVIOUS
<1>2. PICK f \in [0..N -> Seq(T)] :
        f[0] = <<>> /\ (\A n \in 1..N : f[n] = f[n - 1] \o seqs[n]) /\ FlattenSeq(seqs) = f[N]
  BY FlattenRun
<1> DEFINE S == {n \in 0..N : ToSet(f[n]) = Upto(n)}
<1> HIDE DEF N
<1>3. 0 \in S
  <2>1. ToSet(f[0]) = {} /\ Upto(0) = {}
    BY <1>2 DEF ToSet
  <2> QED
    BY <1>1, <2>1
<1>4. ASSUME NEW n \in 1..N, n - 1 \in S PROVE n \in S
  <2>1. n - 1 \in 0..N /\ f[n - 1] \in Seq(T) /\ seqs[n] \in Seq(T)
    BY <1>1
  <2>2. \A s, t \in Seq(T) : ToSet(s \o t) = ToSet(s) \union ToSet(t)
    BY ToSetJoined
  <2>3. ToSet(f[n]) = ToSet(f[n - 1]) \union ToSet(seqs[n])
    BY <1>2, <2>1, <2>2
  <2>4. 1..n = 1..n - 1 \union {n}
    BY <1>1
  <2>5. Upto(n) = Upto(n - 1) \union ToSet(seqs[n])
    BY <2>4
  <2> HIDE DEF Upto
  <2>6. n \in 0..N /\ ToSet(f[n - 1]) = Upto(n - 1)
    BY <1>1, <1>4
  <2>7. ToSet(f[n]) = Upto(n)
    BY <2>3, <2>5, <2>6
  <2> QED
    BY <2>6, <2>7
<1>5. N \in S
  <2> HIDE DEF S
  <2>1. \A n \in 0..N : n \in S
    BY <1>1, <1>3, <1>4, OneAfterTheOther
  <2> QED
    BY <1>1, <2>1
<1> QED
  BY <1>1, <1>2, <1>5 DEF N

LEMMA WeightedTyped ==
  ASSUME NEW list \in Seq(Candidate)
  PROVE  Weighted(list) \in Seq(Ranked)
<1> DEFINE Scored(r) == [list[r] EXCEPT !.fusion_score = Unit \div (rrf_k + r), !.rerank_score = Absent]
<1>1. Len(list) \in Nat /\ DOMAIN list = 1..Len(list) /\ \A r \in 1..Len(list) : list[r] \in Candidate
  OBVIOUS
<1>2. ASSUME NEW r \in 1..Len(list) PROVE Unit \div (rrf_k + r) \in Nat
  BY RankConstants
<1>3. ASSUME NEW r \in 1..Len(list) PROVE Scored(r) \in Ranked
  <2>1. ASSUME NEW c \in Candidate, NEW x \in Nat
        PROVE  [c EXCEPT !.fusion_score = x, !.rerank_score = Absent] \in Ranked
    <3> DEFINE d == [c EXCEPT !.fusion_score = x, !.rerank_score = Absent]
    <3>1. x \in Score /\ Absent \in Score
      BY DEF Score
    <3>2. d \in Candidate /\ d.fusion_score = x
      BY <3>1 DEF Candidate
    <3>3. d \in Ranked
      BY <3>2 DEF Ranked
    <3> QED
      BY <3>3 DEF d
  <2> QED
    BY <1>1, <1>2, <2>1
<1>4. Weighted(list) = [r \in 1..Len(list) |-> Scored(r)]
  BY <1>1 DEF Weighted
<1> HIDE DEF Scored
<1> QED
  BY <1>1, <1>3, <1>4

LEMMA FuseTyped ==
  ASSUME NEW candidates \in Seq(Ranked), NEW c \in Ranked
  PROVE  Fuse(candidates, c) \in Seq(Ranked)
<1>1. \A i \in DOMAIN candidates : candidates[i] \in Ranked
  OBVIOUS
<1>2. ASSUME NEW d \in Ranked PROVE Combined(d, c) \in Ranked
  <2> DEFINE f == d.fusion_score + c.fusion_score
             l == FirstOf(d.lexical_score, c.lexical_score)
             v == FirstOf(d.vector_score, c.vector_score)
             t == FirstOf(d.text_hash, c.text_hash)
             e == Combined(d, c)
  <2>1. d \in Candidate /\ c \in Candidate /\ d.fusion_score \in Nat /\ c.fusion_score \in Nat
    BY DEF Ranked
  <2>2. f \in Nat
    BY <2>1
  <2>3. l \in Score /\ v \in Score /\ t \in TextHash \union {Absent}
    BY <2>1 DEF FirstOf, Candidate
  <2> HIDE DEF l, v, t
  <2>4. f \in Score
    BY <2>2 DEF Score
  <2>5. e = [d EXCEPT !.fusion_score = f, !.lexical_score = l, !.vector_score = v, !.text_hash = t]
    BY DEF Combined, l, v, t
  <2> HIDE DEF f, e
  <2>6. e \in Candidate /\ e.fusion_score = f
    BY <2>1, <2>3, <2>4, <2>5 DEF Candidate
  <2>7. e \in Ranked
    BY <2>2, <2>6 DEF Ranked
  <2> QED
    BY <2>7 DEF e
<1>3. CASE PlaceOf(c.chunk_id, candidates) = {}
  BY <1>3 DEF Fuse
<1>4. CASE PlaceOf(c.chunk_id, candidates) # {}
  <2> DEFINE i == CHOOSE i \in PlaceOf(c.chunk_id, candidates) : TRUE
  <2>1. i \in DOMAIN candidates
    BY <1>4 DEF PlaceOf
  <2>2. Fuse(candidates, c) = [candidates EXCEPT ![i] = Combined(candidates[i], c)]
    BY <1>4, <2>1 DEF Fuse
  <2>3. Combined(candidates[i], c) \in Ranked
    BY <1>1, <1>2, <2>1
  <2> HIDE DEF i
  <2> QED
    BY <2>1, <2>2, <2>3
<1> QED
  BY <1>3, <1>4

\* Whatever the scores are, every candidate has a place and every place a candidate.
LEMMA ByFusionSorts ==
  ASSUME NEW candidates \in Seq(Ranked), NEW sorted, sorted = ByFusion(candidates)
  PROVE  /\ sorted \in Seq(Ranked) /\ Len(sorted) = Len(candidates)
         /\ \A m, n \in DOMAIN sorted : m < n => sorted[m].fusion_score >= sorted[n].fusion_score
<1> DEFINE N == Len(candidates)
           Precedes(i, j) == \/ candidates[i].fusion_score > candidates[j].fusion_score
                             \/ candidates[i].fusion_score = candidates[j].fusion_score /\ i < j
           Higher(i) == {j \in DOMAIN candidates : Precedes(j, i)}
           place == [i \in DOMAIN candidates |-> Cardinality(Higher(i)) + 1]
<1>1. N \in Nat /\ DOMAIN candidates = 1..N /\ \A i \in 1..N : candidates[i].fusion_score \in Nat
  BY DEF Ranked
<1>2. IsFiniteSet(1..N) /\ Cardinality(1..N) = N
  BY <1>1, FS_Interval
<1>3. \A i, j, k \in 1..N : /\ ~ Precedes(i, i) /\ (i # j => Precedes(i, j) \/ Precedes(j, i))
                            /\ Precedes(i, j) /\ Precedes(j, k) => Precedes(i, k)
  BY <1>1
<1> HIDE DEF Precedes, N
<1>4. ASSUME NEW i \in 1..N
      PROVE  IsFiniteSet(Higher(i)) /\ Cardinality(Higher(i)) \in 0..N - 1
  <2>1. Higher(i) \in SUBSET ((1..N) \ {i})
    BY <1>1, <1>3
  <2>2. IsFiniteSet((1..N) \ {i}) /\ Cardinality((1..N) \ {i}) = N - 1
    BY <1>2, FS_RemoveElement
  <2>3. IsFiniteSet(Higher(i)) /\ Cardinality(Higher(i)) <= N - 1
    <3> HIDE DEF Higher
    <3> QED
      BY <2>1, <2>2, FS_Subset
  <2>4. Cardinality(Higher(i)) \in Nat
    BY <2>3, FS_CardinalityType
  <2> QED
    BY <1>1, <2>3, <2>4
<1>5. ASSUME NEW i \in 1..N, NEW j \in 1..N, Precedes(i, j)
      PROVE  Cardinality(Higher(i)) < Cardinality(Higher(j))
  <2>1. Higher(i) \in SUBSET Higher(j) /\ i \in Higher(j) /\ i \notin Higher(i)
    BY <1>1, <1>3, <1>5
  <2> HIDE DEF Higher
  <2>2. Cardinality(Higher(i)) \in Nat /\ Cardinality(Higher(j)) \in Nat /\ IsFiniteSet(Higher(j))
    BY <1>1, <1>4
  <2>3. Cardinality(Higher(i)) <= Cardinality(Higher(j)) /\ (Cardinality(Higher(j)) = Cardinality(Higher(i)) => Higher(j) = Higher(i))
    BY <2>1, <2>2, FS_Subset
  <2> QED
    BY <2>1, <2>2, <2>3
<1>6. place \in [1..N -> 1..N]
  <2>1. \A i \in 1..N : Cardinality(Higher(i)) + 1 \in 1..N
    <3> HIDE DEF Higher
    <3> QED
      BY <1>1, <1>4
  <2> QED
    BY <1>1, <2>1
<1>7. \A i, j \in 1..N : Precedes(i, j) => place[i] < place[j]
  <2> HIDE DEF Higher
  <2> QED
    BY <1>1, <1>4, <1>5
<1>8. sorted = [n \in DOMAIN candidates |-> candidates[CHOOSE i \in DOMAIN candidates : place[i] = n]]
  BY DEF ByFusion, Precedes
<1> HIDE DEF place
<1>9. \A i, j \in 1..N : place[i] = place[j] => i = j
  BY <1>1, <1>3, <1>6, <1>7
<1>10. \A n \in 1..N : \E i \in 1..N : place[i] = n
  <2>1. place \in Injection(1..N, 1..N)
    BY <1>6, <1>9 DEF Injection, IsInjective
  <2>2. place \in Surjection(1..N, 1..N)
    BY <1>2, <2>1, FS_Injection
  <2> QED
    BY <2>2 DEF Surjection
<1> DEFINE at(n) == CHOOSE i \in DOMAIN candidates : place[i] = n
<1>11. \A n \in 1..N : at(n) \in 1..N /\ place[at(n)] = n
  BY <1>1, <1>10
<1>12. DOMAIN sorted = 1..N /\ \A n \in 1..N : sorted[n] = candidates[at(n)]
  BY <1>1, <1>8
<1> HIDE DEF at
<1>13. sorted \in Seq(Ranked) /\ Len(sorted) = N
  <2>1. \A n \in 1..N : sorted[n] \in Ranked
    BY <1>1, <1>11, <1>12
  <2>2. sorted = [n \in 1..N |-> sorted[n]]
    BY <1>8, <1>12
  <2> QED
    BY <1>1, <2>1, <2>2
<1>14. ASSUME NEW m \in DOMAIN sorted, NEW n \in DOMAIN sorted, m < n
       PROVE  sorted[m].fusion_score >= sorted[n].fusion_score
  <2>1. at(m) \in 1..N /\ at(n) \in 1..N /\ place[at(m)] = m /\ place[at(n)] = n
    BY <1>11, <1>12
  <2>2. ~ Precedes(at(n), at(m)) /\ at(m) # at(n)
    BY <1>1, <1>7, <1>12, <1>14, <2>1
  <2>3. Precedes(at(m), at(n))
    BY <1>3, <2>1, <2>2
  <2> QED
    BY <1>1, <1>12, <2>1, <2>3 DEF Precedes
<1> QED
  BY <1>13, <1>14 DEF N

\* Whatever lists are fused: rrf answers candidates, the best first.
THEOREM FusionSorts ==
  ASSUME NEW results \in Seq(Seq(Candidate)), NEW sorted, sorted = rrf(results)
  PROVE  /\ sorted \in Seq(Ranked)
         /\ \A m, n \in DOMAIN sorted : m < n => sorted[m].fusion_score >= sorted[n].fusion_score
<1> DEFINE lists1 == [l \in DOMAIN results |-> Weighted(results[l])]
           all == FlattenSeq(lists1)
           N == Len(all)
           Solves(f) == f = [n \in 0..N |-> IF n = 0 THEN <<>> ELSE Fuse(f[n - 1], all[n])]
<1>1. all \in Seq(Ranked)
  <2>1. Len(results) \in Nat /\ DOMAIN results = 1..Len(results) /\ \A l \in DOMAIN results : results[l] \in Seq(Candidate)
    OBVIOUS
  <2>2. \A l \in DOMAIN results : Weighted(results[l]) \in Seq(Ranked)
    BY <2>1, WeightedTyped
  <2>3. lists1 \in Seq(Seq(Ranked))
    BY <2>1, <2>2
  <2> HIDE DEF lists1
  <2> QED
    BY <2>3, FlattenTyped
<1> HIDE DEF all
<1>2. N \in Nat /\ \A n \in 1..N : all[n] \in Ranked
  BY <1>1
<1>3. \E f : Solves(f)
  <2> DEFINE step == [p \in (1..N) \X Seq(Ranked) |-> Fuse(p[2], all[p[1]])]
  <2>1. step \in [(1..N) \X Seq(Ranked) -> Seq(Ranked)]
    <3>1. \A p \in (1..N) \X Seq(Ranked) : p[2] \in Seq(Ranked) /\ all[p[1]] \in Ranked
      BY <1>2
    <3>2. \A p \in (1..N) \X Seq(Ranked) : Fuse(p[2], all[p[1]]) \in Seq(Ranked)
      BY <3>1, FuseTyped
    <3> QED
      BY <3>2
  <2>2. <<>> \in Seq(Ranked)
    OBVIOUS
  <2> HIDE DEF step, N, Solves
  <2>3. PICK f : Runs(f, N, Seq(Ranked), <<>>, step)
    BY <1>2, <2>1, <2>2, StepByStep
  <2>4. ASSUME NEW n \in 1..N PROVE f[n] = Fuse(f[n - 1], all[n])
    <3>1. n - 1 \in 0..N /\ f[n - 1] \in Seq(Ranked)
      BY <1>2, <2>3 DEF Runs
    <3>2. step[<<n, f[n - 1]>>] = Fuse(f[n - 1], all[n])
      BY <3>1 DEF step
    <3> QED
      BY <2>3, <3>1, <3>2 DEF Runs
  <2>5. \A n \in 0..N : f[n] = IF n = 0 THEN <<>> ELSE Fuse(f[n - 1], all[n])
    BY <1>2, <2>3, <2>4 DEF Runs
  <2>6. Solves(f)
    BY <2>3, <2>5 DEF Runs, Solves
  <2> QED
    BY <2>6
<1>4. PICK f : Solves(f) /\ rrf(results) = ByFusion(f[N])
  <2> DEFINE g == CHOOSE f : Solves(f)
  <2>1. Solves(g)
    BY <1>3
  <2>2. rrf(results) = ByFusion(g[N])
    BY DEF rrf, all
  <2> QED
    BY <2>1, <2>2
<1>5. f[0] = <<>> /\ \A n \in 1..N : f[n] = Fuse(f[n - 1], all[n])
  BY <1>2, <1>4
<1> HIDE DEF Solves
<1> DEFINE S == {n \in 0..N : f[n] \in Seq(Ranked)}
<1>6. 0 \in S
  <2>1. <<>> \in Seq(Ranked) /\ 0 \in 0..N
    BY <1>2
  <2> QED
    BY <1>5, <2>1
<1>7. ASSUME NEW n \in 1..N, n - 1 \in S PROVE n \in S
  <2>1. f[n - 1] \in Seq(Ranked) /\ all[n] \in Ranked
    BY <1>2, <1>7
  <2>2. f[n] \in Seq(Ranked)
    BY <1>5, <2>1, FuseTyped
  <2> QED
    BY <1>2, <2>2
<1>8. f[N] \in Seq(Ranked)
  <2> HIDE DEF S, N
  <2>1. \A n \in 0..N : n \in S
    BY <1>2, <1>6, <1>7, OneAfterTheOther
  <2> QED
    BY <1>2, <2>1 DEF S
<1> QED
  BY <1>4, <1>8, ByFusionSorts

-----------------------------------------------------------------------------
(* A query *)

Candidates == ranking.step \in {"fused", "pooled"} => ranking.candidates \in Seq(Candidate)

RankInv == /\ lists = <<>> \/ lists \in Recalled
           /\ Candidates
           /\ BestIsKept

LEMMA RankInvStep == RankInv /\ [RankNext]_rankVars => RankInv'
<1> SUFFICES ASSUME RankInv, [RankNext]_rankVars PROVE RankInv'
  OBVIOUS
<1>1. ASSUME lists \in Recalled PROVE lists \in Seq(Seq(Candidate))
  BY <1>1, RankConstants
<1>2. CASE UNCHANGED rankVars
  BY <1>2 DEF RankInv, Candidates, BestIsKept, rankVars
<1>3. CASE Recall
  BY <1>3 DEF Recall, RankInv, Candidates, BestIsKept
<1>4. CASE FuseLists
  <2>1. rrf(lists) \in Seq(Candidate)
    <3>1. lists \in Seq(Seq(Candidate))
      BY <1>1, <1>4 DEF FuseLists, RankInv
    <3>2. rrf(lists) \in Seq(Ranked)
      BY <3>1, FusionSorts
    <3> QED
      BY <3>2 DEF Ranked
  <2>2. ranking'.step = "fused" /\ ranking'.candidates = rrf(lists) /\ lists' = lists
    BY <1>4 DEF FuseLists
  <2> QED
    BY <2>1, <2>2 DEF RankInv, Candidates, BestIsKept
<1>5. CASE Pool
  <2>1. FlattenSeq(lists) \in Seq(Candidate)
    BY <1>1, <1>5, FlattenTyped DEF Pool, RankInv
  <2>2. ranking'.step = "pooled" /\ ranking'.candidates = FlattenSeq(lists) /\ lists' = lists
    BY <1>5 DEF Pool
  <2> QED
    BY <2>1, <2>2 DEF RankInv, Candidates, BestIsKept
<1>6. CASE RemoveDuplicates
  <2>1. ranking.candidates \in Seq(Candidate)
    BY <1>6 DEF RemoveDuplicates, RankInv, Candidates
  <2>2. /\ ranking'.step = "unique" /\ ranking'.candidates = ranking.candidates
        /\ ranking'.kept = dedup_candidates(ranking.candidates) /\ lists' = lists
    BY <1>6 DEF RemoveDuplicates
  <2>3. BestIsKept'
    BY <2>1, <2>2, BestStay DEF BestIsKept, First
  <2> QED
    BY <2>2, <2>3 DEF RankInv, Candidates
<1> QED
  BY <1>2, <1>3, <1>4, <1>5, <1>6 DEF RankNext

\* Whatever the channels answered, fused or only pooled: no duplicate is left and none that
\* was better is lost (dedup_candidates).
THEOREM BestSurvive == RankSpec => []BestIsKept
<1>1. RankInit => RankInv
  BY DEF RankInit, RankInv, Candidates, BestIsKept
<1>2. RankInv => BestIsKept
  BY DEF RankInv
<1> QED
  BY <1>1, <1>2, RankInvStep, PTL DEF RankSpec

-----------------------------------------------------------------------------
(* Sums *)

LEMMA SummedIs ==
  ASSUME NEW s \in Seq(Nat)
  PROVE  \E f \in [0..Len(s) -> Nat] :
           /\ f[0] = 0 /\ \A n \in 1..Len(s) : f[n] = f[n - 1] + s[n]
           /\ Summed(s) = f[Len(s)]
<1> DEFINE N == Len(s)
           Solves(f) == f = [n \in 0..N |-> IF n = 0 THEN 0 ELSE f[n - 1] + s[n]]
           step == [p \in (1..N) \X Nat |-> p[2] + s[p[1]]]
<1>1. N \in Nat /\ \A n \in 1..N : s[n] \in Nat
  OBVIOUS
<1>2. Summed(s) = (CHOOSE f : Solves(f))[N]
  BY DEF Summed
<1>3. step \in [(1..N) \X Nat -> Nat]
  BY <1>1
<1>4. \A n \in 1..N, v \in Nat : step[<<n, v>>] = v + s[n]
  OBVIOUS
<1> HIDE DEF N, step, Solves
<1>5. PICK f : Runs(f, N, Nat, 0, step)
  BY <1>1, <1>3, StepByStep
<1>6. f \in [0..N -> Nat] /\ f[0] = 0 /\ \A n \in 1..N : f[n] = f[n - 1] + s[n]
  <2>1. \A n \in 1..N : n - 1 \in 0..N
    BY <1>1
  <2> QED
    BY <1>4, <1>5, <2>1 DEF Runs
<1>7. Solves(f)
  <2>1. \A n \in 0..N : f[n] = IF n = 0 THEN 0 ELSE f[n - 1] + s[n]
    BY <1>1, <1>6
  <2> QED
    BY <1>6, <2>1 DEF Solves
<1> DEFINE g == CHOOSE h : Solves(h)
<1>8. Solves(g) /\ Summed(s) = g[N]
  BY <1>2, <1>7
<1> HIDE DEF g
<1>9. g[0] = 0 /\ \A n \in 1..N : g[n] = g[n - 1] + s[n]
  BY <1>1, <1>8 DEF Solves
<1>10. \A n \in 0..N : g[n] \in Nat
  <2> DEFINE S == {n \in 0..N : g[n] \in Nat}
  <2>1. 0 \in S
    BY <1>1, <1>9
  <2>2. \A n \in 1..N : n - 1 \in S => n \in S
    BY <1>1, <1>9
  <2> HIDE DEF S
  <2>3. \A n \in 0..N : n \in S
    BY <1>1, <2>1, <2>2, OneAfterTheOther
  <2> QED
    BY <2>3 DEF S
<1>11. g \in [0..N -> Nat]
  BY <1>8, <1>10 DEF Solves
<1> QED
  BY <1>8, <1>9, <1>11 DEF N

LEMMA SummedTyped ==
  ASSUME NEW s \in Seq(Nat)
  PROVE  Summed(s) \in Nat
<1>1. Len(s) \in 0..Len(s)
  OBVIOUS
<1> QED
  BY <1>1, SummedIs

\* One more number adds itself.
LEMMA SummedMore ==
  ASSUME NEW s \in Seq(Nat), NEW x \in Nat
  PROVE  Summed(Append(s, x)) = Summed(s) + x
<1> DEFINE t == Append(s, x)
           N == Len(s)
<1>1. t \in Seq(Nat) /\ Len(t) = N + 1 /\ N \in Nat /\ t[N + 1] = x /\ \A n \in 1..N : t[n] = s[n]
  OBVIOUS
<1>2. PICK f \in [0..N -> Nat] :
        f[0] = 0 /\ (\A n \in 1..N : f[n] = f[n - 1] + s[n]) /\ Summed(s) = f[N]
  BY SummedIs
<1> HIDE DEF t
<1>3. PICK g \in [0..Len(t) -> Nat] :
        g[0] = 0 /\ (\A n \in 1..Len(t) : g[n] = g[n - 1] + t[n]) /\ Summed(t) = g[Len(t)]
  BY <1>1, SummedIs
<1> DEFINE S == {n \in 0..N : g[n] = f[n]}
<1>4. 0 \in S
  BY <1>1, <1>2, <1>3
<1>5. \A n \in 1..N : n - 1 \in S => n \in S
  <2>1. \A n \in 1..N : n \in 1..Len(t)
    BY <1>1
  <2> QED
    BY <1>1, <1>2, <1>3, <2>1
<1> HIDE DEF N
<1>6. N \in S
  <2> HIDE DEF S
  <2>1. \A n \in 0..N : n \in S
    BY <1>1, <1>4, <1>5, OneAfterTheOther
  <2> QED
    BY <1>1, <2>1
<1>7. g[N + 1] = g[N] + x
  <2> DEFINE k == N + 1
  <2>1. k \in 1..Len(t) /\ k - 1 = N /\ t[k] = x
    BY <1>1
  <2> HIDE DEF k
  <2>2. g[k] = g[k - 1] + t[k]
    BY <1>3, <2>1
  <2>3. g[k] = g[N] + x
    BY <2>1, <2>2
  <2> QED
    BY <2>3 DEF k
<1>8. Summed(t) = Summed(s) + x
  BY <1>1, <1>2, <1>3, <1>6, <1>7
<1> QED
  BY <1>8 DEF t

LEMMA SummedNothing == Summed(<<>>) = 0
<1>1. <<>> \in Seq(Nat) /\ Len(<<>>) = 0
  OBVIOUS
<1> QED
  BY <1>1, SummedIs

LEMMA BlockFields ==
  ASSUME NEW b \in Block
  PROVE  /\ b.id \in Nat /\ b.title \in Nat /\ b.page \in Nat /\ b.reading_order \in Nat
         /\ b.block_type \in BlockType /\ b.level \in Int /\ b.tokens \in Nat
         /\ b.sentences \in Seq(Nat) /\ b.sentences # <<>>
BY DEF Block

LEMMA TokensInTyped ==
  ASSUME NEW blocks \in Seq(Block)
  PROVE  TokensIn(blocks) \in Nat
<1>1. \A i \in DOMAIN blocks : blocks[i].tokens \in Nat
  BY BlockFields
<1>2. [i \in DOMAIN blocks |-> blocks[i].tokens] \in Seq(Nat)
  BY <1>1
<1> QED
  BY <1>2, SummedTyped DEF TokensIn

LEMMA TokensInMore ==
  ASSUME NEW blocks \in Seq(Block), NEW b \in Block
  PROVE  TokensIn(Append(blocks, b)) = TokensIn(blocks) + b.tokens
<1> DEFINE t == [i \in DOMAIN blocks |-> blocks[i].tokens]
           more == Append(blocks, b)
           u == [i \in DOMAIN more |-> more[i].tokens]
<1>1. b.tokens \in Nat /\ \A i \in DOMAIN blocks : blocks[i].tokens \in Nat
  BY BlockFields
<1>2. t \in Seq(Nat) /\ Len(t) = Len(blocks)
  BY <1>1
<1>3. u = Append(t, b.tokens)
  <2>1. /\ DOMAIN more = 1..Len(blocks) + 1 /\ more[Len(blocks) + 1] = b
        /\ \A i \in 1..Len(blocks) : more[i] = blocks[i]
    OBVIOUS
  <2>2. DOMAIN t = 1..Len(blocks) /\ Len(blocks) \in Nat
    OBVIOUS
  <2> HIDE DEF more
  <2>3. u \in Seq(Nat) /\ Len(u) = Len(blocks) + 1
    <3>1. \A i \in 1..Len(blocks) + 1 : more[i].tokens \in Nat
      BY <1>1, <2>1
    <3> QED
      BY <2>1, <2>2, <3>1
  <2>4. \A i \in 1..Len(blocks) + 1 : u[i] = Append(t, b.tokens)[i]
    <3> TAKE i \in 1..Len(blocks) + 1
    <3>1. CASE i = Len(blocks) + 1
      BY <1>2, <2>1, <3>1
    <3>2. CASE i # Len(blocks) + 1
      <4>1. i \in 1..Len(blocks) /\ i \in DOMAIN more
        BY <2>1, <3>2
      <4>2. u[i] = blocks[i].tokens
        BY <2>1, <4>1
      <4>3. Append(t, b.tokens)[i] = t[i]
        BY <1>2, <4>1
      <4> QED
        BY <4>1, <4>2, <4>3
    <3> QED
      BY <3>1, <3>2
  <2>5. Append(t, b.tokens) \in Seq(Nat) /\ Len(Append(t, b.tokens)) = Len(blocks) + 1
    BY <1>1, <1>2
  <2> HIDE DEF u, t
  <2> QED
    BY <2>3, <2>4, <2>5
<1> HIDE DEF t
<1>4. Summed(u) = Summed(t) + b.tokens
  BY <1>1, <1>2, <1>3, SummedMore
<1> QED
  BY <1>4 DEF TokensIn, t

LEMMA TokensInNothing == TokensIn(<<>>) = 0
<1>1. [i \in DOMAIN <<>> |-> <<>>[i].tokens] = <<>>
  OBVIOUS
<1> QED
  BY <1>1, SummedNothing DEF TokensIn

LEMMA TokensInOne ==
  ASSUME NEW b \in Block
  PROVE  TokensIn(<<b>>) = b.tokens
<1>1. <<b>> = Append(<<>>, b)
  OBVIOUS
<1>2. <<>> \in Seq(Block) /\ b.tokens \in Nat
  BY BlockFields
<1>3. TokensIn(Append(<<>>, b)) = 0 + b.tokens
  BY <1>2, TokensInMore, TokensInNothing
<1> QED
  BY <1>1, <1>2, <1>3

LEMMA CharsTyped ==
  ASSUME NEW b \in Block, NEW s \in Seq(DOMAIN b.sentences)
  PROVE  CharsOf(b, s) \in Nat
<1>1. b.sentences \in Seq(Nat)
  BY BlockFields
<1>2. [i \in DOMAIN s |-> b.sentences[s[i]]] \in Seq(Nat)
  <2>1. \A i \in DOMAIN s : b.sentences[s[i]] \in Nat
    BY <1>1
  <2> QED
    BY <2>1
<1> QED
  BY <1>2, SummedTyped DEF CharsOf

LEMMA ShareTyped ==
  ASSUME NEW b \in Block, NEW s \in Seq(DOMAIN b.sentences)
  PROVE  ShareOf(b, s) \in Nat
<1> DEFINE every == [k \in DOMAIN b.sentences |-> k]
           total == CharsOf(b, every)
           c == IF total = 0 THEN 1 ELSE total
           a == b.tokens * CharsOf(b, s)
<1>1. every \in Seq(DOMAIN b.sentences)
  <2>1. b.sentences \in Seq(Nat)
    BY BlockFields
  <2> QED
    BY <2>1
<1>2. CharsOf(b, every) \in Nat /\ CharsOf(b, s) \in Nat
  <2> HIDE DEF every
  <2> QED
    BY <1>1, CharsTyped
<1>3. c \in Nat /\ c > 0
  BY <1>2
<1>4. a \in Nat
  <2>1. b.tokens \in Nat
    BY BlockFields
  <2> QED
    BY <1>2, <2>1
<1> HIDE DEF a, c
<1>5. a \div c \in Nat
  BY <1>3, <1>4
<1>6. RoundedShare(a, c) \in {a \div c, a \div c + 1}
  BY DEF RoundedShare
<1> QED
  BY <1>5, <1>6 DEF ShareOf, a, c

-----------------------------------------------------------------------------
(* The blocks in order, and their pages *)

LEMMA MostOf ==
  ASSUME NEW S, S \subseteq Nat, S # {}, NEW top \in Nat, \A x \in S : x <= top
  PROVE  Max(S) \in S /\ Max(S) \in Nat
<1> DEFINE Under == {top - x : x \in S}
<1>1. Under \subseteq Nat /\ Under # {}
  <2>1. \A x \in S : x \in Nat /\ x <= top
    OBVIOUS
  <2>2. \A x \in S : top - x \in Nat
    BY <2>1
  <2> QED
    BY <2>2
<1>2. PICK d \in Under : \A e \in Under : d <= e
  <2> HIDE DEF Under
  <2> QED
    BY <1>1, LeastOf
<1>3. PICK x \in S : d = top - x
  OBVIOUS
<1>4. \A y \in S : x >= y
  <2> TAKE y \in S
  <2>1. top - x <= top - y
    BY <1>2, <1>3
  <2>2. x \in Nat /\ y \in Nat
    OBVIOUS
  <2> QED
    BY <2>1, <2>2
<1> QED
  BY <1>4 DEF Max

LEMMA MostIs ==
  ASSUME NEW S, S \subseteq Nat, S # {}, NEW top \in Nat, \A x \in S : x <= top
  PROVE  \A x \in S : Max(S) >= x
<1> DEFINE Under == {top - x : x \in S}
<1>1. Under \subseteq Nat /\ Under # {}
  <2>1. \A x \in S : x \in Nat /\ x <= top
    OBVIOUS
  <2>2. \A x \in S : top - x \in Nat
    BY <2>1
  <2> QED
    BY <2>2
<1>2. PICK d \in Under : \A e \in Under : d <= e
  <2> HIDE DEF Under
  <2> QED
    BY <1>1, LeastOf
<1>3. PICK x \in S : d = top - x
  OBVIOUS
<1>4. \A y \in S : x >= y
  <2> TAKE y \in S
  <2>1. top - x <= top - y
    BY <1>2, <1>3
  <2>2. x \in Nat /\ y \in Nat
    OBVIOUS
  <2> QED
    BY <2>1, <2>2
<1> QED
  BY <1>4 DEF Max

LEMMA MaxOfTwo ==
  ASSUME NEW a \in Int, NEW b \in Int
  PROVE  Max({a, b}) \in {a, b} /\ Max({a, b}) >= a /\ Max({a, b}) >= b
<1>1. \E x \in {a, b} : \A y \in {a, b} : x >= y
  <2>1. CASE a >= b
    BY <2>1
  <2>2. CASE ~ (a >= b)
    BY <2>2
  <2> QED
    BY <2>1, <2>2
<1> QED
  BY <1>1 DEF Max

LEMMA SomeTop ==
  ASSUME NEW s \in Seq(Nat)
  PROVE  \E top \in Nat : \A i \in DOMAIN s : s[i] <= top
<1> DEFINE N == Len(s)
           S == {n \in 0..N : \E top \in Nat : \A i \in 1..n : s[i] <= top}
<1>1. N \in Nat /\ DOMAIN s = 1..N /\ \A i \in 1..N : s[i] \in Nat
  OBVIOUS
<1>2. 0 \in S
  <2>1. 0 \in Nat /\ 1..0 = {}
    OBVIOUS
  <2> QED
    BY <1>1, <2>1
<1>3. ASSUME NEW n \in 1..N, n - 1 \in S PROVE n \in S
  <2>1. PICK top \in Nat : \A i \in 1..n - 1 : s[i] <= top
    BY <1>3
  <2> DEFINE next == IF s[n] <= top THEN top ELSE s[n]
  <2>2. next \in Nat /\ s[n] <= next /\ top <= next
    BY <1>1
  <2> HIDE DEF next
  <2>3. \A i \in 1..n : s[i] <= next
    <3> TAKE i \in 1..n
    <3>1. CASE i = n
      BY <2>2, <3>1
    <3>2. CASE i # n
      <4>1. i \in 1..n - 1 /\ s[i] \in Nat
        BY <1>1, <3>2
      <4> QED
        BY <2>1, <2>2, <4>1
    <3> QED
      BY <3>1, <3>2
  <2> QED
    BY <1>1, <2>2, <2>3
<1>4. N \in S
  <2> HIDE DEF S, N
  <2>1. \A n \in 0..N : n \in S
    BY <1>1, <1>2, <1>3, OneAfterTheOther
  <2> QED
    BY <1>1, <2>1
<1> QED
  BY <1>1, <1>4

LEMMA PagesTyped ==
  ASSUME NEW blocks \in Seq(Block), blocks # <<>>
  PROVE  Min(PagesOf(blocks)) \in Nat /\ Max(PagesOf(blocks)) \in Nat
<1> DEFINE pages == PagesOf(blocks)
           s == [i \in DOMAIN blocks |-> blocks[i].page]
<1>1. pages = {blocks[i].page : i \in DOMAIN blocks}
  BY DEF PagesOf, ToSet
<1>2. \A i \in DOMAIN blocks : blocks[i].page \in Nat
  BY BlockFields
<1>3. s \in Seq(Nat) /\ DOMAIN s = DOMAIN blocks /\ \A i \in DOMAIN blocks : s[i] = blocks[i].page
  BY <1>2
<1> HIDE DEF s
<1>4. PICK top \in Nat : \A i \in DOMAIN s : s[i] <= top
  BY <1>3, SomeTop
<1>5. pages \subseteq Nat /\ pages # {} /\ \A x \in pages : x <= top
  <2>1. 1 \in DOMAIN blocks
    OBVIOUS
  <2> QED
    BY <1>1, <1>2, <1>3, <1>4, <2>1
<1> HIDE DEF pages
<1>6. Min(pages) \in Nat /\ Max(pages) \in Nat
  BY <1>5, LeastExists, MostOf
<1> QED
  BY <1>6 DEF pages

\* The blocks in order are the blocks, each once, and their pages go up.
LEMMA OrderedBy ==
  ASSUME NEW blocks \in Seq(Block)
  PROVE  \E at \in [DOMAIN blocks -> DOMAIN blocks] :
           /\ Ordered(blocks) = [n \in DOMAIN blocks |-> blocks[at[n]]]
           /\ \A m, n \in DOMAIN blocks : at[m] = at[n] => m = n
           /\ \A i \in DOMAIN blocks : \E n \in DOMAIN blocks : at[n] = i
           /\ \A m, n \in DOMAIN blocks : m < n => blocks[at[m]].page <= blocks[at[n]].page
<1> DEFINE S == DOMAIN blocks
           Earlier(i, j) == \/ blocks[i].page < blocks[j].page
                            \/ /\ blocks[i].page = blocks[j].page
                               /\ \/ blocks[i].reading_order < blocks[j].reading_order
                                  \/ blocks[i].reading_order = blocks[j].reading_order /\ i < j
           R == {p \in S \X S : Earlier(p[1], p[2])}
           place == [i \in S |-> Cardinality({j \in S : Earlier(j, i)}) + 1]
           at == [n \in S |-> CHOOSE i \in S : place[i] = n]
<1>1. /\ S = 1..Len(blocks) /\ Len(blocks) \in Nat /\ \A i \in S : blocks[i] \in Block
      /\ \A i \in S : i \in Nat
  OBVIOUS
<1>2. IsFiniteSet(S) /\ Cardinality(S) = Len(blocks)
  BY <1>1, FS_Interval
<1>3. \A i \in S : blocks[i].page \in Nat /\ blocks[i].reading_order \in Nat
  BY <1>1, BlockFields
<1>4. \A i, j, k \in S : /\ ~Earlier(i, i) /\ (i # j => Earlier(i, j) \/ Earlier(j, i))
                         /\ (Earlier(i, j) /\ Earlier(j, k) => Earlier(i, k))
  BY <1>1, <1>3
<1>5. Ordered(blocks) = [n \in S |-> blocks[CHOOSE i \in S : place[i] = n]]
  BY DEF Ordered
<1>6. \A i, j \in S : Earlier(i, j) => blocks[i].page <= blocks[j].page
  BY <1>3
<1> HIDE DEF Earlier
<1>7. \A i, j \in S : <<i, j>> \in R <=> Earlier(i, j)
  OBVIOUS
<1>8. place = PlaceIn(R, S)
  <2>1. \A i \in S : {j \in S : <<j, i>> \in R} = {j \in S : Earlier(j, i)}
    BY <1>7
  <2> HIDE DEF R
  <2> QED
    BY <2>1 DEF PlaceIn
<1>9. Orders(R, S)
  <2> HIDE DEF R, S
  <2> QED
    BY <1>4, <1>7 DEF Orders
<1> HIDE DEF place, R
<1>10. Places(R, S, place)
  <2> HIDE DEF S
  <2> QED
    BY <1>2, <1>8, <1>9, EveryPlaceIsTaken
<1>11. \A n \in S : at[n] \in S /\ place[at[n]] = n
  <2>1. \A n \in S : \E i \in S : place[i] = n
    BY <1>1, <1>2, <1>10 DEF Places
  <2> QED
    BY <2>1
<1>12. Ordered(blocks) = [n \in S |-> blocks[at[n]]]
  BY <1>5
<1>13. at \in [S -> S]
  BY <1>11
<1> HIDE DEF at
<1>14. \A m, n \in S : at[m] = at[n] => m = n
  BY <1>11
<1>15. \A i \in S : \E n \in S : at[n] = i
  <2> TAKE i \in S
  <2>1. place[i] \in S
    BY <1>1, <1>2, <1>10 DEF Places
  <2> DEFINE n == place[i]
  <2> HIDE DEF n
  <2>3. n \in S /\ at[n] \in S /\ place[at[n]] = n /\ place[i] = n
    BY <1>11, <2>1 DEF n
  <2>2. at[n] = i
    BY <1>10, <2>3 DEF Places
  <2> QED
    BY <2>2, <2>3
<1>16. ASSUME NEW m \in S, NEW n \in S, m < n PROVE blocks[at[m]].page <= blocks[at[n]].page
  <2>3. at[m] \in S /\ at[n] \in S /\ place[at[m]] = m /\ place[at[n]] = n
    BY <1>11
  <2>4. m # n
    BY <1>1, <1>16
  <2>1. at[m] \in S /\ at[n] \in S /\ at[m] # at[n] /\ place[at[m]] = m /\ place[at[n]] = n
    BY <2>3, <2>4
  <2>2. ~ Earlier(at[n], at[m])
    <3>2. Earlier(at[n], at[m]) => <<at[n], at[m]>> \in R
      BY <1>7, <2>1
    <3>3. <<at[n], at[m]>> \in R => place[at[n]] < place[at[m]]
      <4> HIDE DEF S
      <4> QED
        BY <1>10, <2>1 DEF Places
    <3>1. Earlier(at[n], at[m]) => n < m
      BY <2>1, <3>2, <3>3
    <3> QED
      BY <1>1, <1>16, <3>1
  <2>5. Earlier(at[m], at[n])
    BY <1>4, <2>1, <2>2
  <2> QED
    BY <1>6, <2>1, <2>5
<1> QED
  BY <1>12, <1>13, <1>14, <1>15, <1>16

LEMMA OrderedTyped ==
  ASSUME NEW blocks \in Seq(Block)
  PROVE  Ordered(blocks) \in Seq(Block) /\ Len(Ordered(blocks)) = Len(blocks)
<1>1. PICK at \in [DOMAIN blocks -> DOMAIN blocks] : Ordered(blocks) = [n \in DOMAIN blocks |-> blocks[at[n]]]
  BY OrderedBy
<1>2. DOMAIN blocks = 1..Len(blocks) /\ Len(blocks) \in Nat /\ \A i \in DOMAIN blocks : blocks[i] \in Block
  OBVIOUS
<1>3. Ordered(blocks) \in [1..Len(blocks) -> Block]
  BY <1>1, <1>2
<1> QED
  BY <1>2, <1>3

-----------------------------------------------------------------------------
(* The tree of a document *)

AtomicBlock == {b \in Block : b.block_type \in ATOMIC_TYPES}

\* What a path is made of.
Label == Nat \union {"virtual", "references"}

\* A group of atomic blocks holds no other blocks.
TreeNode ==
  {n \in [kind : {"SECTION", "VIRTUAL_SECTION", "ATOMIC_GROUP", "REFERENCES"}, structure_path : Seq(Label),
          heading_level : Int, blocks : Seq(Block), page_from : Nat, page_to : Nat] :
     n.kind = "ATOMIC_GROUP" => n.blocks \in Seq(AtomicBlock)}

\* The open sections are sections of the tree, and after a heading there is one.
OpenSections(w) ==
  /\ \A i \in DOMAIN w.stack : w.stack[i] \in DOMAIN w.nodes /\ w.nodes[w.stack[i]].kind = "SECTION"
  /\ w.saw_heading => w.stack # <<>>

TreeWork ==
  {w \in [nodes : Seq(TreeNode), stack : Seq(Nat), saw_heading : BOOLEAN, atomic_buf : Seq(AtomicBlock),
          header_footer : Seq(Block), references : Seq(Block)] : OpenSections(w)}

LEMMA WorkFields ==
  ASSUME NEW w \in TreeWork
  PROVE  /\ w.nodes \in Seq(TreeNode) /\ w.stack \in Seq(Nat) /\ w.saw_heading \in BOOLEAN
         /\ w.atomic_buf \in Seq(AtomicBlock) /\ w.header_footer \in Seq(Block) /\ w.references \in Seq(Block)
         /\ OpenSections(w)
BY DEF TreeWork

\* A change to any of its parts that keeps them what they are.
LEMMA WorkGoesOn ==
  ASSUME NEW w \in TreeWork, NEW nodes \in Seq(TreeNode), NEW stack \in Seq(Nat), NEW saw \in BOOLEAN,
         NEW buf \in Seq(AtomicBlock), NEW footer \in Seq(Block), NEW references \in Seq(Block),
         \A i \in DOMAIN stack : stack[i] \in DOMAIN nodes /\ nodes[stack[i]].kind = "SECTION",
         saw => stack # <<>>
  PROVE  [w EXCEPT !.nodes = nodes, !.stack = stack, !.saw_heading = saw, !.atomic_buf = buf,
                   !.header_footer = footer, !.references = references] \in TreeWork
BY DEF TreeWork, OpenSections

LEMMA StartedTyped == Started \in TreeWork
BY DEF Started, TreeWork, OpenSections

LEMMA NodeFields ==
  ASSUME NEW n \in TreeNode
  PROVE  /\ n.kind \in {"SECTION", "VIRTUAL_SECTION", "ATOMIC_GROUP", "REFERENCES"}
         /\ n.structure_path \in Seq(Label) /\ n.heading_level \in Int /\ n.blocks \in Seq(Block)
         /\ n.page_from \in Nat /\ n.page_to \in Nat
         /\ n.kind = "ATOMIC_GROUP" => n.blocks \in Seq(AtomicBlock)
BY DEF TreeNode

LEMMA AtomicAreBlocks ==
  ASSUME NEW s \in Seq(AtomicBlock)
  PROVE  s \in Seq(Block)
<1>1. \A i \in DOMAIN s : s[i] \in Block
  BY DEF AtomicBlock
<1> QED
  BY <1>1

LEMMA NodeTyped ==
  ASSUME NEW kind \in {"SECTION", "VIRTUAL_SECTION", "ATOMIC_GROUP", "REFERENCES"}, NEW path \in Seq(Label),
         NEW level \in Int, NEW blocks \in Seq(Block), NEW pages, Min(pages) \in Nat, Max(pages) \in Nat,
         kind = "ATOMIC_GROUP" => blocks \in Seq(AtomicBlock)
  PROVE  Node(kind, path, level, blocks, pages) \in TreeNode
BY DEF Node, TreeNode

LEMMA OnePage ==
  ASSUME NEW page \in Nat
  PROVE  Min({page}) = page /\ Max({page}) = page
<1>1. Min({page}) \in {page}
  BY LeastExists
<1>2. Max({page}) \in {page}
  <2>1. \A x \in {page} : x <= page
    OBVIOUS
  <2> QED
    BY <2>1, MostOf
<1> QED
  BY <1>1, <1>2

LEMMA OpenPathTyped ==
  ASSUME NEW w \in TreeWork
  PROVE  OpenPath(w) \in Seq(Label)
<1>1. CASE w.stack = <<>>
  BY <1>1 DEF OpenPath
<1>2. CASE w.stack # <<>>
  <2>1. Last(w.stack) \in DOMAIN w.nodes
    <3>1. w.stack \in Seq(Nat) /\ OpenSections(w)
      BY WorkFields
    <3>2. Len(w.stack) \in DOMAIN w.stack
      BY <1>2, <3>1
    <3> QED
      BY <3>1, <3>2 DEF OpenSections, Last
  <2>2. w.nodes[Last(w.stack)] \in TreeNode
    BY <2>1, WorkFields
  <2> QED
    BY <1>2, <2>2, NodeFields DEF OpenPath
<1> QED
  BY <1>1, <1>2

\* A node more is in nobody's way.
LEMMA NodesGrow ==
  ASSUME NEW w \in TreeWork, NEW node \in TreeNode
  PROVE  /\ Append(w.nodes, node) \in Seq(TreeNode)
         /\ \A i \in DOMAIN w.stack : /\ w.stack[i] \in DOMAIN Append(w.nodes, node)
                                      /\ Append(w.nodes, node)[w.stack[i]].kind = "SECTION"
         /\ Len(w.nodes) + 1 \in DOMAIN Append(w.nodes, node)
         /\ Append(w.nodes, node)[Len(w.nodes) + 1] = node
<1>1. w.nodes \in Seq(TreeNode) /\ w.stack \in Seq(Nat) /\ OpenSections(w)
  BY WorkFields
<1>2. /\ Append(w.nodes, node) \in Seq(TreeNode) /\ DOMAIN Append(w.nodes, node) = 1..Len(w.nodes) + 1
      /\ Append(w.nodes, node)[Len(w.nodes) + 1] = node
      /\ \A n \in DOMAIN w.nodes : n \in 1..Len(w.nodes) + 1 /\ Append(w.nodes, node)[n] = w.nodes[n]
  BY <1>1
<1>3. Len(w.nodes) + 1 \in 1..Len(w.nodes) + 1
  BY <1>1
<1> QED
  BY <1>1, <1>2, <1>3 DEF OpenSections

LEMMA FlushTyped ==
  ASSUME NEW w \in TreeWork
  PROVE  flush_atomic(w) \in TreeWork
<1>1. CASE w.atomic_buf = <<>>
  BY <1>1 DEF flush_atomic
<1>2. CASE w.atomic_buf # <<>>
  <2> DEFINE node == Node("ATOMIC_GROUP", OpenPath(w), 0, w.atomic_buf, PagesOf(w.atomic_buf))
             nodes == Append(w.nodes, node)
  <2>1. /\ w.nodes \in Seq(TreeNode) /\ w.stack \in Seq(Nat) /\ w.saw_heading \in BOOLEAN
        /\ w.atomic_buf \in Seq(AtomicBlock) /\ w.header_footer \in Seq(Block) /\ w.references \in Seq(Block)
        /\ OpenSections(w) /\ <<>> \in Seq(AtomicBlock)
    BY WorkFields
  <2>2. w.atomic_buf \in Seq(Block)
    BY <2>1, AtomicAreBlocks
  <2>3. node \in TreeNode
    BY <1>2, <2>1, <2>2, OpenPathTyped, PagesTyped, NodeTyped
  <2> HIDE DEF node
  <2>4. /\ nodes \in Seq(TreeNode)
        /\ \A i \in DOMAIN w.stack : w.stack[i] \in DOMAIN nodes /\ nodes[w.stack[i]].kind = "SECTION"
    BY <2>3, NodesGrow
  <2> HIDE DEF nodes
  <2>5. [w EXCEPT !.nodes = nodes, !.stack = w.stack, !.saw_heading = w.saw_heading, !.atomic_buf = <<>>,
                  !.header_footer = w.header_footer, !.references = w.references] \in TreeWork
    BY <2>1, <2>4, WorkGoesOn DEF OpenSections
  <2>6. flush_atomic(w) = [w EXCEPT !.nodes = nodes, !.atomic_buf = <<>>]
    BY <1>2 DEF flush_atomic, nodes, node
  <2>7. [w EXCEPT !.nodes = nodes, !.atomic_buf = <<>>]
        = [w EXCEPT !.nodes = nodes, !.stack = w.stack, !.saw_heading = w.saw_heading, !.atomic_buf = <<>>,
                    !.header_footer = w.header_footer, !.references = w.references]
    BY DEF TreeWork
  <2> QED
    BY <2>5, <2>6, <2>7
<1> QED
  BY <1>1, <1>2


\* Sections are closed from the top of the stack.
LEMMA PoppedTyped ==
  ASSUME NEW w \in TreeWork, NEW level \in Int
  PROVE  \E stack \in Seq(Nat) :
           /\ Popped(w, level) = [w EXCEPT !.stack = stack]
           /\ \A i \in DOMAIN stack : stack[i] \in DOMAIN w.nodes /\ w.nodes[stack[i]].kind = "SECTION"
<1> DEFINE Closes(n) == w.nodes[w.stack[n]].heading_level >= level
           few == {n \in 0..Len(w.stack) : \A m \in n + 1..Len(w.stack) : Closes(m)}
           left == Min(few)
           stack == SubSeq(w.stack, 1, left)
<1>1. w.stack \in Seq(Nat) /\ Len(w.stack) \in Nat /\ OpenSections(w)
  BY WorkFields
<1>2. left \in 0..Len(w.stack)
  <2>1. Len(w.stack) \in few /\ few \subseteq 0..Len(w.stack)
    <3>1. Len(w.stack) + 1..Len(w.stack) = {}
      BY <1>1
    <3> QED
      BY <1>1, <3>1
  <2> HIDE DEF few
  <2>2. few \subseteq Nat /\ few # {}
    BY <2>1
  <2> QED
    BY <2>1, <2>2, LeastExists
<1>3. Popped(w, level) = [w EXCEPT !.stack = stack]
  BY DEF Popped
<1> HIDE DEF left
<1>4. /\ stack \in Seq(Nat) /\ DOMAIN stack = 1..left
      /\ \A i \in 1..left : stack[i] = w.stack[i] /\ i \in DOMAIN w.stack
  BY <1>1, <1>2
<1> HIDE DEF stack
<1>5. \A i \in DOMAIN stack : stack[i] \in DOMAIN w.nodes /\ w.nodes[stack[i]].kind = "SECTION"
  BY <1>1, <1>4 DEF OpenSections
<1> QED
  BY <1>3, <1>4, <1>5

LEMMA ReopenedTyped ==
  ASSUME NEW w \in TreeWork, NEW level \in Int
  PROVE  [Popped(w, level) EXCEPT !.saw_heading = FALSE] \in TreeWork
<1>1. PICK stack \in Seq(Nat) :
        /\ Popped(w, level) = [w EXCEPT !.stack = stack]
        /\ \A i \in DOMAIN stack : stack[i] \in DOMAIN w.nodes /\ w.nodes[stack[i]].kind = "SECTION"
  BY PoppedTyped
<1>2. /\ w.nodes \in Seq(TreeNode) /\ w.atomic_buf \in Seq(AtomicBlock)
      /\ w.header_footer \in Seq(Block) /\ w.references \in Seq(Block)
  BY WorkFields
<1>3. [w EXCEPT !.nodes = w.nodes, !.stack = stack, !.saw_heading = FALSE, !.atomic_buf = w.atomic_buf,
                !.header_footer = w.header_footer, !.references = w.references] \in TreeWork
  BY <1>1, <1>2, WorkGoesOn
<1>4. [[w EXCEPT !.stack = stack] EXCEPT !.saw_heading = FALSE]
      = [w EXCEPT !.nodes = w.nodes, !.stack = stack, !.saw_heading = FALSE, !.atomic_buf = w.atomic_buf,
                  !.header_footer = w.header_footer, !.references = w.references]
  BY DEF TreeWork
<1> QED
  BY <1>1, <1>3, <1>4

LEMMA OpenSectionTyped ==
  ASSUME NEW w \in TreeWork, NEW b \in Block
  PROVE  OpenSection(w, b) \in TreeWork
<1> DEFINE p == Popped(w, b.level)
           q == [p EXCEPT !.saw_heading = FALSE]
           node == Node("SECTION", Append(OpenPath(p), b.title), b.level, <<>>, {b.page})
           nodes == Append(q.nodes, node)
           stack == Append(q.stack, Len(q.nodes) + 1)
<1>1. b.level \in Int /\ b.page \in Nat /\ b.title \in Nat
  BY BlockFields
<1>2. q \in TreeWork
  BY <1>1, ReopenedTyped
<1>3. p.stack = q.stack /\ p.nodes = q.nodes /\ OpenPath(p) = OpenPath(q)
  <2>1. PICK s \in Seq(Nat) : p = [w EXCEPT !.stack = s]
    BY <1>1, PoppedTyped
  <2>2. p.stack = q.stack /\ p.nodes = q.nodes
    BY <2>1 DEF TreeWork
  <2> HIDE DEF p, q
  <2> QED
    BY <2>2 DEF OpenPath
<1>4. OpenSection(w, b) = [q EXCEPT !.nodes = nodes, !.stack = stack, !.saw_heading = TRUE]
  <2>1. PICK s \in Seq(Nat) : p = [w EXCEPT !.stack = s]
    BY <1>1, PoppedTyped
  <2>2. OpenSection(w, b) = [p EXCEPT !.nodes = Append(@, node), !.stack = Append(@, Len(p.nodes) + 1), !.saw_heading = TRUE]
    BY DEF OpenSection
  <2> HIDE DEF node
  <2>3. \A x, y : [p EXCEPT !.nodes = x, !.stack = y, !.saw_heading = TRUE]
                  = [q EXCEPT !.nodes = x, !.stack = y, !.saw_heading = TRUE]
    <3> HIDE DEF p
    <3> QED
      BY <2>1 DEF TreeWork
  <2> HIDE DEF p, q
  <2> QED
    BY <1>3, <2>2, <2>3
<1> HIDE DEF q
<1>5. node \in TreeNode
  <2>1. Append(OpenPath(p), b.title) \in Seq(Label)
    <3>1. OpenPath(q) \in Seq(Label) /\ b.title \in Label
      BY <1>1, <1>2, OpenPathTyped DEF Label
    <3> QED
      BY <1>3, <3>1
  <2>2. <<>> \in Seq(Block)
    OBVIOUS
  <2>3. Min({b.page}) \in Nat /\ Max({b.page}) \in Nat
    BY <1>1, OnePage
  <2> QED
    BY <1>1, <2>1, <2>2, <2>3, NodeTyped
<1>6. node.kind = "SECTION"
  BY DEF Node
<1> HIDE DEF node, p
<1>7. /\ q.nodes \in Seq(TreeNode) /\ q.stack \in Seq(Nat) /\ q.atomic_buf \in Seq(AtomicBlock)
      /\ q.header_footer \in Seq(Block) /\ q.references \in Seq(Block)
  BY <1>2, WorkFields
<1>8. /\ nodes \in Seq(TreeNode) /\ Len(q.nodes) + 1 \in DOMAIN nodes /\ nodes[Len(q.nodes) + 1].kind = "SECTION"
      /\ \A i \in DOMAIN q.stack : q.stack[i] \in DOMAIN nodes /\ nodes[q.stack[i]].kind = "SECTION"
  BY <1>2, <1>5, <1>6, NodesGrow
<1> HIDE DEF nodes
<1>9. /\ stack \in Seq(Nat) /\ stack # <<>>
      /\ \A i \in DOMAIN stack : stack[i] = Len(q.nodes) + 1 \/ \E j \in DOMAIN q.stack : stack[i] = q.stack[j]
  <2>1. q.stack \in Seq(Nat) /\ Len(q.nodes) + 1 \in Nat
    BY <1>7
  <2>2. /\ stack \in Seq(Nat) /\ DOMAIN stack = 1..Len(q.stack) + 1 /\ stack[Len(q.stack) + 1] = Len(q.nodes) + 1
        /\ \A i \in 1..Len(q.stack) : stack[i] = q.stack[i]
    BY <2>1
  <2>3. \A i \in 1..Len(q.stack) + 1 : i = Len(q.stack) + 1 \/ i \in 1..Len(q.stack)
    BY <2>1
  <2>4. DOMAIN q.stack = 1..Len(q.stack) /\ Len(q.stack) + 1 \in 1..Len(q.stack) + 1
    BY <2>1
  <2>5. stack # <<>>
    BY <2>2, <2>4
  <2> HIDE DEF stack
  <2> QED
    BY <2>2, <2>3, <2>4, <2>5
<1> HIDE DEF stack
<1>10. \A i \in DOMAIN stack : stack[i] \in DOMAIN nodes /\ nodes[stack[i]].kind = "SECTION"
  BY <1>8, <1>9
<1>11. [q EXCEPT !.nodes = nodes, !.stack = stack, !.saw_heading = TRUE, !.atomic_buf = q.atomic_buf,
                 !.header_footer = q.header_footer, !.references = q.references] \in TreeWork
  BY <1>2, <1>7, <1>8, <1>9, <1>10, WorkGoesOn
<1>12. [q EXCEPT !.nodes = nodes, !.stack = stack, !.saw_heading = TRUE]
       = [q EXCEPT !.nodes = nodes, !.stack = stack, !.saw_heading = TRUE, !.atomic_buf = q.atomic_buf,
                   !.header_footer = q.header_footer, !.references = q.references]
  BY <1>2 DEF TreeWork
<1> QED
  BY <1>4, <1>11, <1>12

\* A block goes to a node that is no group of atomic blocks.
LEMMA AddedTyped ==
  ASSUME NEW w \in TreeWork, NEW n \in DOMAIN w.nodes, w.nodes[n].kind # "ATOMIC_GROUP", NEW b \in Block
  PROVE  Added(w, n, b) \in TreeWork
<1> DEFINE old == w.nodes[n]
           node == [old EXCEPT !.blocks = Append(old.blocks, b), !.page_to = Max({old.page_to, b.page})]
           nodes == [w.nodes EXCEPT ![n] = node]
<1>1. /\ w.nodes \in Seq(TreeNode) /\ w.stack \in Seq(Nat) /\ w.saw_heading \in BOOLEAN
      /\ w.atomic_buf \in Seq(AtomicBlock) /\ w.header_footer \in Seq(Block) /\ w.references \in Seq(Block)
      /\ OpenSections(w)
  BY WorkFields
<1>2. old \in TreeNode
  BY <1>1
<1>3. Max({old.page_to, b.page}) \in Nat
  <2>1. old.page_to \in Nat /\ b.page \in Nat
    BY <1>2, NodeFields, BlockFields
  <2> DEFINE top == IF old.page_to <= b.page THEN b.page ELSE old.page_to
  <2>2. top \in Nat /\ \A x \in {old.page_to, b.page} : x <= top
    BY <2>1
  <2> HIDE DEF top
  <2>3. {old.page_to, b.page} \subseteq Nat /\ {old.page_to, b.page} # {}
    BY <2>1
  <2> QED
    BY <2>2, <2>3, MostOf
<1>4. Append(old.blocks, b) \in Seq(Block)
  BY <1>2, NodeFields
<1>5. node \in TreeNode /\ node.kind = old.kind
  <2> HIDE DEF old
  <2> QED
    BY <1>2, <1>3, <1>4 DEF TreeNode, old
<1>6. Added(w, n, b) = [w EXCEPT !.nodes = nodes]
  BY <1>1, <1>2 DEF Added, TreeWork, TreeNode
<1> HIDE DEF node
<1>7. /\ nodes \in Seq(TreeNode) /\ DOMAIN nodes = DOMAIN w.nodes
      /\ \A m \in DOMAIN w.nodes : nodes[m].kind = w.nodes[m].kind
  BY <1>1, <1>5
<1> HIDE DEF nodes, old
<1>8. [w EXCEPT !.nodes = nodes, !.stack = w.stack, !.saw_heading = w.saw_heading, !.atomic_buf = w.atomic_buf,
                !.header_footer = w.header_footer, !.references = w.references] \in TreeWork
  <2>1. /\ \A i \in DOMAIN w.stack : w.stack[i] \in DOMAIN nodes /\ nodes[w.stack[i]].kind = "SECTION"
        /\ w.saw_heading => w.stack # <<>>
    BY <1>1, <1>7 DEF OpenSections
  <2> QED
    BY <1>1, <1>7, <2>1, WorkGoesOn
<1>9. [w EXCEPT !.nodes = nodes]
      = [w EXCEPT !.nodes = nodes, !.stack = w.stack, !.saw_heading = w.saw_heading, !.atomic_buf = w.atomic_buf,
                  !.header_footer = w.header_footer, !.references = w.references]
  BY DEF TreeWork
<1> QED
  BY <1>6, <1>8, <1>9


LEMMA AddBodyTyped ==
  ASSUME NEW w \in TreeWork, NEW b \in Block
  PROVE  AddBody(w, b) \in TreeWork
<1>1. w.nodes \in Seq(TreeNode) /\ w.stack \in Seq(Nat) /\ OpenSections(w) /\ b.page \in Nat
  BY WorkFields, BlockFields
<1>2. CASE w.saw_heading
  <2>1. Len(w.stack) \in DOMAIN w.stack
    BY <1>1, <1>2 DEF OpenSections
  <2>2. Last(w.stack) \in DOMAIN w.nodes /\ w.nodes[Last(w.stack)].kind = "SECTION"
    BY <1>1, <2>1 DEF OpenSections, Last
  <2> QED
    BY <1>2, <2>2, AddedTyped DEF AddBody
<1>3. CASE ~w.saw_heading /\ VirtualOf(w, b.page) # {}
  <2>1. /\ VirtualOf(w, b.page) \subseteq DOMAIN w.nodes
        /\ \A n \in VirtualOf(w, b.page) : w.nodes[n].kind = "VIRTUAL_SECTION"
    BY DEF VirtualOf
  <2>2. \A n \in DOMAIN w.nodes : n \in Nat /\ n <= Len(w.nodes)
    BY <1>1
  <2>3. VirtualOf(w, b.page) \subseteq Nat /\ Len(w.nodes) \in Nat /\ \A n \in VirtualOf(w, b.page) : n <= Len(w.nodes)
    BY <1>1, <2>1, <2>2
  <2>4. Max(VirtualOf(w, b.page)) \in VirtualOf(w, b.page)
    BY <1>3, <2>3, MostOf
  <2>5. Max(VirtualOf(w, b.page)) \in DOMAIN w.nodes /\ w.nodes[Max(VirtualOf(w, b.page))].kind # "ATOMIC_GROUP"
    BY <2>1, <2>4
  <2> QED
    BY <1>3, <2>5, AddedTyped DEF AddBody
<1>4. CASE ~w.saw_heading /\ VirtualOf(w, b.page) = {}
  <2> DEFINE node == Node("VIRTUAL_SECTION", <<"virtual", b.page>>, 0, <<b>>, {b.page})
             nodes == Append(w.nodes, node)
  <2>1. node \in TreeNode
    <3>1. <<"virtual", b.page>> \in Seq(Label) /\ <<b>> \in Seq(Block)
      BY <1>1 DEF Label
    <3>2. Min({b.page}) \in Nat /\ Max({b.page}) \in Nat
      BY <1>1, OnePage
    <3>3. "VIRTUAL_SECTION" # "ATOMIC_GROUP" /\ 0 \in Int
      OBVIOUS
    <3> QED
      BY <3>1, <3>2, <3>3, NodeTyped
  <2>2. AddBody(w, b) = [w EXCEPT !.nodes = nodes]
    BY <1>4 DEF AddBody
  <2> HIDE DEF node
  <2>3. /\ nodes \in Seq(TreeNode)
        /\ \A i \in DOMAIN w.stack : w.stack[i] \in DOMAIN nodes /\ nodes[w.stack[i]].kind = "SECTION"
    BY <2>1, NodesGrow
  <2> HIDE DEF nodes
  <2>4. [w EXCEPT !.nodes = nodes, !.stack = w.stack, !.saw_heading = w.saw_heading, !.atomic_buf = w.atomic_buf,
                  !.header_footer = w.header_footer, !.references = w.references] \in TreeWork
    <3>1. /\ w.saw_heading \in BOOLEAN /\ w.atomic_buf \in Seq(AtomicBlock)
          /\ w.header_footer \in Seq(Block) /\ w.references \in Seq(Block)
      BY WorkFields
    <3> QED
      BY <1>1, <1>4, <2>3, <3>1, WorkGoesOn
  <2>5. [w EXCEPT !.nodes = nodes]
        = [w EXCEPT !.nodes = nodes, !.stack = w.stack, !.saw_heading = w.saw_heading, !.atomic_buf = w.atomic_buf,
                    !.header_footer = w.header_footer, !.references = w.references]
    BY DEF TreeWork
  <2> QED
    BY <2>2, <2>4, <2>5
<1> QED
  BY <1>2, <1>3, <1>4

\* Blocks that are put aside leave the tree alone.
LEMMA AsideTyped ==
  ASSUME NEW w \in TreeWork, NEW b \in Block
  PROVE  /\ [w EXCEPT !.header_footer = Append(@, b)] \in TreeWork
         /\ [w EXCEPT !.references = Append(@, b)] \in TreeWork
         /\ b.block_type \in ATOMIC_TYPES => [w EXCEPT !.atomic_buf = Append(@, b)] \in TreeWork
<1>1. /\ w.header_footer \in Seq(Block) /\ w.references \in Seq(Block) /\ w.atomic_buf \in Seq(AtomicBlock)
      /\ OpenSections(w)
  BY WorkFields
<1>2. Append(w.header_footer, b) \in Seq(Block) /\ Append(w.references, b) \in Seq(Block)
  BY <1>1
<1>3. b.block_type \in ATOMIC_TYPES => Append(w.atomic_buf, b) \in Seq(AtomicBlock)
  <2>1. b.block_type \in ATOMIC_TYPES => b \in AtomicBlock
    BY DEF AtomicBlock
  <2> QED
    BY <1>1, <2>1
<1>4. [w EXCEPT !.header_footer = Append(w.header_footer, b)] \in TreeWork
  BY <1>1, <1>2 DEF TreeWork, OpenSections
<1>5. [w EXCEPT !.references = Append(w.references, b)] \in TreeWork
  BY <1>1, <1>2 DEF TreeWork, OpenSections
<1>6. b.block_type \in ATOMIC_TYPES => [w EXCEPT !.atomic_buf = Append(w.atomic_buf, b)] \in TreeWork
  BY <1>1, <1>3 DEF TreeWork, OpenSections
<1> QED
  BY <1>4, <1>5, <1>6

LEMMA VisitTyped ==
  ASSUME NEW w \in TreeWork, NEW b \in Block
  PROVE  Visit(w, b) \in TreeWork
<1> DEFINE f == flush_atomic(w)
<1>1. f \in TreeWork
  BY FlushTyped
<1> HIDE DEF f
<1>2. CASE b.block_type = "HEADER_FOOTER"
  <2>1. Visit(w, b) = [f EXCEPT !.header_footer = Append(@, b)]
    BY <1>2 DEF Visit, f, HeadingType, ATOMIC_TYPES
  <2> QED
    BY <1>1, <2>1, AsideTyped
<1>3. CASE b.block_type = "REFERENCE"
  <2>1. Visit(w, b) = [f EXCEPT !.references = Append(@, b)]
    BY <1>3 DEF Visit, f, HeadingType, ATOMIC_TYPES
  <2> QED
    BY <1>1, <2>1, AsideTyped
<1>4. CASE b.block_type \in HeadingType
  <2>1. Visit(w, b) = OpenSection(f, b)
    BY <1>4 DEF Visit, f, HeadingType, ATOMIC_TYPES
  <2> QED
    BY <1>1, <2>1, OpenSectionTyped
<1>5. CASE b.block_type \in ATOMIC_TYPES
  <2>1. Visit(w, b) = [w EXCEPT !.atomic_buf = Append(@, b)]
    BY <1>5 DEF Visit, HeadingType, ATOMIC_TYPES
  <2> QED
    BY <1>5, <2>1, AsideTyped
<1>6. CASE b.block_type \notin {"HEADER_FOOTER", "REFERENCE"} \union HeadingType \union ATOMIC_TYPES
  <2>1. Visit(w, b) = AddBody(f, b)
    BY <1>6 DEF Visit, f
  <2> QED
    BY <1>1, <2>1, AddBodyTyped
<1> QED
  BY <1>2, <1>3, <1>4, <1>5, <1>6

\* The tree that is made of the work, when all is visited.
TreeOf(w) ==
  IF w.references = <<>> THEN w.nodes
  ELSE Append(w.nodes, Node("REFERENCES", <<"references">>, 0, w.references, PagesOf(w.references)))

LEMMA TreeRun ==
  ASSUME NEW blocks \in Seq(Block), NEW ordered, ordered = Ordered(blocks)
  PROVE  \E f \in [0..Len(ordered) -> TreeWork] :
           /\ f[0] = Started /\ \A n \in 1..Len(ordered) : f[n] = Visit(f[n - 1], ordered[n])
           /\ build_document_tree(blocks) = TreeOf(flush_atomic(f[Len(ordered)]))
<1> DEFINE N == Len(ordered)
           Solves(f) == f = [n \in 0..N |-> IF n = 0 THEN Started ELSE Visit(f[n - 1], ordered[n])]
           step == [p \in (1..N) \X TreeWork |-> Visit(p[2], ordered[p[1]])]
           g == CHOOSE f : Solves(f)
           w == flush_atomic(g[N])
<1>1. ordered \in Seq(Block) /\ N \in Nat /\ \A n \in 1..N : ordered[n] \in Block
  BY OrderedTyped
<1>2. build_document_tree(blocks) = TreeOf(w)
  BY DEF build_document_tree, TreeOf
<1>3. step \in [(1..N) \X TreeWork -> TreeWork]
  <2>1. \A p \in (1..N) \X TreeWork : Visit(p[2], ordered[p[1]]) \in TreeWork
    BY <1>1, VisitTyped
  <2> QED
    BY <2>1
<1>4. \A n \in 1..N, v \in TreeWork : step[<<n, v>>] = Visit(v, ordered[n])
  OBVIOUS
<1> HIDE DEF N, step, Solves, g, w
<1>5. PICK f : Runs(f, N, TreeWork, Started, step)
  BY <1>1, <1>3, StepByStep, StartedTyped
<1>6. f \in [0..N -> TreeWork] /\ f[0] = Started /\ \A n \in 1..N : f[n] = Visit(f[n - 1], ordered[n])
  <2>1. \A n \in 1..N : n - 1 \in 0..N
    BY <1>1
  <2> QED
    BY <1>4, <1>5, <2>1 DEF Runs
<1>7. Solves(f)
  <2>1. \A n \in 0..N : f[n] = IF n = 0 THEN Started ELSE Visit(f[n - 1], ordered[n])
    BY <1>1, <1>6
  <2> QED
    BY <1>6, <2>1 DEF Solves
<1>8. Solves(g)
  BY <1>7 DEF g
<1>9. g[0] = Started /\ \A n \in 1..N : g[n] = Visit(g[n - 1], ordered[n])
  BY <1>1, <1>8 DEF Solves
<1>10. \A n \in 0..N : g[n] \in TreeWork
  <2> DEFINE S == {n \in 0..N : g[n] \in TreeWork}
  <2>1. 0 \in S
    BY <1>1, <1>9, StartedTyped
  <2>2. \A n \in 1..N : n - 1 \in S => n \in S
    BY <1>1, <1>9, VisitTyped
  <2> HIDE DEF S
  <2>3. \A n \in 0..N : n \in S
    BY <1>1, <2>1, <2>2, OneAfterTheOther
  <2> QED
    BY <2>3 DEF S
<1>11. g \in [0..N -> TreeWork]
  BY <1>8, <1>10 DEF Solves
<1> QED
  BY <1>2, <1>9, <1>11 DEF N, w

LEMMA TreeOfTyped ==
  ASSUME NEW w \in TreeWork
  PROVE  TreeOf(w) \in Seq(TreeNode)
<1>1. w.nodes \in Seq(TreeNode) /\ w.references \in Seq(Block)
  BY WorkFields
<1>2. CASE w.references = <<>>
  BY <1>1, <1>2 DEF TreeOf
<1>3. CASE w.references # <<>>
  <2> DEFINE node == Node("REFERENCES", <<"references">>, 0, w.references, PagesOf(w.references))
  <2>1. node \in TreeNode
    <3>1. <<"references">> \in Seq(Label)
      BY DEF Label
    <3>2. "REFERENCES" # "ATOMIC_GROUP" /\ 0 \in Int
      OBVIOUS
    <3>3. Min(PagesOf(w.references)) \in Nat /\ Max(PagesOf(w.references)) \in Nat
      BY <1>1, <1>3, PagesTyped
    <3> QED
      BY <1>1, <3>1, <3>2, <3>3, NodeTyped
  <2> HIDE DEF node
  <2>2. Append(w.nodes, node) \in Seq(TreeNode)
    BY <1>1, <2>1
  <2> QED
    BY <1>3, <2>2 DEF node, TreeOf
<1> QED
  BY <1>2, <1>3

-----------------------------------------------------------------------------
(* Parent chunks *)

\* What may become a parent of its own.
Group == {s \in Seq(Block) : s # <<>> /\ (TokensIn(s) <= parent_max_tokens \/ Len(s) = 1)}

LEMMA OneBlock ==
  ASSUME NEW b \in Block
  PROVE  <<b>> \in Seq(Block) /\ <<b>> # <<>> /\ Len(<<b>>) = 1
OBVIOUS

LEMMA IntoGroupTyped ==
  ASSUME NEW groups \in Seq(Group), NEW b \in Block
  PROVE  IntoGroup(groups, b) \in Seq(Group)
<1>1. CASE groups = <<>> \/ TokensIn(Last(groups)) + b.tokens > parent_max_tokens
  <2>1. <<b>> \in Group
    BY OneBlock DEF Group
  <2> QED
    BY <1>1, <2>1 DEF IntoGroup
<1>2. CASE groups # <<>> /\ ~ (TokensIn(Last(groups)) + b.tokens > parent_max_tokens)
  <2> DEFINE last == groups[Len(groups)]
             more == Append(last, b)
  <2>1. Len(groups) \in DOMAIN groups /\ last \in Group /\ Last(groups) = last
    BY <1>2 DEF Last
  <2> HIDE DEF last
  <2>2. last \in Seq(Block)
    BY <2>1 DEF Group
  <2>3. TokensIn(last) \in Nat /\ b.tokens \in Nat /\ parent_max_tokens \in Nat
    BY <2>2, TokensInTyped, BlockFields, ChunkingConfig
  <2>4. TokensIn(more) = TokensIn(last) + b.tokens
    BY <2>2, TokensInMore
  <2>5. more \in Seq(Block) /\ more # <<>>
    BY <2>2
  <2>6. TokensIn(more) <= parent_max_tokens
    BY <1>2, <2>1, <2>3, <2>4
  <2>7. more \in Group
    BY <2>5, <2>6 DEF Group
  <2> HIDE DEF more
  <2>8. [groups EXCEPT ![Len(groups)] = more] \in Seq(Group)
    BY <2>1, <2>7
  <2>9. IntoGroup(groups, b) = [groups EXCEPT ![Len(groups)] = more]
    BY <1>2, <2>1 DEF IntoGroup, more, last
  <2> QED
    BY <2>8, <2>9
<1> QED
  BY <1>1, <1>2

LEMMA GroupsRun ==
  ASSUME NEW blocks \in Seq(Block)
  PROVE  \E f \in [0..Len(blocks) -> Seq(Group)] :
           /\ f[0] = <<>> /\ \A n \in 1..Len(blocks) : f[n] = IntoGroup(f[n - 1], blocks[n])
           /\ split_groups(blocks) = f[Len(blocks)]
<1> DEFINE N == Len(blocks)
           R == Seq(Group)
           Solves(f) == f = [n \in 0..N |-> IF n = 0 THEN <<>> ELSE IntoGroup(f[n - 1], blocks[n])]
           step == [p \in (1..N) \X R |-> IntoGroup(p[2], blocks[p[1]])]
           g == CHOOSE f : Solves(f)
<1>1. N \in Nat /\ (\A n \in 1..N : blocks[n] \in Block) /\ <<>> \in R
  OBVIOUS
<1>2. split_groups(blocks) = g[N]
  BY DEF split_groups
<1>3. step \in [(1..N) \X R -> R]
  <2>1. \A p \in (1..N) \X R : IntoGroup(p[2], blocks[p[1]]) \in R
    BY <1>1, IntoGroupTyped
  <2> QED
    BY <2>1
<1>4. \A n \in 1..N, v \in R : step[<<n, v>>] = IntoGroup(v, blocks[n])
  OBVIOUS
<1>5. \A n \in 1..N, v \in R : IntoGroup(v, blocks[n]) \in R
  BY <1>1, IntoGroupTyped
<1> HIDE DEF N, R, step, Solves, g
<1>6. PICK f : Runs(f, N, R, <<>>, step)
  BY <1>1, <1>3, StepByStep
<1>7. f \in [0..N -> R] /\ f[0] = <<>> /\ \A n \in 1..N : f[n] = IntoGroup(f[n - 1], blocks[n])
  <2>1. \A n \in 1..N : n - 1 \in 0..N
    BY <1>1
  <2> QED
    BY <1>4, <1>6, <2>1 DEF Runs
<1>8. Solves(f)
  <2>1. \A n \in 0..N : f[n] = IF n = 0 THEN <<>> ELSE IntoGroup(f[n - 1], blocks[n])
    BY <1>1, <1>7
  <2> QED
    BY <1>7, <2>1 DEF Solves
<1>9. Solves(g)
  BY <1>8 DEF g
<1>10. g[0] = <<>> /\ \A n \in 1..N : g[n] = IntoGroup(g[n - 1], blocks[n])
  BY <1>1, <1>9 DEF Solves
<1>11. \A n \in 0..N : g[n] \in R
  <2> DEFINE S == {n \in 0..N : g[n] \in R}
  <2>1. 0 \in S
    BY <1>1, <1>10
  <2>2. \A n \in 1..N : n - 1 \in S => n \in S
    BY <1>1, <1>5, <1>10
  <2> HIDE DEF S
  <2>3. \A n \in 0..N : n \in S
    BY <1>1, <2>1, <2>2, OneAfterTheOther
  <2> QED
    BY <2>3 DEF S
<1>12. g \in [0..N -> R]
  BY <1>9, <1>11 DEF Solves
<1> QED
  BY <1>2, <1>10, <1>12 DEF N, R

LEMMA GroupsTyped ==
  ASSUME NEW blocks \in Seq(Block)
  PROVE  split_groups(blocks) \in Seq(Group)
<1>1. Len(blocks) \in 0..Len(blocks)
  OBVIOUS
<1> QED
  BY <1>1, GroupsRun

LEMMA UnitsRun ==
  ASSUME NEW tree \in Seq(TreeNode)
  PROVE  \E f \in [0..Len(tree) -> Seq(TreeNode)] :
           /\ f[0] = <<>>
           /\ \A n \in 1..Len(tree) : f[n] = IF tree[n].blocks = <<>> THEN f[n - 1] ELSE Append(f[n - 1], tree[n])
           /\ walk_units(tree) = f[Len(tree)]
<1> DEFINE N == Len(tree)
           R == Seq(TreeNode)
           Taken(v, n) == IF tree[n].blocks = <<>> THEN v ELSE Append(v, tree[n])
           Solves(f) == f = [n \in 0..N |-> IF n = 0 THEN <<>> ELSE Taken(f[n - 1], n)]
           step == [p \in (1..N) \X R |-> Taken(p[2], p[1])]
           g == CHOOSE f : Solves(f)
<1>1. N \in Nat /\ (\A n \in 1..N : tree[n] \in TreeNode) /\ <<>> \in R
  OBVIOUS
<1>2. walk_units(tree) = g[N]
  <2>1. walk_units(tree) =
          (CHOOSE f : f = [n \in 0..N |-> IF n = 0 THEN <<>>
                                          ELSE IF tree[n].blocks = <<>> THEN f[n - 1] ELSE Append(f[n - 1], tree[n])])[N]
    BY DEF walk_units
  <2> QED
    BY <2>1
<1>3. \A n \in 1..N, v \in R : Taken(v, n) \in R
  BY <1>1
<1> HIDE DEF Taken
<1>4. step \in [(1..N) \X R -> R]
  <2>1. \A p \in (1..N) \X R : Taken(p[2], p[1]) \in R
    BY <1>3
  <2> QED
    BY <2>1
<1>5. \A n \in 1..N, v \in R : step[<<n, v>>] = Taken(v, n)
  OBVIOUS
<1> HIDE DEF N, R, step, Solves, g
<1>6. PICK f : Runs(f, N, R, <<>>, step)
  BY <1>1, <1>4, StepByStep
<1>7. f \in [0..N -> R] /\ f[0] = <<>> /\ \A n \in 1..N : f[n] = Taken(f[n - 1], n)
  <2>1. \A n \in 1..N : n - 1 \in 0..N
    BY <1>1
  <2> QED
    BY <1>5, <1>6, <2>1 DEF Runs
<1>8. Solves(f)
  <2>1. \A n \in 0..N : f[n] = IF n = 0 THEN <<>> ELSE Taken(f[n - 1], n)
    BY <1>1, <1>7
  <2> QED
    BY <1>7, <2>1 DEF Solves
<1>9. Solves(g)
  BY <1>8 DEF g
<1>10. g[0] = <<>> /\ \A n \in 1..N : g[n] = Taken(g[n - 1], n)
  BY <1>1, <1>9 DEF Solves
<1>11. \A n \in 0..N : g[n] \in R
  <2> DEFINE S == {n \in 0..N : g[n] \in R}
  <2>1. 0 \in S
    BY <1>1, <1>10
  <2>2. \A n \in 1..N : n - 1 \in S => n \in S
    BY <1>1, <1>3, <1>10
  <2> HIDE DEF S
  <2>3. \A n \in 0..N : n \in S
    BY <1>1, <2>1, <2>2, OneAfterTheOther
  <2> QED
    BY <2>3 DEF S
<1>12. g \in [0..N -> R]
  BY <1>9, <1>11 DEF Solves
<1>13. \A n \in 1..N : g[n] = IF tree[n].blocks = <<>> THEN g[n - 1] ELSE Append(g[n - 1], tree[n])
  BY <1>10 DEF Taken
<1> QED
  BY <1>2, <1>10, <1>12, <1>13 DEF N, R

LEMMA UnitsTyped ==
  ASSUME NEW tree \in Seq(TreeNode)
  PROVE  walk_units(tree) \in Seq(TreeNode)
<1>1. Len(tree) \in 0..Len(tree)
  OBVIOUS
<1> QED
  BY <1>1, UnitsRun

\* A parent exceeds its limit only when it cannot be divided.
Parent ==
  {p \in [structure_path : Seq(Label), page_from : Nat, page_to : Nat, blocks : Seq(Block), token_count : Nat] :
     p.token_count <= parent_max_tokens \/ Len(p.blocks) = 1 \/ p.blocks \in Seq(AtomicBlock)}

LEMMA ParentTyped ==
  ASSUME NEW unit \in TreeNode, NEW blocks \in Seq(Block),
         TokensIn(blocks) <= parent_max_tokens \/ Len(blocks) = 1 \/ blocks \in Seq(AtomicBlock)
  PROVE  make_parent(unit, blocks) \in Parent
BY NodeFields, TokensInTyped DEF make_parent, Parent

LEMMA ParentsTyped ==
  ASSUME NEW tree \in Seq(TreeNode)
  PROVE  create_parent_chunks(tree) \in Seq(Parent)
<1> DEFINE units == walk_units(tree)
           Groups(unit) == IF unit.kind = "ATOMIC_GROUP" \/ TokensIn(unit.blocks) <= parent_max_tokens
                           THEN <<unit.blocks>> ELSE split_groups(unit.blocks)
           Parents(unit) == [g \in DOMAIN Groups(unit) |-> make_parent(unit, Groups(unit)[g])]
<1>1. units \in Seq(TreeNode)
  BY UnitsTyped
<1>2. create_parent_chunks(tree) = FlattenSeq([u \in DOMAIN units |-> Parents(units[u])])
  BY DEF create_parent_chunks
<1>3. ASSUME NEW unit \in TreeNode PROVE Parents(unit) \in Seq(Parent)
  <2>1. unit.blocks \in Seq(Block) /\ (unit.kind = "ATOMIC_GROUP" => unit.blocks \in Seq(AtomicBlock))
    BY NodeFields
  <2>2. CASE unit.kind = "ATOMIC_GROUP" \/ TokensIn(unit.blocks) <= parent_max_tokens
    <3>1. Groups(unit) = <<unit.blocks>>
      BY <2>2
    <3>2. make_parent(unit, unit.blocks) \in Parent
      BY <2>1, <2>2, ParentTyped
    <3>3. DOMAIN <<unit.blocks>> = 1..1 /\ <<unit.blocks>>[1] = unit.blocks
      OBVIOUS
    <3> HIDE DEF Groups
    <3>4. Parents(unit) \in [1..1 -> Parent]
      BY <3>1, <3>2, <3>3
    <3> QED
      BY <3>4
  <2>3. CASE ~ (unit.kind = "ATOMIC_GROUP" \/ TokensIn(unit.blocks) <= parent_max_tokens)
    <3>1. Groups(unit) \in Seq(Group)
      BY <2>1, <2>3, GroupsTyped
    <3> HIDE DEF Groups
    <3>2. ASSUME NEW g \in DOMAIN Groups(unit) PROVE make_parent(unit, Groups(unit)[g]) \in Parent
      <4>1. Groups(unit)[g] \in Group
        BY <3>1
      <4> QED
        BY <4>1, ParentTyped DEF Group
    <3>3. Len(Groups(unit)) \in Nat /\ DOMAIN Groups(unit) = 1..Len(Groups(unit))
      BY <3>1
    <3>4. Parents(unit) \in [1..Len(Groups(unit)) -> Parent]
      BY <3>2, <3>3
    <3> QED
      BY <3>3, <3>4
  <2> QED
    BY <2>2, <2>3
<1> HIDE DEF units, Parents
<1>4. [u \in DOMAIN units |-> Parents(units[u])] \in Seq(Seq(Parent))
  <2>1. \A u \in DOMAIN units : Parents(units[u]) \in Seq(Parent)
    BY <1>1, <1>3
  <2>2. Len(units) \in Nat /\ DOMAIN units = 1..Len(units)
    BY <1>1
  <2>3. [u \in DOMAIN units |-> Parents(units[u])] \in [1..Len(units) -> Seq(Parent)]
    BY <2>1, <2>2
  <2> QED
    BY <2>2, <2>3
<1> QED
  BY <1>2, <1>4, FlattenTyped

-----------------------------------------------------------------------------
(* Children *)

\* A sentence, by its block and its number.
Piece == Nat \X Nat

WithinLimit(blocks, text, tokens) ==
  \/ tokens <= child_max_tokens
  \/ Len(text) = 1
  \/ Len(blocks) = 1 /\ blocks \in Seq(AtomicBlock)

\* A child exceeds its limit only when it cannot be divided, but for its overlap.
Child ==
  {c \in [child_order : Nat, blocks : Seq(Block), overlap : Seq(Piece), own : Seq(Piece), token_count : Nat] :
     WithinLimit(c.blocks, c.own, c.token_count - IF c.overlap = <<>> THEN 0 ELSE overlap_tokens)}

LEMMA OverlapTyped ==
  ASSUME NEW children \in Seq(Child)
  PROVE  overlap_suffix(children) \in Seq(Piece)
<1>1. CASE children = <<>> \/ overlap_tokens = 0
  <2>1. overlap_suffix(children) = <<>>
    BY <1>1 DEF overlap_suffix
  <2>2. <<>> \in Seq(Piece)
    OBVIOUS
  <2> QED
    BY <2>1, <2>2
<1>2. CASE ~ (children = <<>> \/ overlap_tokens = 0)
  <2> DEFINE c == children[Len(children)]
             text == c.overlap \o c.own
             from == Max({1, Len(text) - overlap_tokens + 1})
  <2>1. Len(children) \in DOMAIN children /\ c \in Child /\ Last(children) = c
    BY <1>2 DEF Last
  <2> HIDE DEF c
  <2>2. c.overlap \in Seq(Piece) /\ c.own \in Seq(Piece)
    BY <2>1 DEF Child
  <2>3. text \in Seq(Piece) /\ Len(text) \in Nat
    <3>1. \A s, t \in Seq(Piece) : s \o t \in Seq(Piece)
      OBVIOUS
    <3>2. text \in Seq(Piece)
      BY <2>2, <3>1
    <3> HIDE DEF text
    <3> QED
      BY <3>2
  <2>4. overlap_suffix(children) = SubSeq(text, from, Len(text))
    BY <1>2, <2>1 DEF overlap_suffix
  <2> HIDE DEF text
  <2>5. from \in Int /\ from >= 1
    <3>1. 1 \in Int /\ Len(text) - overlap_tokens + 1 \in Int
      BY <2>3, ChunkingConfig
    <3> QED
      BY <3>1, MaxOfTwo
  <2> HIDE DEF from
  <2>6. SubSeq(text, from, Len(text)) \in Seq(Piece)
    BY <2>3, <2>5
  <2> QED
    BY <2>4, <2>6
<1> QED
  BY <1>1, <1>2

LEMMA AppendChildTyped ==
  ASSUME NEW children \in Seq(Child), NEW blocks \in Seq(Block), NEW text \in Seq(Piece), NEW tokens \in Nat,
         WithinLimit(blocks, text, tokens)
  PROVE  AppendChild(children, blocks, text, tokens) \in Seq(Child)
<1> DEFINE overlap == overlap_suffix(children)
           count == IF overlap = <<>> THEN tokens ELSE tokens + overlap_tokens
           child == [child_order |-> Len(children), blocks |-> blocks, overlap |-> overlap, own |-> text,
                     token_count |-> count]
<1>1. overlap \in Seq(Piece) /\ Len(children) \in Nat /\ overlap_tokens \in Nat
  BY OverlapTyped, ChunkingConfig
<1>2. AppendChild(children, blocks, text, tokens) = Append(children, child)
  BY DEF AppendChild
<1> HIDE DEF overlap
<1>3. count \in Nat /\ count - (IF overlap = <<>> THEN 0 ELSE overlap_tokens) = tokens
  BY <1>1
<1> HIDE DEF count
<1>4. child \in [child_order : Nat, blocks : Seq(Block), overlap : Seq(Piece), own : Seq(Piece), token_count : Nat]
  BY <1>1, <1>3
<1>5. child.blocks = blocks /\ child.own = text /\ child.token_count = count /\ child.overlap = overlap
  OBVIOUS
<1> HIDE DEF child
<1>6. child \in Child
  BY <1>3, <1>4, <1>5 DEF Child
<1> QED
  BY <1>2, <1>6

LEMMA TextTyped ==
  ASSUME NEW b \in Block
  PROVE  TextOf(b) \in Seq(Piece)
<1>1. b.id \in Nat /\ b.sentences \in Seq(Nat)
  BY BlockFields
<1>2. \A k \in DOMAIN b.sentences : <<b.id, k>> \in Piece
  BY <1>1 DEF Piece
<1>3. DOMAIN b.sentences = 1..Len(b.sentences) /\ Len(b.sentences) \in Nat
  BY <1>1
<1>4. TextOf(b) \in [1..Len(b.sentences) -> Piece]
  BY <1>2, <1>3 DEF TextOf
<1> QED
  BY <1>3, <1>4

LEMMA TextsTyped ==
  ASSUME NEW blocks \in Seq(Block)
  PROVE  TextOfAll(blocks) \in Seq(Piece)
<1>1. \A i \in DOMAIN blocks : TextOf(blocks[i]) \in Seq(Piece)
  BY TextTyped
<1>2. DOMAIN blocks = 1..Len(blocks) /\ Len(blocks) \in Nat
  OBVIOUS
<1>3. [i \in DOMAIN blocks |-> TextOf(blocks[i])] \in Seq(Seq(Piece))
  <2>1. [i \in DOMAIN blocks |-> TextOf(blocks[i])] \in [1..Len(blocks) -> Seq(Piece)]
    BY <1>1, <1>2
  <2> QED
    BY <1>2, <2>1
<1> QED
  BY <1>3, FlattenTyped DEF TextOfAll

\* The children of a parent while its blocks are taken.
Chunked == {c \in [children : Seq(Child), current : Seq(Block)] : TokensIn(c.current) <= child_max_tokens}

LEMMA CloseChildTyped ==
  ASSUME NEW c \in Chunked
  PROVE  /\ CloseChild(c) \in Chunked /\ CloseChild(c).current = <<>>
<1>1. c.children \in Seq(Child) /\ c.current \in Seq(Block) /\ TokensIn(c.current) <= child_max_tokens
  BY DEF Chunked
<1>2. CASE c.current = <<>>
  BY <1>2 DEF CloseChild
<1>3. CASE c.current # <<>>
  <2> DEFINE children == AppendChild(c.children, c.current, TextOfAll(c.current), TokensIn(c.current))
  <2>1. CloseChild(c) = [c EXCEPT !.children = children, !.current = <<>>]
    BY <1>3 DEF CloseChild
  <2>2. children \in Seq(Child)
    <3>1. TextOfAll(c.current) \in Seq(Piece) /\ TokensIn(c.current) \in Nat
      BY <1>1, TextsTyped, TokensInTyped
    <3>2. WithinLimit(c.current, TextOfAll(c.current), TokensIn(c.current))
      BY <1>1 DEF WithinLimit
    <3> QED
      BY <1>1, <3>1, <3>2, AppendChildTyped
  <2> HIDE DEF children
  <2>3. TokensIn(<<>>) <= child_max_tokens /\ <<>> \in Seq(Block)
    BY TokensInNothing, ChunkingConfig
  <2> QED
    BY <2>1, <2>2, <2>3 DEF Chunked
<1> QED
  BY <1>2, <1>3

\* What is cut from a paragraph: a part reaches the limit only when it is one sentence.
Part(b) == {s \in Seq(DOMAIN b.sentences) : ShareOf(b, s) <= child_max_tokens \/ Len(s) = 1}

LEMMA IntoPartTyped ==
  ASSUME NEW b \in Block, NEW parts \in Seq(Part(b)), NEW k \in DOMAIN b.sentences
  PROVE  IntoPart(b, parts, k) \in Seq(Part(b))
<1>1. CASE parts = <<>> \/ ShareOf(b, Append(Last(parts), k)) >= child_max_tokens
  <2>1. <<k>> \in Seq(DOMAIN b.sentences) /\ Len(<<k>>) = 1
    <3> DEFINE places == DOMAIN b.sentences
    <3>1. k \in places
      OBVIOUS
    <3> HIDE DEF places
    <3>2. <<k>> \in Seq(places) /\ Len(<<k>>) = 1
      BY <3>1
    <3> QED
      BY <3>2 DEF places
  <2>2. <<k>> \in Part(b)
    BY <2>1 DEF Part
  <2> QED
    BY <1>1, <2>2 DEF IntoPart
<1>2. CASE parts # <<>> /\ ~ (ShareOf(b, Append(Last(parts), k)) >= child_max_tokens)
  <2> DEFINE last == parts[Len(parts)]
             more == Append(last, k)
  <2>1. Len(parts) \in DOMAIN parts /\ last \in Part(b) /\ Last(parts) = last
    BY <1>2 DEF Last
  <2> HIDE DEF last
  <2>2. more \in Seq(DOMAIN b.sentences)
    <3>1. last \in Seq(DOMAIN b.sentences)
      BY <2>1 DEF Part
    <3> QED
      BY <3>1
  <2>3. IntoPart(b, parts, k) = [parts EXCEPT ![Len(parts)] = more]
    BY <1>2, <2>1 DEF IntoPart, last
  <2>4. ~ (ShareOf(b, more) >= child_max_tokens)
    BY <1>2, <2>1
  <2> HIDE DEF more
  <2>5. ShareOf(b, more) <= child_max_tokens
    <3>1. ShareOf(b, more) \in Nat /\ child_max_tokens \in Nat
      BY <2>2, ShareTyped, ChunkingConfig
    <3> QED
      BY <2>4, <3>1
  <2>6. more \in Part(b)
    BY <2>2, <2>5 DEF Part
  <2>7. [parts EXCEPT ![Len(parts)] = more] \in Seq(Part(b))
    BY <2>1, <2>6
  <2> QED
    BY <2>3, <2>7
<1> QED
  BY <1>1, <1>2

\* Text that is to become a child of one block.
Cut(b) == {q \in [text : Seq(Piece), tokens : Nat] : WithinLimit(<<b>>, q.text, q.tokens)}

\* A part as the text and the tokens of a child.
AsText(b, s) == [i \in DOMAIN s |-> <<b.id, s[i]>>]

LEMMA SplitRun ==
  ASSUME NEW b \in Block
  PROVE  \E f \in [0..Len(b.sentences) -> Seq(Part(b))] :
           /\ f[0] = <<>> /\ \A n \in 1..Len(b.sentences) : f[n] = IntoPart(b, f[n - 1], n)
           /\ split_large_paragraph(b) =
                [g \in DOMAIN f[Len(b.sentences)] |->
                   [text |-> AsText(b, f[Len(b.sentences)][g]), tokens |-> ShareOf(b, f[Len(b.sentences)][g])]]
<1> DEFINE N == Len(b.sentences)
           R == Seq(Part(b))
           Solves(f) == f = [n \in 0..N |-> IF n = 0 THEN <<>> ELSE IntoPart(b, f[n - 1], n)]
           step == [p \in (1..N) \X R |-> IntoPart(b, p[2], p[1])]
           g == CHOOSE f : Solves(f)
           cut == g[N]
<1>1. N \in Nat /\ DOMAIN b.sentences = 1..N /\ <<>> \in R /\ b.id \in Nat
  BY BlockFields
<1>2. split_large_paragraph(b) =
        [i \in DOMAIN cut |-> [text |-> [j \in DOMAIN cut[i] |-> <<b.id, cut[i][j]>>], tokens |-> ShareOf(b, cut[i])]]
  BY DEF split_large_paragraph
<1>3. \A n \in 1..N, v \in R : IntoPart(b, v, n) \in R
  BY <1>1, IntoPartTyped
<1>4. step \in [(1..N) \X R -> R]
  <2>1. \A p \in (1..N) \X R : IntoPart(b, p[2], p[1]) \in R
    BY <1>3
  <2> QED
    BY <2>1
<1>5. \A n \in 1..N, v \in R : step[<<n, v>>] = IntoPart(b, v, n)
  OBVIOUS
<1> HIDE DEF N, R, step, Solves, g
<1>6. PICK f : Runs(f, N, R, <<>>, step)
  BY <1>1, <1>4, StepByStep
<1>7. f \in [0..N -> R] /\ f[0] = <<>> /\ \A n \in 1..N : f[n] = IntoPart(b, f[n - 1], n)
  <2>1. \A n \in 1..N : n - 1 \in 0..N
    BY <1>1
  <2> QED
    BY <1>5, <1>6, <2>1 DEF Runs
<1>8. Solves(f)
  <2>1. \A n \in 0..N : f[n] = IF n = 0 THEN <<>> ELSE IntoPart(b, f[n - 1], n)
    BY <1>1, <1>7
  <2> QED
    BY <1>7, <2>1 DEF Solves
<1>9. Solves(g)
  BY <1>8 DEF g
<1>10. g[0] = <<>> /\ \A n \in 1..N : g[n] = IntoPart(b, g[n - 1], n)
  BY <1>1, <1>9 DEF Solves
<1>11. \A n \in 0..N : g[n] \in R
  <2> DEFINE S == {n \in 0..N : g[n] \in R}
  <2>1. 0 \in S
    BY <1>1, <1>10
  <2>2. \A n \in 1..N : n - 1 \in S => n \in S
    BY <1>1, <1>3, <1>10
  <2> HIDE DEF S
  <2>3. \A n \in 0..N : n \in S
    BY <1>1, <2>1, <2>2, OneAfterTheOther
  <2> QED
    BY <2>3 DEF S
<1>12. g \in [0..N -> R]
  BY <1>9, <1>11 DEF Solves
<1> QED
  BY <1>2, <1>10, <1>12 DEF N, R, cut, AsText

LEMMA SplitTyped ==
  ASSUME NEW b \in Block
  PROVE  split_large_paragraph(b) \in Seq(Cut(b))
<1> DEFINE N == Len(b.sentences)
<1>1. N \in Nat /\ DOMAIN b.sentences = 1..N /\ b.id \in Nat
  BY BlockFields
<1>2. PICK f \in [0..N -> Seq(Part(b))] :
        split_large_paragraph(b) = [g \in DOMAIN f[N] |-> [text |-> AsText(b, f[N][g]), tokens |-> ShareOf(b, f[N][g])]]
  BY SplitRun
<1> DEFINE cut == f[N]
<1>3. cut \in Seq(Part(b))
  BY <1>1
<1> HIDE DEF cut, N
<1>4. ASSUME NEW i \in DOMAIN cut
      PROVE  [text |-> AsText(b, cut[i]), tokens |-> ShareOf(b, cut[i])] \in Cut(b)
  <2> DEFINE s == cut[i]
             text == [j \in DOMAIN s |-> <<b.id, s[j]>>]
  <2>1. s \in Seq(DOMAIN b.sentences) /\ (ShareOf(b, s) <= child_max_tokens \/ Len(s) = 1)
    BY <1>3 DEF Part
  <2>2. ShareOf(b, s) \in Nat
    BY <2>1, ShareTyped
  <2>3. text \in Seq(Piece) /\ Len(text) = Len(s)
    <3> HIDE DEF s
    <3>1. DOMAIN s = 1..Len(s) /\ Len(s) \in Nat /\ \A j \in DOMAIN s : s[j] \in 1..N
      BY <1>1, <2>1
    <3>2. \A j \in 1..Len(s) : <<b.id, s[j]>> \in Piece
      <4>1. \A n \in 1..N : <<b.id, n>> \in Piece
        BY <1>1 DEF Piece
      <4> QED
        BY <3>1, <4>1
    <3>3. text \in [1..Len(s) -> Piece]
      BY <3>1, <3>2
    <3> HIDE DEF text
    <3> QED
      BY <3>1, <3>3
  <2> HIDE DEF text, s
  <2>4. [text |-> text, tokens |-> ShareOf(b, s)] \in Cut(b)
    BY <2>1, <2>2, <2>3 DEF Cut, WithinLimit
  <2> QED
    BY <2>4 DEF text, s, AsText
<1>5. DOMAIN cut = 1..Len(cut) /\ Len(cut) \in Nat
  BY <1>3
<1>6. split_large_paragraph(b) \in [1..Len(cut) -> Cut(b)]
  BY <1>2, <1>4, <1>5 DEF cut
<1> QED
  BY <1>5, <1>6


\* What a block beyond the limit becomes.
PartsOf(b) == IF b.block_type \in ATOMIC_TYPES THEN <<[text |-> TextOf(b), tokens |-> b.tokens]>>
              ELSE split_large_paragraph(b)

LEMMA LargeRun ==
  ASSUME NEW children \in Seq(Child), NEW b \in Block
  PROVE  /\ PartsOf(b) \in Seq(Cut(b))
         /\ \E f \in [0..Len(PartsOf(b)) -> Seq(Child)] :
              /\ f[0] = children
              /\ \A n \in 1..Len(PartsOf(b)) :
                   f[n] = AppendChild(f[n - 1], <<b>>, PartsOf(b)[n].text, PartsOf(b)[n].tokens)
              /\ LargeChildren(children, b) = f[Len(PartsOf(b))]
<1> DEFINE parts == PartsOf(b)
           N == Len(parts)
           R == Seq(Child)
           Grown(v, n) == AppendChild(v, <<b>>, parts[n].text, parts[n].tokens)
           Solves(f) == f = [n \in 0..N |-> IF n = 0 THEN children ELSE Grown(f[n - 1], n)]
           step == [p \in (1..N) \X R |-> Grown(p[2], p[1])]
           g == CHOOSE f : Solves(f)
<1>1. LargeChildren(children, b) = g[N]
  BY DEF LargeChildren, PartsOf
<1>2. parts \in Seq(Cut(b))
  <2>1. CASE b.block_type \in ATOMIC_TYPES
    <3> DEFINE whole == [text |-> TextOf(b), tokens |-> b.tokens]
    <3>1. TextOf(b) \in Seq(Piece) /\ b.tokens \in Nat
      BY TextTyped, BlockFields
    <3>2. Len(<<b>>) = 1 /\ <<b>> \in Seq(AtomicBlock)
      <4>1. b \in AtomicBlock
        BY <2>1 DEF AtomicBlock
      <4> QED
        BY <4>1
    <3>3. whole \in Cut(b)
      BY <3>1, <3>2 DEF Cut, WithinLimit
    <3>4. parts = <<whole>>
      BY <2>1 DEF PartsOf
    <3> HIDE DEF whole
    <3>5. <<whole>> \in Seq(Cut(b))
      BY <3>3
    <3> QED
      BY <3>4, <3>5
  <2>2. CASE b.block_type \notin ATOMIC_TYPES
    BY <2>2, SplitTyped DEF PartsOf
  <2> QED
    BY <2>1, <2>2
<1> HIDE DEF parts
<1>3. N \in Nat /\ \A n \in 1..N : parts[n] \in Cut(b)
  BY <1>2
<1>4. \A n \in 1..N, v \in R : Grown(v, n) \in R
  <2> TAKE n \in 1..N, v \in R
  <2>1. parts[n].text \in Seq(Piece) /\ parts[n].tokens \in Nat /\ WithinLimit(<<b>>, parts[n].text, parts[n].tokens)
    BY <1>3 DEF Cut
  <2> QED
    BY <2>1, OneBlock, AppendChildTyped
<1> HIDE DEF Grown
<1>5. step \in [(1..N) \X R -> R]
  <2>1. \A p \in (1..N) \X R : Grown(p[2], p[1]) \in R
    BY <1>4
  <2> QED
    BY <2>1
<1>6. \A n \in 1..N, v \in R : step[<<n, v>>] = Grown(v, n)
  OBVIOUS
<1>7. children \in R
  OBVIOUS
<1> HIDE DEF N, R, step, Solves, g
<1>8. PICK f : Runs(f, N, R, children, step)
  BY <1>3, <1>5, <1>7, StepByStep
<1>9. f \in [0..N -> R] /\ f[0] = children /\ \A n \in 1..N : f[n] = Grown(f[n - 1], n)
  <2>1. \A n \in 1..N : n - 1 \in 0..N
    BY <1>3
  <2> QED
    BY <1>6, <1>8, <2>1 DEF Runs
<1>10. Solves(f)
  <2>1. \A n \in 0..N : f[n] = IF n = 0 THEN children ELSE Grown(f[n - 1], n)
    BY <1>3, <1>9
  <2> QED
    BY <1>9, <2>1 DEF Solves
<1>11. Solves(g)
  BY <1>10 DEF g
<1>12. g[0] = children /\ \A n \in 1..N : g[n] = Grown(g[n - 1], n)
  BY <1>3, <1>11 DEF Solves
<1>13. \A n \in 0..N : g[n] \in R
  <2> DEFINE S == {n \in 0..N : g[n] \in R}
  <2>1. 0 \in S
    BY <1>3, <1>7, <1>12
  <2>2. \A n \in 1..N : n - 1 \in S => n \in S
    BY <1>3, <1>4, <1>12
  <2> HIDE DEF S
  <2>3. \A n \in 0..N : n \in S
    BY <1>3, <2>1, <2>2, OneAfterTheOther
  <2> QED
    BY <2>3 DEF S
<1>14. g \in [0..N -> R]
  BY <1>11, <1>13 DEF Solves
<1>15. \A n \in 1..N : g[n] = AppendChild(g[n - 1], <<b>>, parts[n].text, parts[n].tokens)
  BY <1>12 DEF Grown
<1> QED
  BY <1>1, <1>2, <1>12, <1>14, <1>15 DEF N, R, parts

LEMMA LargeTyped ==
  ASSUME NEW children \in Seq(Child), NEW b \in Block
  PROVE  LargeChildren(children, b) \in Seq(Child)
<1>1. PICK f \in [0..Len(PartsOf(b)) -> Seq(Child)] : LargeChildren(children, b) = f[Len(PartsOf(b))]
  BY LargeRun
<1>2. Len(PartsOf(b)) \in 0..Len(PartsOf(b))
  BY LargeRun
<1> QED
  BY <1>1, <1>2

LEMMA TakeBlockTyped ==
  ASSUME NEW c \in Chunked, NEW b \in Block
  PROVE  TakeBlock(c, b) \in Chunked
<1> DEFINE d == IF TokensIn(c.current) + b.tokens > child_max_tokens THEN CloseChild(c) ELSE c
<1>1. TakeBlock(c, b) = IF b.tokens > child_max_tokens THEN [d EXCEPT !.children = LargeChildren(@, b)]
                        ELSE [d EXCEPT !.current = Append(@, b)]
  BY DEF TakeBlock
<1>2. d \in Chunked /\ (d.current = <<>> \/ TokensIn(d.current) + b.tokens <= child_max_tokens)
  <2>1. CASE TokensIn(c.current) + b.tokens > child_max_tokens
    BY <2>1, CloseChildTyped
  <2>2. CASE ~ (TokensIn(c.current) + b.tokens > child_max_tokens)
    <3>1. c.current \in Seq(Block)
      BY DEF Chunked
    <3>2. TokensIn(c.current) + b.tokens \in Nat /\ child_max_tokens \in Nat
      BY <3>1, TokensInTyped, BlockFields, ChunkingConfig
    <3> QED
      BY <2>2, <3>2
  <2> QED
    BY <2>1, <2>2
<1> HIDE DEF d
<1>3. d.children \in Seq(Child) /\ d.current \in Seq(Block) /\ TokensIn(d.current) <= child_max_tokens
  BY <1>2 DEF Chunked
<1>4. CASE b.tokens > child_max_tokens
  <2>1. LargeChildren(d.children, b) \in Seq(Child)
    BY <1>3, LargeTyped
  <2>2. [d EXCEPT !.children = LargeChildren(d.children, b)] \in Chunked
    BY <1>2, <2>1 DEF Chunked
  <2> QED
    BY <1>1, <1>4, <2>2
<1>5. CASE ~ (b.tokens > child_max_tokens)
  <2>1. TokensIn(Append(d.current, b)) = TokensIn(d.current) + b.tokens
    BY <1>3, TokensInMore
  <2>2. b.tokens \in Nat /\ child_max_tokens \in Nat
    BY BlockFields, ChunkingConfig
  <2>3. TokensIn(Append(d.current, b)) <= child_max_tokens
    <3>1. CASE d.current = <<>>
      BY <1>5, <2>1, <2>2, <3>1, TokensInNothing
    <3>2. CASE TokensIn(d.current) + b.tokens <= child_max_tokens
      BY <2>1, <3>2
    <3> QED
      BY <1>2, <3>1, <3>2
  <2>4. Append(d.current, b) \in Seq(Block)
    BY <1>3
  <2>5. [d EXCEPT !.current = Append(d.current, b)] \in Chunked
    BY <1>2, <2>3, <2>4 DEF Chunked
  <2> QED
    BY <1>1, <1>5, <2>5
<1> QED
  BY <1>4, <1>5

LEMMA ChildrenRun ==
  ASSUME NEW parent \in Parent
  PROVE  \E f \in [0..Len(parent.blocks) -> Chunked] :
           /\ f[0] = [children |-> <<>>, current |-> <<>>]
           /\ \A n \in 1..Len(parent.blocks) : f[n] = TakeBlock(f[n - 1], parent.blocks[n])
           /\ chunk_children(parent) = CloseChild(f[Len(parent.blocks)]).children
<1> DEFINE blocks == parent.blocks
           N == Len(blocks)
           start == [children |-> <<>>, current |-> <<>>]
           Solves(f) == f = [n \in 0..N |-> IF n = 0 THEN start ELSE TakeBlock(f[n - 1], blocks[n])]
           step == [p \in (1..N) \X Chunked |-> TakeBlock(p[2], blocks[p[1]])]
           g == CHOOSE f : Solves(f)
<1>1. chunk_children(parent) = CloseChild(g[N]).children
  BY DEF chunk_children
<1>2. N \in Nat /\ \A n \in 1..N : blocks[n] \in Block
  <2>1. blocks \in Seq(Block)
    BY DEF Parent
  <2> QED
    BY <2>1
<1>3. start \in Chunked
  <2>1. <<>> \in Seq(Child) /\ <<>> \in Seq(Block) /\ TokensIn(<<>>) <= child_max_tokens
    BY TokensInNothing, ChunkingConfig
  <2> QED
    BY <2>1 DEF Chunked
<1> HIDE DEF blocks, start
<1>4. \A n \in 1..N, v \in Chunked : TakeBlock(v, blocks[n]) \in Chunked
  BY <1>2, TakeBlockTyped
<1>5. step \in [(1..N) \X Chunked -> Chunked]
  <2>1. \A p \in (1..N) \X Chunked : TakeBlock(p[2], blocks[p[1]]) \in Chunked
    BY <1>4
  <2> QED
    BY <2>1
<1>6. \A n \in 1..N, v \in Chunked : step[<<n, v>>] = TakeBlock(v, blocks[n])
  OBVIOUS
<1> HIDE DEF N, step, Solves, g
<1>7. PICK f : Runs(f, N, Chunked, start, step)
  BY <1>2, <1>3, <1>5, StepByStep
<1>8. f \in [0..N -> Chunked] /\ f[0] = start /\ \A n \in 1..N : f[n] = TakeBlock(f[n - 1], blocks[n])
  <2>1. \A n \in 1..N : n - 1 \in 0..N
    BY <1>2
  <2> QED
    BY <1>6, <1>7, <2>1 DEF Runs
<1>9. Solves(f)
  <2>1. \A n \in 0..N : f[n] = IF n = 0 THEN start ELSE TakeBlock(f[n - 1], blocks[n])
    BY <1>2, <1>8
  <2> QED
    BY <1>8, <2>1 DEF Solves
<1>10. Solves(g)
  BY <1>9 DEF g
<1>11. g[0] = start /\ \A n \in 1..N : g[n] = TakeBlock(g[n - 1], blocks[n])
  BY <1>2, <1>10 DEF Solves
<1>12. \A n \in 0..N : g[n] \in Chunked
  <2> DEFINE S == {n \in 0..N : g[n] \in Chunked}
  <2>1. 0 \in S
    BY <1>2, <1>3, <1>11
  <2>2. \A n \in 1..N : n - 1 \in S => n \in S
    BY <1>2, <1>4, <1>11
  <2> HIDE DEF S
  <2>3. \A n \in 0..N : n \in S
    BY <1>2, <2>1, <2>2, OneAfterTheOther
  <2> QED
    BY <2>3 DEF S
<1>13. g \in [0..N -> Chunked]
  BY <1>10, <1>12 DEF Solves
<1> QED
  BY <1>1, <1>11, <1>13 DEF N, blocks, start

LEMMA ChildrenTyped ==
  ASSUME NEW parent \in Parent
  PROVE  chunk_children(parent) \in Seq(Child)
<1>1. PICK f \in [0..Len(parent.blocks) -> Chunked] :
        chunk_children(parent) = CloseChild(f[Len(parent.blocks)]).children
  BY ChildrenRun
<1>2. Len(parent.blocks) \in 0..Len(parent.blocks)
  BY DEF Parent
<1>3. CloseChild(f[Len(parent.blocks)]) \in Chunked
  BY <1>2, CloseChildTyped
<1> QED
  BY <1>1, <1>3 DEF Chunked

-----------------------------------------------------------------------------
(* What children say *)

LEMMA MoreIsAppended ==
  ASSUME NEW T, NEW t \in Seq(T), NEW y \in T, NEW u \in [1..Len(t) + 1 -> T],
         \A i \in 1..Len(t) : u[i] = t[i], u[Len(t) + 1] = y
  PROVE  u = Append(t, y)
<1> DEFINE v == Append(t, y)
<1>1. Len(t) \in Nat
  OBVIOUS
<1>2. v \in Seq(T) /\ Len(v) = Len(t) + 1 /\ v[Len(t) + 1] = y /\ \A i \in 1..Len(t) : v[i] = t[i]
  OBVIOUS
<1> HIDE DEF v
<1>3. \A i \in 1..Len(t) + 1 : i = Len(t) + 1 \/ i \in 1..Len(t)
  BY <1>1
<1>4. \A i \in 1..Len(t) + 1 : u[i] = v[i]
  BY <1>1, <1>2, <1>3
<1>5. u \in Seq(T) /\ Len(u) = Len(t) + 1
  BY <1>1
<1>6. u = v
  BY <1>2, <1>4, <1>5
<1> QED
  BY <1>6 DEF v

LEMMA TextsNothing == TextOfAll(<<>>) = <<>>
<1>1. [i \in DOMAIN <<>> |-> TextOf(<<>>[i])] = <<>>
  OBVIOUS
<1> QED
  BY <1>1, FlattenNothing DEF TextOfAll

\* The texts of blocks, to be joined.
Texts(blocks) == [i \in DOMAIN blocks |-> TextOf(blocks[i])]

LEMMA TextsAre ==
  ASSUME NEW blocks \in Seq(Block)
  PROVE  Texts(blocks) \in Seq(Seq(Piece)) /\ Len(Texts(blocks)) = Len(blocks) /\ DOMAIN Texts(blocks) = 1..Len(blocks)
<1>1. \A i \in DOMAIN blocks : TextOf(blocks[i]) \in Seq(Piece)
  BY TextTyped
<1>2. DOMAIN blocks = 1..Len(blocks) /\ Len(blocks) \in Nat
  OBVIOUS
<1>3. Texts(blocks) \in [1..Len(blocks) -> Seq(Piece)]
  BY <1>1, <1>2 DEF Texts
<1> QED
  BY <1>2, <1>3

LEMMA TextsMore ==
  ASSUME NEW blocks \in Seq(Block), NEW b \in Block
  PROVE  TextOfAll(Append(blocks, b)) = TextOfAll(blocks) \o TextOf(b)
<1> DEFINE more == Append(blocks, b)
           u == Texts(more)
           t == Texts(blocks)
<1>1. /\ DOMAIN blocks = 1..Len(blocks) /\ DOMAIN more = 1..Len(blocks) + 1 /\ more[Len(blocks) + 1] = b
      /\ \A i \in 1..Len(blocks) : more[i] = blocks[i] /\ i \in 1..Len(blocks) + 1
      /\ Len(blocks) + 1 \in 1..Len(blocks) + 1
  OBVIOUS
<1>2. t \in Seq(Seq(Piece)) /\ Len(t) = Len(blocks) /\ TextOf(b) \in Seq(Piece)
  BY TextsAre, TextTyped
<1> HIDE DEF more
<1>3. u = [i \in 1..Len(blocks) + 1 |-> TextOf(more[i])]
  BY <1>1 DEF Texts
<1>4. t = [i \in 1..Len(blocks) |-> TextOf(blocks[i])]
  BY <1>1 DEF Texts
<1> DEFINE R == Seq(Piece)
<1>8. \A i \in 1..Len(blocks) + 1 : TextOf(more[i]) \in R
  <2>1. \A i \in 1..Len(blocks) + 1 : more[i] \in Block
    BY DEF more
  <2> QED
    BY <2>1, TextTyped
<1> HIDE DEF u, t, R
<1>5. u \in [1..Len(t) + 1 -> R] /\ u[Len(t) + 1] = TextOf(b) /\ \A i \in 1..Len(t) : u[i] = t[i]
  BY <1>1, <1>2, <1>3, <1>4, <1>8
<1>9. t \in Seq(R) /\ TextOf(b) \in R
  BY <1>2 DEF R
<1>6. u = Append(t, TextOf(b))
  BY <1>5, <1>9, MoreIsAppended
<1>7. FlattenSeq(u) = FlattenSeq(t) \o TextOf(b)
  BY <1>2, <1>6, FlattenMore
<1> QED
  BY <1>7 DEF TextOfAll, u, t, Texts, more

\* The blocks a text is of, and those of a list.
IdsOf(text) == {piece[1] : piece \in ToSet(text)}
IdsIn(blocks) == {b.id : b \in ToSet(blocks)}

LEMMA IdOfText ==
  ASSUME NEW b \in Block
  PROVE  IdsOf(TextOf(b)) = {b.id}
<1>1. b.sentences \in Seq(Nat) /\ b.sentences # <<>>
  BY BlockFields
<1>2. 1 \in DOMAIN b.sentences
  BY <1>1
<1>3. ToSet(TextOf(b)) = {<<b.id, k>> : k \in DOMAIN b.sentences}
  BY DEF TextOf, ToSet
<1>4. \A k : <<b.id, k>>[1] = b.id
  OBVIOUS
<1>5. \A piece \in ToSet(TextOf(b)) : piece[1] = b.id
  BY <1>3, <1>4
<1>6. \E piece \in ToSet(TextOf(b)) : TRUE
  BY <1>2, <1>3
<1> QED
  BY <1>5, <1>6 DEF IdsOf

LEMMA IdsOfTexts ==
  ASSUME NEW blocks \in Seq(Block)
  PROVE  IdsOf(TextOfAll(blocks)) = IdsIn(blocks)
<1> DEFINE t == Texts(blocks)
<1>1. DOMAIN blocks = 1..Len(blocks) /\ \A i \in DOMAIN blocks : blocks[i] \in Block
  OBVIOUS
<1>2. t \in Seq(Seq(Piece)) /\ DOMAIN t = DOMAIN blocks
  BY <1>1, TextsAre
<1>3. ToSet(FlattenSeq(t)) = UNION {ToSet(t[n]) : n \in DOMAIN t}
  BY <1>2, FlattenHolds
<1>4. \A i \in DOMAIN blocks : t[i] = TextOf(blocks[i])
  BY DEF Texts
<1>5. \A i \in DOMAIN blocks : IdsOf(t[i]) = {blocks[i].id}
  BY <1>1, <1>4, IdOfText
<1> HIDE DEF t
<1>6. IdsOf(FlattenSeq(t)) = UNION {IdsOf(t[n]) : n \in DOMAIN t}
  BY <1>3 DEF IdsOf
<1>7. UNION {IdsOf(t[n]) : n \in DOMAIN t} = {blocks[i].id : i \in DOMAIN blocks}
  <2>1. \A n \in DOMAIN t : IdsOf(t[n]) = {blocks[n].id}
    BY <1>2, <1>5
  <2> QED
    BY <1>2, <2>1
<1>8. IdsIn(blocks) = {blocks[i].id : i \in DOMAIN blocks}
  BY DEF IdsIn, ToSet
<1> QED
  BY <1>6, <1>7, <1>8 DEF TextOfAll, t, Texts

\* What children say of their own, and that each names the blocks it is of.
OwnOf(children) == FlattenSeq([i \in DOMAIN children |-> children[i].own])

Tells(children, text) ==
  /\ OwnOf(children) = text
  /\ \A i \in DOMAIN children : IdsOf(children[i].own) = IdsIn(children[i].blocks)

LEMMA NoChildTells == Tells(<<>>, <<>>)
<1>1. [i \in DOMAIN <<>> |-> <<>>[i].own] = <<>> /\ DOMAIN <<>> = {}
  OBVIOUS
<1> QED
  BY <1>1, FlattenNothing DEF Tells, OwnOf

LEMMA OwnTyped ==
  ASSUME NEW children \in Seq(Child)
  PROVE  /\ [i \in DOMAIN children |-> children[i].own] \in Seq(Seq(Piece))
         /\ Len([i \in DOMAIN children |-> children[i].own]) = Len(children)
         /\ OwnOf(children) \in Seq(Piece)
<1> DEFINE t == [i \in DOMAIN children |-> children[i].own]
<1>1. \A i \in DOMAIN children : children[i].own \in Seq(Piece)
  BY DEF Child
<1>2. DOMAIN children = 1..Len(children) /\ Len(children) \in Nat
  OBVIOUS
<1>3. t \in [1..Len(children) -> Seq(Piece)]
  BY <1>1, <1>2
<1> HIDE DEF t
<1>4. t \in Seq(Seq(Piece)) /\ Len(t) = Len(children)
  BY <1>2, <1>3
<1>5. FlattenSeq(t) \in Seq(Piece)
  BY <1>4, FlattenTyped
<1> QED
  BY <1>4, <1>5 DEF t, OwnOf

LEMMA AppendChildTells ==
  ASSUME NEW children \in Seq(Child), NEW said, Tells(children, said),
         NEW blocks \in Seq(Block), NEW text \in Seq(Piece), NEW tokens \in Nat,
         WithinLimit(blocks, text, tokens), IdsOf(text) = IdsIn(blocks)
  PROVE  Tells(AppendChild(children, blocks, text, tokens), said \o text)
<1> DEFINE more == AppendChild(children, blocks, text, tokens)
           t == [i \in DOMAIN children |-> children[i].own]
           u == [i \in DOMAIN more |-> more[i].own]
           overlap == overlap_suffix(children)
           child == [child_order |-> Len(children), blocks |-> blocks, overlap |-> overlap, own |-> text,
                     token_count |-> IF overlap = <<>> THEN tokens ELSE tokens + overlap_tokens]
<1>1. more \in Seq(Child)
  BY AppendChildTyped
<1>2. more = Append(children, child) /\ child.own = text /\ child.blocks = blocks
  BY DEF AppendChild
<1> HIDE DEF more, child
<1>3. /\ DOMAIN children = 1..Len(children) /\ Len(children) \in Nat /\ Len(more) = Len(children) + 1
      /\ DOMAIN more = 1..Len(children) + 1 /\ Len(children) + 1 \in 1..Len(children) + 1
      /\ \A i \in 1..Len(children) : i \in 1..Len(children) + 1
      /\ \A i \in 1..Len(children) + 1 : i = Len(children) + 1 \/ i \in 1..Len(children)
  BY <1>1, <1>2
<1>4. more[Len(children) + 1] = child /\ \A i \in 1..Len(children) : more[i] = children[i]
  BY <1>2
<1>5. t \in Seq(Seq(Piece)) /\ Len(t) = Len(children)
  BY OwnTyped
<1> DEFINE R == Seq(Piece)
<1>13. \A i \in 1..Len(children) + 1 : more[i].own \in R
  BY <1>1, <1>3 DEF Child
<1> HIDE DEF R
<1>6. /\ u \in [1..Len(t) + 1 -> R] /\ u[Len(t) + 1] = text
      /\ \A i \in 1..Len(t) : u[i] = t[i]
  <2>1. u = [i \in 1..Len(children) + 1 |-> more[i].own] /\ t = [i \in 1..Len(children) |-> children[i].own]
    BY <1>3
  <2> HIDE DEF u, t
  <2> QED
    BY <1>2, <1>3, <1>4, <1>5, <1>13, <2>1
<1> HIDE DEF u, t
<1>12. t \in Seq(R) /\ text \in R
  BY <1>5 DEF R
<1>7. u = Append(t, text)
  BY <1>6, <1>12, MoreIsAppended
<1>8. FlattenSeq(u) = FlattenSeq(t) \o text
  BY <1>5, <1>7, FlattenMore
<1>9. OwnOf(more) = said \o text
  BY <1>8 DEF Tells, OwnOf, u, t
<1>10. \A i \in DOMAIN more : IdsOf(more[i].own) = IdsIn(more[i].blocks)
  BY <1>2, <1>3, <1>4 DEF Tells
<1>11. Tells(more, said \o text)
  BY <1>9, <1>10 DEF Tells
<1> QED
  BY <1>11 DEF more

LEMMA CloseChildTells ==
  ASSUME NEW c \in Chunked, NEW said, Tells(c.children, said), said \in Seq(Piece)
  PROVE  Tells(CloseChild(c).children, said \o TextOfAll(c.current))
<1>1. c.children \in Seq(Child) /\ c.current \in Seq(Block) /\ TokensIn(c.current) <= child_max_tokens
  BY DEF Chunked
<1>2. CASE c.current = <<>>
  <2>1. CloseChild(c) = c /\ TextOfAll(c.current) = <<>>
    BY <1>2, TextsNothing DEF CloseChild
  <2>2. said \o <<>> = said
    OBVIOUS
  <2> QED
    BY <2>1, <2>2
<1>3. CASE c.current # <<>>
  <2> DEFINE children == AppendChild(c.children, c.current, TextOfAll(c.current), TokensIn(c.current))
  <2>1. CloseChild(c).children = children
    <3>1. CloseChild(c) = [c EXCEPT !.children = children, !.current = <<>>]
      BY <1>3 DEF CloseChild
    <3> HIDE DEF children
    <3> QED
      BY <3>1 DEF Chunked
  <2>2. TextOfAll(c.current) \in Seq(Piece) /\ TokensIn(c.current) \in Nat
    BY <1>1, TextsTyped, TokensInTyped
  <2>3. WithinLimit(c.current, TextOfAll(c.current), TokensIn(c.current))
    BY <1>1 DEF WithinLimit
  <2>4. IdsOf(TextOfAll(c.current)) = IdsIn(c.current)
    BY <1>1, IdsOfTexts
  <2> QED
    BY <1>1, <2>1, <2>2, <2>3, <2>4, AppendChildTells
<1> QED
  BY <1>2, <1>3

\* What parts of a block say.
PartTexts(b, parts) == [i \in DOMAIN parts |-> AsText(b, parts[i])]

LEMMA AsTextTyped ==
  ASSUME NEW b \in Block, NEW s \in Seq(DOMAIN b.sentences)
  PROVE  /\ AsText(b, s) \in Seq(Piece) /\ Len(AsText(b, s)) = Len(s)
         /\ \A k \in DOMAIN b.sentences : AsText(b, Append(s, k)) = Append(AsText(b, s), <<b.id, k>>)
         /\ s # <<>> => IdsOf(AsText(b, s)) = {b.id}
<1> DEFINE N == Len(b.sentences)
           text == AsText(b, s)
<1>1. DOMAIN b.sentences = 1..N /\ N \in Nat /\ b.id \in Nat
  BY BlockFields
<1> HIDE DEF N
<1>2. /\ DOMAIN s = 1..Len(s) /\ Len(s) \in Nat /\ \A i \in DOMAIN s : s[i] \in 1..N
      /\ s \in Seq(1..N) /\ (s # <<>> => 1 \in DOMAIN s)
  BY <1>1
<1>3. \A n \in 1..N : <<b.id, n>> \in Piece
  BY <1>1 DEF Piece
<1>4. text = [i \in 1..Len(s) |-> <<b.id, s[i]>>]
  BY <1>2 DEF AsText
<1> HIDE DEF text
<1>5. text \in [1..Len(s) -> Piece]
  BY <1>2, <1>3, <1>4
<1>6. text \in Seq(Piece) /\ Len(text) = Len(s)
  BY <1>2, <1>5
<1>7. ASSUME NEW k \in 1..N PROVE AsText(b, Append(s, k)) = Append(text, <<b.id, k>>)
  <2> DEFINE more == Append(s, k)
             u == AsText(b, more)
  <2>1. DOMAIN more = 1..Len(s) + 1 /\ more[Len(s) + 1] = k /\ \A i \in 1..Len(s) : more[i] = s[i] /\ i \in 1..Len(s) + 1
    BY <1>2
  <2>2. \A i \in 1..Len(s) + 1 : more[i] \in 1..N
    BY <1>2
  <2> HIDE DEF more
  <2>3. u = [i \in 1..Len(text) + 1 |-> <<b.id, more[i]>>]
    BY <1>6, <2>1 DEF AsText
  <2> HIDE DEF u
  <2>4. u \in [1..Len(text) + 1 -> Piece]
    BY <1>3, <1>6, <2>2, <2>3
  <2>5. u[Len(text) + 1] = <<b.id, k>> /\ \A i \in 1..Len(text) : u[i] = text[i]
    <3>1. Len(text) + 1 \in 1..Len(text) + 1
      BY <1>2, <1>6
    <3> QED
      BY <1>4, <1>6, <2>1, <2>3, <3>1
  <2>6. <<b.id, k>> \in Piece
    BY <1>3
  <2>7. u = Append(text, <<b.id, k>>)
    BY <1>6, <2>4, <2>5, <2>6, MoreIsAppended
  <2> QED
    BY <2>7 DEF u, more
<1>8. s # <<>> => IdsOf(text) = {b.id}
  <2>1. \A k : <<b.id, k>>[1] = b.id
    OBVIOUS
  <2>2. ToSet(text) = {<<b.id, s[i]>> : i \in 1..Len(s)}
    BY <1>4 DEF ToSet
  <2>3. \A piece \in ToSet(text) : piece[1] = b.id
    BY <2>1, <2>2
  <2>4. s # <<>> => \E piece \in ToSet(text) : TRUE
    BY <1>2, <2>2
  <2> QED
    BY <2>3, <2>4 DEF IdsOf
<1> QED
  BY <1>1, <1>6, <1>7, <1>8 DEF text

LEMMA PartTextsTyped ==
  ASSUME NEW b \in Block, NEW parts \in Seq(Part(b))
  PROVE  /\ PartTexts(b, parts) \in Seq(Seq(Piece)) /\ Len(PartTexts(b, parts)) = Len(parts)
         /\ DOMAIN PartTexts(b, parts) = 1..Len(parts)
<1>1. DOMAIN parts = 1..Len(parts) /\ Len(parts) \in Nat /\ \A i \in DOMAIN parts : parts[i] \in Part(b)
  OBVIOUS
<1>2. \A i \in DOMAIN parts : AsText(b, parts[i]) \in Seq(Piece)
  BY <1>1, AsTextTyped DEF Part
<1>3. PartTexts(b, parts) \in [1..Len(parts) -> Seq(Piece)]
  BY <1>1, <1>2 DEF PartTexts
<1> QED
  BY <1>1, <1>3

\* A sentence more is said last.
LEMMA IntoPartTells ==
  ASSUME NEW b \in Block, NEW parts \in Seq(Part(b)), NEW k \in DOMAIN b.sentences,
         \A i \in DOMAIN parts : parts[i] # <<>>
  PROVE  /\ FlattenSeq(PartTexts(b, IntoPart(b, parts, k))) = Append(FlattenSeq(PartTexts(b, parts)), <<b.id, k>>)
         /\ \A i \in DOMAIN IntoPart(b, parts, k) : IntoPart(b, parts, k)[i] # <<>>
<1> DEFINE t == PartTexts(b, parts)
           more == IntoPart(b, parts, k)
           u == PartTexts(b, more)
           x == <<b.id, k>>
<1>1. t \in Seq(Seq(Piece)) /\ Len(t) = Len(parts) /\ DOMAIN t = 1..Len(parts)
  BY PartTextsTyped
<1>2. x \in Piece
  <2>1. b.sentences \in Seq(Nat) /\ b.id \in Nat
    BY BlockFields
  <2>2. k \in Nat
    BY <2>1
  <2> QED
    BY <2>1, <2>2 DEF Piece
<1>3. more \in Seq(Part(b))
  BY IntoPartTyped
<1>4. DOMAIN parts = 1..Len(parts) /\ Len(parts) \in Nat /\ \A i \in DOMAIN parts : parts[i] \in Seq(DOMAIN b.sentences)
  BY DEF Part
<1>5. u \in Seq(Seq(Piece)) /\ Len(u) = Len(more) /\ DOMAIN u = 1..Len(more)
  BY <1>3, PartTextsTyped
<1>6. CASE parts = <<>> \/ ShareOf(b, Append(Last(parts), k)) >= child_max_tokens
  <2>1. more = Append(parts, <<k>>)
    BY <1>6 DEF IntoPart
  <2>2. <<k>> # <<>> /\ <<k>> = Append(<<>>, k) /\ <<>> \in Seq(DOMAIN b.sentences) /\ <<x>> = Append(<<>>, x)
    OBVIOUS
  <2>3. AsText(b, <<>>) = <<>>
    BY DEF AsText
  <2>4. AsText(b, Append(<<>>, k)) = Append(AsText(b, <<>>), x)
    BY <2>2, AsTextTyped
  <2>5. AsText(b, <<k>>) = <<x>> /\ <<x>> \in Seq(Piece)
    <3> HIDE DEF x
    <3> QED
      BY <1>2, <2>2, <2>3, <2>4 DEF x
  <2>6. Len(more) = Len(parts) + 1 /\ more[Len(parts) + 1] = <<k>> /\ \A i \in 1..Len(parts) : more[i] = parts[i]
    BY <2>1
  <2> HIDE DEF more
  <2>7. DOMAIN more = 1..Len(parts) + 1 /\ \A i \in 1..Len(parts) + 1 : i = Len(parts) + 1 \/ i \in 1..Len(parts)
    BY <1>3, <1>4, <2>6
  <2>8. u = Append(t, <<x>>)
    <3> DEFINE R == Seq(Piece)
    <3>1. u \in [1..Len(t) + 1 -> R]
      BY <1>1, <1>5, <2>6
    <3>2. u[Len(t) + 1] = <<x>> /\ \A i \in 1..Len(t) : u[i] = t[i]
      <4>1. Len(parts) + 1 \in DOMAIN more /\ \A i \in 1..Len(parts) : i \in DOMAIN more
        BY <1>4, <2>7
      <4>2. \A i \in DOMAIN more : u[i] = AsText(b, more[i])
        BY DEF PartTexts
      <4>3. \A i \in DOMAIN parts : t[i] = AsText(b, parts[i])
        BY DEF PartTexts
      <4> HIDE DEF u, t
      <4> QED
        BY <1>1, <1>4, <2>5, <2>6, <4>1, <4>2, <4>3
    <3> HIDE DEF R, u, t, x
    <3>3. t \in Seq(R) /\ <<x>> \in R
      BY <1>1, <2>5 DEF R
    <3> QED
      BY <3>1, <3>2, <3>3, MoreIsAppended
  <2> HIDE DEF u, t, x
  <2>9. FlattenSeq(u) = FlattenSeq(t) \o <<x>>
    BY <1>1, <2>5, <2>8, FlattenMore
  <2>10. FlattenSeq(t) \in Seq(Piece)
    BY <1>1, FlattenTyped
  <2>11. FlattenSeq(u) = Append(FlattenSeq(t), x)
    BY <1>2, <2>9, <2>10
  <2>12. \A i \in DOMAIN more : more[i] # <<>>
    BY <1>4, <2>2, <2>6, <2>7
  <2> QED
    BY <2>11, <2>12 DEF u, t, x, more
<1>7. CASE parts # <<>> /\ ~ (ShareOf(b, Append(Last(parts), k)) >= child_max_tokens)
  <2> DEFINE last == parts[Len(parts)]
             longer == Append(last, k)
  <2>1. Len(parts) \in DOMAIN parts /\ last \in Seq(DOMAIN b.sentences) /\ Last(parts) = last
    BY <1>4, <1>7 DEF Last
  <2>2. more = [parts EXCEPT ![Len(parts)] = longer]
    BY <1>7, <2>1 DEF IntoPart
  <2>3. AsText(b, longer) = Append(AsText(b, last), x)
    BY <2>1, AsTextTyped
  <2>4. longer # <<>>
    <3> DEFINE places == DOMAIN b.sentences
    <3>1. k \in places /\ last \in Seq(places)
      BY <2>1
    <3> HIDE DEF last, places
    <3>2. Len(Append(last, k)) = Len(last) + 1 /\ Len(last) \in Nat
      BY <3>1
    <3> QED
      BY <3>2
  <2> HIDE DEF longer, last
  <2>5. DOMAIN more = DOMAIN parts /\ \A i \in DOMAIN parts : more[i] = IF i = Len(parts) THEN longer ELSE parts[i]
    BY <2>2
  <2> HIDE DEF more
  <2>6. u = [t EXCEPT ![Len(t)] = Append(t[Len(t)], x)]
    <3>1. u = [i \in DOMAIN parts |-> AsText(b, more[i])] /\ t = [i \in DOMAIN parts |-> AsText(b, parts[i])]
      BY <2>5 DEF PartTexts
    <3>2. t[Len(t)] = AsText(b, last)
      BY <1>1, <2>1, <3>1 DEF last
    <3> DEFINE v == [t EXCEPT ![Len(t)] = Append(t[Len(t)], x)]
    <3>3. v = [i \in DOMAIN parts |-> IF i = Len(parts) THEN Append(AsText(b, last), x) ELSE AsText(b, parts[i])]
      <4> HIDE DEF t, x
      <4> QED
        BY <1>1, <3>1, <3>2
    <3> HIDE DEF v, u, t, x
    <3>4. \A i \in DOMAIN parts : AsText(b, more[i]) = IF i = Len(parts) THEN Append(AsText(b, last), x) ELSE AsText(b, parts[i])
      BY <2>3, <2>5
    <3>5. u = v
      BY <3>1, <3>3, <3>4
    <3> QED
      BY <3>5 DEF v
  <2>7. t # <<>>
    <3> HIDE DEF t
    <3> QED
      BY <1>1, <1>4, <2>1
  <2> HIDE DEF u, t, x
  <2>8. FlattenSeq(u) = Append(FlattenSeq(t), x)
    BY <1>1, <1>2, <2>6, <2>7, FlattenLast
  <2>9. \A i \in DOMAIN more : more[i] # <<>>
    BY <2>4, <2>5
  <2> QED
    BY <2>8, <2>9 DEF u, t, x, more
<1> QED
  BY <1>6, <1>7

\* The parts of a block say what the block says.
LEMMA PartsTell ==
  ASSUME NEW b \in Block
  PROVE  /\ FlattenSeq([i \in DOMAIN PartsOf(b) |-> PartsOf(b)[i].text]) = TextOf(b)
         /\ \A i \in DOMAIN PartsOf(b) : IdsOf(PartsOf(b)[i].text) = {b.id}
<1>1. TextOf(b) \in Seq(Piece) /\ IdsOf(TextOf(b)) = {b.id}
  BY TextTyped, IdOfText
<1>2. CASE b.block_type \in ATOMIC_TYPES
  <2> DEFINE whole == [text |-> TextOf(b), tokens |-> b.tokens]
             parts == PartsOf(b)
  <2>1. parts = <<whole>> /\ whole.text = TextOf(b)
    BY <1>2 DEF PartsOf
  <2> HIDE DEF whole, parts
  <2>2. DOMAIN parts = 1..1 /\ parts[1] = whole
    BY <2>1
  <2> DEFINE t == [i \in DOMAIN parts |-> parts[i].text]
             text == TextOf(b)
  <2>3. t = <<text>>
    BY <2>1, <2>2
  <2> HIDE DEF t, text
  <2>4. <<text>> = Append(<<>>, text) /\ <<>> \in Seq(Seq(Piece)) /\ text \in Seq(Piece)
    BY <1>1 DEF text
  <2>5. FlattenSeq(Append(<<>>, text)) = FlattenSeq(<<>>) \o text
    BY <2>4, FlattenMore
  <2>6. <<>> \o text = text
    BY <2>4
  <2>7. FlattenSeq(t) = text
    BY <2>3, <2>4, <2>5, <2>6, FlattenNothing
  <2> QED
    BY <1>1, <2>1, <2>2, <2>7 DEF t, text, parts
<1>3. CASE b.block_type \notin ATOMIC_TYPES
  <2> DEFINE N == Len(b.sentences)
             Whole(n) == [k \in 1..n |-> <<b.id, k>>]
             parts == PartsOf(b)
  <2>1. N \in Nat /\ DOMAIN b.sentences = 1..N /\ b.id \in Nat
    BY BlockFields
  <2>2. PICK f \in [0..N -> Seq(Part(b))] :
           /\ f[0] = <<>> /\ \A n \in 1..N : f[n] = IntoPart(b, f[n - 1], n)
           /\ split_large_paragraph(b) = [g \in DOMAIN f[N] |-> [text |-> AsText(b, f[N][g]), tokens |-> ShareOf(b, f[N][g])]]
    BY SplitRun
  <2> HIDE DEF N
  <2> DEFINE S == {n \in 0..N : /\ FlattenSeq(PartTexts(b, f[n])) = Whole(n)
                                /\ \A i \in DOMAIN f[n] : f[n][i] # <<>>}
  <2>3. 0 \in S
    <3>1. PartTexts(b, <<>>) = <<>> /\ DOMAIN <<>> = {} /\ Whole(0) = <<>>
      BY DEF PartTexts
    <3> QED
      BY <2>1, <2>2, <3>1, FlattenNothing
  <2>4. ASSUME NEW n \in 1..N, n - 1 \in S PROVE n \in S
    <3>1. n - 1 \in 0..N /\ n \in 0..N /\ f[n - 1] \in Seq(Part(b)) /\ n \in DOMAIN b.sentences
      BY <2>1
    <3>2. /\ FlattenSeq(PartTexts(b, f[n])) = Append(FlattenSeq(PartTexts(b, f[n - 1])), <<b.id, n>>)
          /\ \A i \in DOMAIN f[n] : f[n][i] # <<>>
      BY <2>2, <2>4, <3>1, IntoPartTells
    <3>3. Whole(n) = Append(Whole(n - 1), <<b.id, n>>)
      <4> DEFINE v == Whole(n)
                 s == Whole(n - 1)
      <4>1. \A k \in Nat : <<b.id, k>> \in Piece
        BY <2>1 DEF Piece
      <4>2. n - 1 \in Nat /\ n \in Nat /\ \A k \in 1..n : k \in Nat
        BY <2>1
      <4>3. s \in [1..n - 1 -> Piece]
        BY <4>1
      <4>4. s \in Seq(Piece) /\ Len(s) = n - 1
        <5> HIDE DEF s
        <5> QED
          BY <4>2, <4>3
      <4>5. v \in [1..n -> Piece]
        BY <4>1, <4>2
      <4>6. v[n] = <<b.id, n>> /\ \A i \in 1..n - 1 : v[i] = s[i]
        BY <4>2
      <4> HIDE DEF s, v
      <4>7. Len(s) + 1 = n /\ <<b.id, n>> \in Piece
        BY <4>1, <4>2, <4>4
      <4>8. v = Append(s, <<b.id, n>>)
        BY <4>4, <4>5, <4>6, <4>7, MoreIsAppended
      <4> QED
        BY <4>8 DEF s, v
    <3> HIDE DEF Whole
    <3>4. FlattenSeq(PartTexts(b, f[n - 1])) = Whole(n - 1)
      BY <2>4
    <3> QED
      BY <3>1, <3>2, <3>3, <3>4
  <2>5. N \in S
    <3> HIDE DEF S
    <3>1. \A n \in 0..N : n \in S
      BY <2>1, <2>3, <2>4, OneAfterTheOther
    <3> QED
      BY <2>1, <3>1
  <2> DEFINE cut == f[N]
  <2>6. cut \in Seq(Part(b)) /\ FlattenSeq(PartTexts(b, cut)) = Whole(N) /\ \A i \in DOMAIN cut : cut[i] # <<>>
    BY <2>1, <2>5
  <2>7. parts = [g \in DOMAIN cut |-> [text |-> AsText(b, cut[g]), tokens |-> ShareOf(b, cut[g])]]
    BY <1>3, <2>2 DEF PartsOf
  <2> HIDE DEF parts, cut
  <2>8. DOMAIN parts = DOMAIN cut /\ \A i \in DOMAIN cut : parts[i].text = AsText(b, cut[i])
    BY <2>7
  <2>9. [i \in DOMAIN parts |-> parts[i].text] = PartTexts(b, cut)
    BY <2>8 DEF PartTexts
  <2>10. Whole(N) = TextOf(b)
    BY <2>1 DEF TextOf
  <2>11. \A i \in DOMAIN cut : IdsOf(AsText(b, cut[i])) = {b.id}
    <3>1. \A i \in DOMAIN cut : cut[i] \in Part(b)
      BY <2>6
    <3> QED
      BY <2>6, <3>1, AsTextTyped DEF Part
  <2> QED
    BY <2>6, <2>8, <2>9, <2>10, <2>11 DEF parts
<1> QED
  BY <1>2, <1>3

LEMMA LargeTells ==
  ASSUME NEW children \in Seq(Child), NEW b \in Block, NEW said \in Seq(Piece), Tells(children, said)
  PROVE  Tells(LargeChildren(children, b), said \o TextOf(b))
<1> DEFINE parts == PartsOf(b)
           N == Len(parts)
           t == [i \in DOMAIN parts |-> parts[i].text]
<1>1. parts \in Seq(Cut(b))
  BY LargeRun
<1>2. PICK f \in [0..N -> Seq(Child)] :
        /\ f[0] = children
        /\ \A n \in 1..N : f[n] = AppendChild(f[n - 1], <<b>>, parts[n].text, parts[n].tokens)
        /\ LargeChildren(children, b) = f[N]
  BY LargeRun
<1>3. FlattenSeq(t) = TextOf(b) /\ \A i \in DOMAIN parts : IdsOf(parts[i].text) = {b.id}
  BY PartsTell
<1> HIDE DEF parts
<1>4. DOMAIN parts = 1..N /\ N \in Nat /\ \A i \in 1..N : parts[i] \in Cut(b)
  BY <1>1
<1> HIDE DEF N
<1>5. \A i \in 1..N : /\ parts[i].text \in Seq(Piece) /\ parts[i].tokens \in Nat
                      /\ WithinLimit(<<b>>, parts[i].text, parts[i].tokens)
  BY <1>4 DEF Cut
<1>6. t \in [1..N -> Seq(Piece)] /\ \A i \in 1..N : t[i] = parts[i].text
  BY <1>4, <1>5
<1> HIDE DEF t
<1>7. t \in Seq(Seq(Piece)) /\ Len(t) = N
  BY <1>4, <1>6
<1>8. PICK h \in [0..N -> Seq(Piece)] :
        h[0] = <<>> /\ (\A n \in 1..N : h[n] = h[n - 1] \o t[n]) /\ FlattenSeq(t) = h[N]
  BY <1>7, FlattenRun
<1> DEFINE S == {n \in 0..N : Tells(f[n], said \o h[n])}
<1>9. 0 \in S
  <2>1. said \o <<>> = said
    OBVIOUS
  <2>2. Tells(f[0], said \o h[0])
    BY <1>2, <1>8, <2>1
  <2> QED
    BY <1>4, <2>2
<1>10. ASSUME NEW n \in 1..N, n - 1 \in S PROVE n \in S
  <2>1. n - 1 \in 0..N /\ n \in 0..N /\ f[n - 1] \in Seq(Child) /\ h[n - 1] \in Seq(Piece)
    BY <1>4
  <2>2. Tells(f[n - 1], said \o h[n - 1])
    BY <1>10
  <2>3. IdsOf(parts[n].text) = IdsIn(<<b>>)
    <3>1. ToSet(<<b>>) = {b}
      BY DEF ToSet
    <3> QED
      BY <1>3, <1>4, <3>1 DEF IdsIn
  <2>4. Tells(AppendChild(f[n - 1], <<b>>, parts[n].text, parts[n].tokens), (said \o h[n - 1]) \o parts[n].text)
    BY <1>5, <2>1, <2>2, <2>3, OneBlock, AppendChildTells
  <2>5. (said \o h[n - 1]) \o parts[n].text = said \o h[n]
    <3>1. \A r, s, u \in Seq(Piece) : (r \o s) \o u = r \o (s \o u)
      OBVIOUS
    <3>2. h[n] = h[n - 1] \o parts[n].text
      BY <1>6, <1>8
    <3>3. parts[n].text \in Seq(Piece)
      BY <1>5
    <3> DEFINE p == parts[n].text
               q == h[n - 1]
    <3>4. p \in Seq(Piece) /\ q \in Seq(Piece) /\ h[n] = q \o p
      BY <2>1, <3>2, <3>3
    <3> HIDE DEF p, q
    <3>5. (said \o q) \o p = said \o (q \o p)
      BY <3>1, <3>4
    <3> QED
      BY <3>4, <3>5 DEF p, q
  <2> QED
    BY <1>2, <2>1, <2>4, <2>5
<1>11. N \in S
  <2> HIDE DEF S
  <2>1. \A n \in 0..N : n \in S
    BY <1>4, <1>9, <1>10, OneAfterTheOther
  <2> QED
    BY <1>4, <2>1
<1> QED
  BY <1>2, <1>3, <1>8, <1>11

\* What is told by the children, and by those to come of the blocks at hand.
Told(c, text) == \E said \in Seq(Piece) : Tells(c.children, said) /\ text = said \o TextOfAll(c.current)

LEMMA TakeBlockTells ==
  ASSUME NEW c \in Chunked, NEW b \in Block, NEW text, Told(c, text)
  PROVE  Told(TakeBlock(c, b), text \o TextOf(b))
<1> DEFINE d == IF TokensIn(c.current) + b.tokens > child_max_tokens THEN CloseChild(c) ELSE c
<1>1. TakeBlock(c, b) = IF b.tokens > child_max_tokens THEN [d EXCEPT !.children = LargeChildren(@, b)]
                        ELSE [d EXCEPT !.current = Append(@, b)]
  BY DEF TakeBlock
<1>2. d \in Chunked /\ Told(d, text) /\ (d.current = <<>> \/ TokensIn(d.current) + b.tokens <= child_max_tokens)
  <2>1. CASE TokensIn(c.current) + b.tokens > child_max_tokens
    <3>1. PICK said \in Seq(Piece) : Tells(c.children, said) /\ text = said \o TextOfAll(c.current)
      BY DEF Told
    <3>2. CloseChild(c) \in Chunked /\ CloseChild(c).current = <<>>
      BY CloseChildTyped
    <3>3. Tells(CloseChild(c).children, text)
      BY <3>1, CloseChildTells
    <3>4. c.current \in Seq(Block) /\ TextOfAll(c.current) \in Seq(Piece)
      BY TextsTyped DEF Chunked
    <3>5. text \in Seq(Piece)
      BY <3>1, <3>4
    <3>6. text = text \o TextOfAll(CloseChild(c).current)
      <4>1. text \o <<>> = text
        BY <3>5
      <4> QED
        BY <3>2, <4>1, TextsNothing
    <3> QED
      BY <2>1, <3>2, <3>3, <3>5, <3>6 DEF Told
  <2>2. CASE ~ (TokensIn(c.current) + b.tokens > child_max_tokens)
    <3>1. c.current \in Seq(Block)
      BY DEF Chunked
    <3>2. TokensIn(c.current) + b.tokens \in Nat /\ child_max_tokens \in Nat
      BY <3>1, TokensInTyped, BlockFields, ChunkingConfig
    <3> QED
      BY <2>2, <3>2
  <2> QED
    BY <2>1, <2>2
<1> HIDE DEF d
<1>3. d.children \in Seq(Child) /\ d.current \in Seq(Block)
  BY <1>2 DEF Chunked
<1>4. PICK said \in Seq(Piece) : Tells(d.children, said) /\ text = said \o TextOfAll(d.current)
  BY <1>2 DEF Told
<1>5. TextOf(b) \in Seq(Piece) /\ TextOfAll(d.current) \in Seq(Piece)
  BY <1>3, TextTyped, TextsTyped
<1>6. CASE b.tokens > child_max_tokens
  <2> DEFINE e == [d EXCEPT !.children = LargeChildren(d.children, b)]
  <2>1. d.current = <<>>
    <3>1. TokensIn(d.current) \in Nat /\ b.tokens \in Nat /\ child_max_tokens \in Nat
      BY <1>3, TokensInTyped, BlockFields, ChunkingConfig
    <3> QED
      BY <1>2, <1>6, <3>1
  <2>2. text = said
    <3>1. said \o <<>> = said
      OBVIOUS
    <3> QED
      BY <1>4, <2>1, <3>1, TextsNothing
  <2>3. Tells(LargeChildren(d.children, b), text \o TextOf(b))
    BY <1>3, <1>4, <2>2, LargeTells
  <2>4. e.children = LargeChildren(d.children, b) /\ e.current = <<>>
    BY <1>2, <2>1 DEF Chunked
  <2>5. TakeBlock(c, b) = e
    BY <1>1, <1>6
  <2> HIDE DEF e
  <2> DEFINE more == text \o TextOf(b)
  <2>6. more \in Seq(Piece)
    BY <1>5, <2>2
  <2> HIDE DEF more
  <2>7. more = more \o TextOfAll(e.current)
    <3>1. more \o <<>> = more
      BY <2>6
    <3> QED
      BY <2>4, <3>1, TextsNothing
  <2>8. Told(e, more)
    BY <2>3, <2>4, <2>6, <2>7 DEF Told, more
  <2> QED
    BY <2>5, <2>8 DEF more
<1>7. CASE ~ (b.tokens > child_max_tokens)
  <2> DEFINE e == [d EXCEPT !.current = Append(d.current, b)]
  <2>1. e.children = d.children /\ e.current = Append(d.current, b)
    BY <1>2 DEF Chunked
  <2>2. TakeBlock(c, b) = e
    BY <1>1, <1>7
  <2> HIDE DEF e
  <2>3. TextOfAll(e.current) = TextOfAll(d.current) \o TextOf(b)
    BY <1>3, <2>1, TextsMore
  <2>4. text \o TextOf(b) = said \o TextOfAll(e.current)
    <3>1. \A r, s, u \in Seq(Piece) : (r \o s) \o u = r \o (s \o u)
      OBVIOUS
    <3> QED
      BY <1>4, <1>5, <2>3, <3>1
  <2> QED
    BY <1>4, <2>1, <2>2, <2>4 DEF Told
<1> QED
  BY <1>6, <1>7

\* The children of a parent tell the text of its blocks.
LEMMA ChildrenTell ==
  ASSUME NEW parent \in Parent
  PROVE  Tells(chunk_children(parent), TextOfAll(parent.blocks))
<1> DEFINE blocks == parent.blocks
           N == Len(blocks)
           t == Texts(blocks)
<1>1. blocks \in Seq(Block) /\ N \in Nat /\ \A n \in 1..N : blocks[n] \in Block
  <2>1. blocks \in Seq(Block)
    BY DEF Parent
  <2> QED
    BY <2>1
<1>2. PICK f \in [0..N -> Chunked] :
        /\ f[0] = [children |-> <<>>, current |-> <<>>]
        /\ \A n \in 1..N : f[n] = TakeBlock(f[n - 1], blocks[n])
        /\ chunk_children(parent) = CloseChild(f[N]).children
  BY ChildrenRun
<1> HIDE DEF blocks
<1>3. t \in Seq(Seq(Piece)) /\ Len(t) = N /\ DOMAIN t = 1..N
  BY <1>1, TextsAre
<1>4. \A n \in 1..N : t[n] = TextOf(blocks[n]) /\ t[n] \in Seq(Piece)
  BY <1>1, <1>3 DEF Texts
<1> HIDE DEF t, N
<1>5. PICK h \in [0..N -> Seq(Piece)] :
        h[0] = <<>> /\ (\A n \in 1..N : h[n] = h[n - 1] \o t[n]) /\ FlattenSeq(t) = h[N]
  BY <1>3, FlattenRun
<1> DEFINE S == {n \in 0..N : Told(f[n], h[n])}
<1>6. 0 \in S
  <2>1. f[0].children = <<>> /\ f[0].current = <<>> /\ <<>> \in Seq(Piece) /\ <<>> \o <<>> = <<>>
    BY <1>2
  <2>2. Told(f[0], <<>>)
    BY <2>1, NoChildTells, TextsNothing DEF Told
  <2> QED
    BY <1>1, <1>5, <2>2
<1>7. ASSUME NEW n \in 1..N, n - 1 \in S PROVE n \in S
  <2>1. n - 1 \in 0..N /\ n \in 0..N /\ f[n - 1] \in Chunked
    BY <1>1
  <2>2. Told(TakeBlock(f[n - 1], blocks[n]), h[n - 1] \o TextOf(blocks[n]))
    BY <1>1, <1>7, <2>1, TakeBlockTells
  <2> QED
    BY <1>2, <1>4, <1>5, <2>1, <2>2
<1>8. N \in S
  <2> HIDE DEF S
  <2>1. \A n \in 0..N : n \in S
    BY <1>1, <1>6, <1>7, OneAfterTheOther
  <2> QED
    BY <1>1, <2>1
<1>9. f[N] \in Chunked /\ Told(f[N], h[N])
  BY <1>1, <1>8
<1>10. Tells(CloseChild(f[N]).children, h[N])
  BY <1>9, CloseChildTells DEF Told
<1> QED
  BY <1>2, <1>5, <1>10 DEF TextOfAll, t, Texts, blocks

-----------------------------------------------------------------------------
(* One place for every block *)

Distinct(s) == \A k, l \in DOMAIN s : s[k] = s[l] => k = l

\* The sequences have no member twice and none in common, and S is what they hold.
Once(ss, S) ==
  /\ \A g \in DOMAIN ss : Distinct(ss[g])
  /\ \A g, h \in DOMAIN ss : \A b : b \in ToSet(ss[g]) /\ b \in ToSet(ss[h]) => g = h
  /\ \A b : b \in S <=> \E g \in DOMAIN ss : b \in ToSet(ss[g])

LEMMA AppendHolds ==
  ASSUME NEW T, NEW s \in Seq(T), NEW x \in T
  PROVE  /\ ToSet(Append(s, x)) = ToSet(s) \union {x}
         /\ Distinct(s) /\ x \notin ToSet(s) => Distinct(Append(s, x))
<1> DEFINE u == Append(s, x)
<1>1. /\ DOMAIN s = 1..Len(s) /\ Len(s) \in Nat /\ DOMAIN u = 1..Len(s) + 1 /\ u[Len(s) + 1] = x
      /\ \A i \in 1..Len(s) : u[i] = s[i]
  OBVIOUS
<1> HIDE DEF u
<1>2. /\ \A i \in 1..Len(s) + 1 : i = Len(s) + 1 \/ i \in 1..Len(s)
      /\ Len(s) + 1 \in 1..Len(s) + 1 /\ \A i \in 1..Len(s) : i \in 1..Len(s) + 1
  BY <1>1
<1>3. ToSet(u) = ToSet(s) \union {x}
  BY <1>1, <1>2 DEF ToSet
<1>4. ASSUME Distinct(s), x \notin ToSet(s) PROVE Distinct(u)
  <2>1. \A i \in 1..Len(s) : s[i] # x
    BY <1>1, <1>4 DEF ToSet
  <2> QED
    BY <1>1, <1>2, <1>4, <2>1 DEF Distinct
<1> QED
  BY <1>3, <1>4 DEF u

\* One more goes to one of the sequences.
LEMMA OncePut ==
  ASSUME NEW T, NEW ss, NEW S, Once(ss, S), NEW g \in DOMAIN ss, ss[g] \in Seq(T), NEW x \in T, x \notin S,
         NEW tt, DOMAIN tt = DOMAIN ss, tt[g] = Append(ss[g], x), \A i \in DOMAIN ss : i # g => tt[i] = ss[i]
  PROVE  Once(tt, S \union {x})
<1>1. x \notin ToSet(ss[g]) /\ Distinct(ss[g])
  BY DEF Once
<1>2. ToSet(tt[g]) = ToSet(ss[g]) \union {x} /\ Distinct(tt[g])
  BY <1>1, AppendHolds
<1>3. \A i \in DOMAIN tt : Distinct(tt[i])
  BY <1>2 DEF Once
<1>4. \A i \in DOMAIN ss : \A b : b \in ToSet(tt[i]) <=> b \in ToSet(ss[i]) \/ (i = g /\ b = x)
  BY <1>2
<1>5. \A i, j \in DOMAIN tt : \A b : b \in ToSet(tt[i]) /\ b \in ToSet(tt[j]) => i = j
  BY <1>4 DEF Once
<1>6. \A b : b \in S \union {x} <=> \E i \in DOMAIN tt : b \in ToSet(tt[i])
  BY <1>4 DEF Once
<1> QED
  BY <1>3, <1>5, <1>6 DEF Once

\* Or makes a sequence more, which has none in common with the others.
LEMMA OnceNew ==
  ASSUME NEW ss, NEW S, Once(ss, S), NEW n, n \notin DOMAIN ss, NEW s, Distinct(s), S \intersect ToSet(s) = {},
         NEW tt, DOMAIN tt = DOMAIN ss \union {n}, tt[n] = s, \A i \in DOMAIN ss : tt[i] = ss[i]
  PROVE  Once(tt, S \union ToSet(s))
<1>1. \A i \in DOMAIN tt : Distinct(tt[i])
  BY DEF Once
<1>2. \A i \in DOMAIN ss : \A b : b \in ToSet(tt[i]) <=> b \in ToSet(ss[i])
  OBVIOUS
<1>3. \A b : b \in ToSet(tt[n]) <=> b \in ToSet(s)
  OBVIOUS
<1>4. \A i \in DOMAIN ss : \A b : b \in ToSet(ss[i]) => b \notin ToSet(s)
  BY DEF Once
<1>5. \A i, j \in DOMAIN tt : \A b : b \in ToSet(tt[i]) /\ b \in ToSet(tt[j]) => i = j
  BY <1>2, <1>3, <1>4 DEF Once
<1>6. \A b : b \in S \union ToSet(s) <=> \E i \in DOMAIN tt : b \in ToSet(tt[i])
  BY <1>2, <1>3 DEF Once
<1> QED
  BY <1>1, <1>5, <1>6 DEF Once

LEMMA OnceNothing == Once(<<>>, {})
<1>1. DOMAIN <<>> = {}
  OBVIOUS
<1> QED
  BY <1>1 DEF Once

\* The blocks of nodes, or of parents.
BlocksOf(nodes) == [i \in DOMAIN nodes |-> nodes[i].blocks]

LEMMA OnceNodeMore ==
  ASSUME NEW R, NEW nodes \in Seq(R), NEW node \in R, NEW S, Once(BlocksOf(nodes), S),
         Distinct(node.blocks), S \intersect ToSet(node.blocks) = {}
  PROVE  Once(BlocksOf(Append(nodes, node)), S \union ToSet(node.blocks))
<1> DEFINE more == Append(nodes, node)
           ss == BlocksOf(nodes)
           tt == BlocksOf(more)
           n == Len(nodes) + 1
<1>1. /\ DOMAIN nodes = 1..Len(nodes) /\ Len(nodes) \in Nat /\ DOMAIN more = 1..Len(nodes) + 1
      /\ more[Len(nodes) + 1] = node /\ \A i \in 1..Len(nodes) : more[i] = nodes[i]
  OBVIOUS
<1> HIDE DEF more
<1>2. n \notin 1..Len(nodes) /\ 1..Len(nodes) + 1 = (1..Len(nodes)) \union {n}
  BY <1>1
<1>3. DOMAIN ss = 1..Len(nodes) /\ DOMAIN tt = 1..Len(nodes) + 1
  BY <1>1 DEF BlocksOf
<1>4. tt[n] = node.blocks /\ \A i \in 1..Len(nodes) : tt[i] = ss[i]
  BY <1>1, <1>2 DEF BlocksOf
<1> HIDE DEF ss, tt, n
<1>5. Once(tt, S \union ToSet(node.blocks))
  BY <1>2, <1>3, <1>4, OnceNew DEF ss
<1> QED
  BY <1>5 DEF tt, more

LEMMA OnceJoin ==
  ASSUME NEW R, NEW p \in Seq(R), NEW q \in Seq(R), NEW S, Once(BlocksOf(p), S), NEW T, Once(BlocksOf(q), T),
         S \intersect T = {}
  PROVE  Once(BlocksOf(p \o q), S \union T)
<1> DEFINE u == p \o q
           ss == BlocksOf(p)
           tt == BlocksOf(q)
           uu == BlocksOf(u)
           m == Len(p)
           n == Len(q)
<1>1. DOMAIN p = 1..m /\ DOMAIN q = 1..n /\ m \in Nat /\ n \in Nat /\ DOMAIN u = 1..m + n
  OBVIOUS
<1>2. \A i \in 1..m + n : u[i] = IF i <= m THEN p[i] ELSE q[i - m]
  OBVIOUS
<1> HIDE DEF u, m, n
<1>3. DOMAIN ss = 1..m /\ DOMAIN tt = 1..n /\ DOMAIN uu = 1..m + n
  BY <1>1 DEF BlocksOf
<1>4. \A i \in 1..m : uu[i] = ss[i] /\ i \in 1..m + n
  BY <1>1, <1>2 DEF BlocksOf
<1>5. \A i \in 1..n : uu[i + m] = tt[i] /\ i + m \in 1..m + n
  <2> TAKE i \in 1..n
  <2> DEFINE k == i + m
  <2>1. k \in 1..m + n /\ ~ (k <= m) /\ k - m = i
    BY <1>1
  <2> HIDE DEF k
  <2>2. u[k] = q[i]
    BY <1>2, <2>1
  <2>3. uu[k] = tt[i]
    BY <1>1, <2>1, <2>2 DEF BlocksOf
  <2> QED
    BY <2>1, <2>3 DEF k
<1>6. \A i \in 1..m + n : i \in 1..m \/ \E j \in 1..n : i = j + m
  <2> TAKE i \in 1..m + n
  <2>1. CASE i <= m
    BY <1>1, <2>1
  <2>2. CASE ~ (i <= m)
    <3>1. i - m \in 1..n /\ i = (i - m) + m
      BY <1>1, <2>2
    <3> QED
      BY <3>1
  <2> QED
    BY <2>1, <2>2
<1> HIDE DEF ss, tt, uu
<1>7. Once(ss, S) /\ Once(tt, T)
  BY DEF ss, tt
<1>8. \A i \in 1..m + n : Distinct(uu[i])
  BY <1>3, <1>4, <1>5, <1>6, <1>7 DEF Once
<1>9. \A i \in 1..m : \A b \in ToSet(uu[i]) : b \in S /\ b \notin T
  BY <1>3, <1>4, <1>7 DEF Once
<1>10. \A i \in 1..n : \A b \in ToSet(uu[i + m]) : b \in T /\ b \notin S
  BY <1>3, <1>5, <1>7 DEF Once
<1>11. \A i, j \in 1..m + n : \A b : b \in ToSet(uu[i]) /\ b \in ToSet(uu[j]) => i = j
  <2> SUFFICES ASSUME NEW i \in 1..m + n, NEW j \in 1..m + n, NEW b, b \in ToSet(uu[i]), b \in ToSet(uu[j])
               PROVE  i = j
    OBVIOUS
  <2>1. CASE i \in 1..m /\ j \in 1..m
    BY <1>3, <1>4, <1>7, <2>1 DEF Once
  <2>2. CASE (\E k \in 1..n : i = k + m) /\ (\E k \in 1..n : j = k + m)
    BY <1>3, <1>5, <1>7, <2>2 DEF Once
  <2>3. CASE (i \in 1..m /\ \E k \in 1..n : j = k + m) \/ (j \in 1..m /\ \E k \in 1..n : i = k + m)
    BY <1>9, <1>10, <2>3
  <2> QED
    BY <1>6, <2>1, <2>2, <2>3
<1>12. \A b : b \in S \union T <=> \E i \in 1..m + n : b \in ToSet(uu[i])
  <2> TAKE b
  <2>1. ASSUME b \in S PROVE \E i \in 1..m + n : b \in ToSet(uu[i])
    BY <1>3, <1>4, <1>7, <2>1 DEF Once
  <2>2. ASSUME b \in T PROVE \E i \in 1..m + n : b \in ToSet(uu[i])
    <3>1. PICK j \in 1..n : b \in ToSet(tt[j])
      BY <1>3, <1>7, <2>2 DEF Once
    <3> QED
      BY <1>5, <3>1
  <2>3. ASSUME NEW i \in 1..m + n, b \in ToSet(uu[i]) PROVE b \in S \union T
    BY <1>6, <1>9, <1>10, <2>3
  <2> QED
    BY <2>1, <2>2, <2>3
<1>13. Once(uu, S \union T)
  BY <1>3, <1>8, <1>11, <1>12 DEF Once
<1> QED
  BY <1>13 DEF uu, u

\* Who holds a block.
LEMMA OneHolds ==
  ASSUME NEW nodes, NEW S, Once(BlocksOf(nodes), S), NEW b
  PROVE  Cardinality({p \in DOMAIN nodes : b \in ToSet(nodes[p].blocks)}) = IF b \in S THEN 1 ELSE 0
<1> DEFINE H == {p \in DOMAIN nodes : b \in ToSet(nodes[p].blocks)}
<1>1. /\ \A p, q \in H : p = q
      /\ b \in S <=> \E p \in H : TRUE
  BY DEF Once, BlocksOf
<1> HIDE DEF H
<1>2. CASE b \in S
  <2>1. PICK p \in H : TRUE
    BY <1>1, <1>2
  <2>2. H = {p}
    BY <1>1, <2>1
  <2> QED
    BY <1>2, <2>2, FS_Singleton DEF H
<1>3. CASE b \notin S
  <2>1. H = {}
    BY <1>1, <1>3
  <2> QED
    BY <1>3, <2>1, FS_EmptySet DEF H
<1> QED
  BY <1>2, <1>3

-----------------------------------------------------------------------------
(* One parent for every block *)

LEMMA OneHoldsItself ==
  ASSUME NEW b
  PROVE  ToSet(<<b>>) = {b} /\ Distinct(<<b>>)
<1>1. DOMAIN <<b>> = 1..1 /\ <<b>>[1] = b
  OBVIOUS
<1>2. ToSet(<<b>>) = {b}
  BY <1>1 DEF ToSet
<1>3. \A k, l \in 1..1 : k = l
  OBVIOUS
<1> QED
  BY <1>1, <1>2, <1>3 DEF Distinct

LEMMA IntoGroupOnce ==
  ASSUME NEW groups \in Seq(Group), NEW b \in Block, NEW S, Once(groups, S), b \notin S
  PROVE  Once(IntoGroup(groups, b), S \union {b})
<1> DEFINE more == IntoGroup(groups, b)
<1>1. DOMAIN groups = 1..Len(groups) /\ Len(groups) \in Nat /\ \A i \in DOMAIN groups : groups[i] \in Seq(Block)
  BY DEF Group
<1>2. CASE groups = <<>> \/ TokensIn(Last(groups)) + b.tokens > parent_max_tokens
  <2> DEFINE n == Len(groups) + 1
  <2>1. more = Append(groups, <<b>>)
    BY <1>2 DEF IntoGroup
  <2>2. DOMAIN more = 1..Len(groups) + 1 /\ more[n] = <<b>> /\ \A i \in 1..Len(groups) : more[i] = groups[i]
    BY <2>1
  <2>3. n \notin 1..Len(groups) /\ 1..Len(groups) + 1 = (1..Len(groups)) \union {n}
    BY <1>1
  <2>4. ToSet(<<b>>) = {b} /\ Distinct(<<b>>)
    BY OneHoldsItself
  <2> HIDE DEF more, n
  <2>5. S \intersect ToSet(<<b>>) = {}
    BY <2>4
  <2>6. Once(more, S \union ToSet(<<b>>))
    BY <1>1, <2>2, <2>3, <2>4, <2>5, OnceNew
  <2> QED
    BY <2>4, <2>6 DEF more
<1>3. CASE groups # <<>> /\ ~ (TokensIn(Last(groups)) + b.tokens > parent_max_tokens)
  <2> DEFINE g == Len(groups)
  <2>1. g \in DOMAIN groups
    BY <1>1, <1>3
  <2>2. more = [groups EXCEPT ![g] = Append(groups[g], b)]
    BY <1>3 DEF IntoGroup, Last
  <2>3. DOMAIN more = DOMAIN groups /\ more[g] = Append(groups[g], b) /\ \A i \in DOMAIN groups : i # g => more[i] = groups[i]
    BY <2>1, <2>2
  <2>5. groups[g] \in Seq(Block)
    BY <1>1, <2>1
  <2> HIDE DEF more, g
  <2>4. Once(more, S \union {b})
    BY <2>1, <2>3, <2>5, OncePut
  <2> QED
    BY <2>4 DEF more
<1> QED
  BY <1>2, <1>3

\* The groups of blocks divide them.
LEMMA GroupsOnce ==
  ASSUME NEW blocks \in Seq(Block), Distinct(blocks)
  PROVE  Once(split_groups(blocks), ToSet(blocks))
<1> DEFINE N == Len(blocks)
           UpTo(n) == {blocks[i] : i \in 1..n}
<1>1. N \in Nat /\ DOMAIN blocks = 1..N /\ \A n \in 1..N : blocks[n] \in Block
  OBVIOUS
<1>2. PICK f \in [0..N -> Seq(Group)] :
        /\ f[0] = <<>> /\ \A n \in 1..N : f[n] = IntoGroup(f[n - 1], blocks[n])
        /\ split_groups(blocks) = f[N]
  BY GroupsRun
<1> HIDE DEF N
<1> DEFINE S == {n \in 0..N : Once(f[n], UpTo(n))}
<1>3. 0 \in S
  <2>1. UpTo(0) = {}
    OBVIOUS
  <2> HIDE DEF UpTo
  <2>2. Once(f[0], UpTo(0))
    BY <1>2, <2>1, OnceNothing
  <2> QED
    BY <1>1, <2>2
<1>4. ASSUME NEW n \in 1..N, n - 1 \in S PROVE n \in S
  <2>1. n - 1 \in 0..N /\ n \in 0..N /\ f[n - 1] \in Seq(Group) /\ blocks[n] \in Block
    BY <1>1
  <2>2. blocks[n] \notin UpTo(n - 1)
    <3>1. \A i \in 1..n - 1 : i \in 1..N /\ i # n
      BY <1>1
    <3> QED
      BY <1>1, <3>1 DEF Distinct
  <2>3. UpTo(n) = UpTo(n - 1) \union {blocks[n]}
    <3>1. 1..n = 1..n - 1 \union {n}
      BY <1>1
    <3> QED
      BY <3>1
  <2> HIDE DEF UpTo
  <2>4. Once(f[n - 1], UpTo(n - 1))
    BY <1>4
  <2>5. Once(IntoGroup(f[n - 1], blocks[n]), UpTo(n - 1) \union {blocks[n]})
    BY <2>1, <2>2, <2>4, IntoGroupOnce
  <2> QED
    BY <1>2, <2>1, <2>3, <2>5
<1>5. N \in S
  <2> HIDE DEF S
  <2>1. \A n \in 0..N : n \in S
    BY <1>1, <1>3, <1>4, OneAfterTheOther
  <2> QED
    BY <1>1, <2>1
<1>6. UpTo(N) = ToSet(blocks)
  BY <1>1 DEF ToSet
<1> QED
  BY <1>2, <1>5, <1>6

\* The units are nodes, and hold what the nodes hold.
LEMMA UnitsOnce ==
  ASSUME NEW tree \in Seq(TreeNode), NEW S, Once(BlocksOf(tree), S)
  PROVE  /\ Once(BlocksOf(walk_units(tree)), S)
         /\ \A u \in DOMAIN walk_units(tree) : \E n \in DOMAIN tree : walk_units(tree)[u] = tree[n]
<1> DEFINE N == Len(tree)
           UpTo(n) == UNION {ToSet(tree[i].blocks) : i \in 1..n}
<1>1. N \in Nat /\ DOMAIN tree = 1..N /\ \A n \in 1..N : tree[n] \in TreeNode
  OBVIOUS
<1>2. PICK f \in [0..N -> Seq(TreeNode)] :
        /\ f[0] = <<>>
        /\ \A n \in 1..N : f[n] = IF tree[n].blocks = <<>> THEN f[n - 1] ELSE Append(f[n - 1], tree[n])
        /\ walk_units(tree) = f[N]
  BY UnitsRun
<1> HIDE DEF N
<1>3. /\ \A n \in 1..N : Distinct(tree[n].blocks)
      /\ \A m, n \in 1..N : \A b : b \in ToSet(tree[m].blocks) /\ b \in ToSet(tree[n].blocks) => m = n
      /\ \A b : b \in S <=> \E n \in 1..N : b \in ToSet(tree[n].blocks)
  <2>1. DOMAIN BlocksOf(tree) = 1..N /\ \A n \in 1..N : BlocksOf(tree)[n] = tree[n].blocks
    BY <1>1 DEF BlocksOf
  <2> QED
    BY <2>1 DEF Once
<1> DEFINE Is(n) == /\ Once(BlocksOf(f[n]), UpTo(n))
                    /\ \A u \in DOMAIN f[n] : \E m \in 1..N : f[n][u] = tree[m]
           P == {n \in 0..N : Is(n)}
<1>4. 0 \in P
  <2>1. UpTo(0) = {} /\ BlocksOf(<<>>) = <<>> /\ DOMAIN <<>> = {}
    BY DEF BlocksOf
  <2>2. Is(0)
    BY <1>2, <2>1, OnceNothing
  <2> QED
    BY <1>1, <2>2
<1>5. ASSUME NEW n \in 1..N, n - 1 \in P PROVE n \in P
  <2>1. n - 1 \in 0..N /\ n \in 0..N /\ f[n - 1] \in Seq(TreeNode) /\ tree[n] \in TreeNode
    BY <1>1
  <2>2. UpTo(n) = UpTo(n - 1) \union ToSet(tree[n].blocks)
    <3>1. 1..n = 1..n - 1 \union {n}
      BY <1>1
    <3> QED
      BY <3>1
  <2>3. UpTo(n - 1) \intersect ToSet(tree[n].blocks) = {}
    <3>1. \A i \in 1..n - 1 : i \in 1..N /\ i # n
      BY <1>1
    <3>2. \A b \in UpTo(n - 1) : \E i \in 1..n - 1 : b \in ToSet(tree[i].blocks)
      OBVIOUS
    <3> HIDE DEF UpTo
    <3>3. SUFFICES ASSUME NEW b \in UpTo(n - 1), b \in ToSet(tree[n].blocks) PROVE FALSE
      OBVIOUS
    <3>4. PICK i \in 1..n - 1 : b \in ToSet(tree[i].blocks)
      BY <3>2
    <3>5. i = n
      BY <1>3, <3>1, <3>3, <3>4
    <3> QED
      BY <3>1, <3>5
  <2> HIDE DEF UpTo
  <2>4. Once(BlocksOf(f[n - 1]), UpTo(n - 1)) /\ \A u \in DOMAIN f[n - 1] : \E m \in 1..N : f[n - 1][u] = tree[m]
    BY <1>5
  <2>5. CASE tree[n].blocks = <<>>
    <3>1. ToSet(tree[n].blocks) = {}
      BY <2>5 DEF ToSet
    <3>2. UpTo(n) = UpTo(n - 1) /\ f[n] = f[n - 1]
      BY <1>2, <2>2, <2>5, <3>1
    <3> QED
      BY <2>1, <2>4, <3>2
  <2>6. CASE tree[n].blocks # <<>>
    <3>1. f[n] = Append(f[n - 1], tree[n])
      BY <1>2, <2>6
    <3>2. Once(BlocksOf(Append(f[n - 1], tree[n])), UpTo(n - 1) \union ToSet(tree[n].blocks))
      BY <1>3, <2>1, <2>3, <2>4, OnceNodeMore
    <3>3. \A u \in DOMAIN f[n] : \E m \in 1..N : f[n][u] = tree[m]
      <4> DEFINE old == f[n - 1]
                 node == tree[n]
      <4>1. old \in Seq(TreeNode) /\ node \in TreeNode /\ f[n] = Append(old, node)
        BY <2>1, <3>1
      <4> HIDE DEF old, node
      <4>2. DOMAIN f[n] = 1..Len(old) + 1 /\ Len(old) \in Nat /\ DOMAIN old = 1..Len(old)
            /\ f[n][Len(old) + 1] = node /\ \A i \in 1..Len(old) : f[n][i] = old[i]
        BY <4>1
      <4>3. \A u \in 1..Len(old) + 1 : u = Len(old) + 1 \/ u \in 1..Len(old)
        BY <4>2
      <4> QED
        BY <2>4, <4>2, <4>3 DEF old, node
    <3> QED
      BY <2>1, <2>2, <3>1, <3>2, <3>3
  <2> QED
    BY <2>5, <2>6
<1>6. N \in P
  <2> HIDE DEF P
  <2>1. \A n \in 0..N : n \in P
    BY <1>1, <1>4, <1>5, OneAfterTheOther
  <2> QED
    BY <1>1, <2>1
<1>7. UpTo(N) = S
  BY <1>3
<1> QED
  BY <1>1, <1>2, <1>6, <1>7

\* What a parent takes from the node it is made of.
MadeOf(parent, unit) ==
  /\ parent.structure_path = unit.structure_path /\ parent.page_from = unit.page_from /\ parent.page_to = unit.page_to
  /\ ToSet(parent.blocks) \subseteq ToSet(unit.blocks)

GroupsOf(unit) == IF unit.kind = "ATOMIC_GROUP" \/ TokensIn(unit.blocks) <= parent_max_tokens
                  THEN <<unit.blocks>> ELSE split_groups(unit.blocks)
ParentsOf(unit) == [g \in DOMAIN GroupsOf(unit) |-> make_parent(unit, GroupsOf(unit)[g])]

\* The parents of a node divide its blocks.
LEMMA ParentsOfNode ==
  ASSUME NEW unit \in TreeNode, Distinct(unit.blocks)
  PROVE  /\ ParentsOf(unit) \in Seq(Parent)
         /\ Once(BlocksOf(ParentsOf(unit)), ToSet(unit.blocks))
         /\ \A p \in DOMAIN ParentsOf(unit) : MadeOf(ParentsOf(unit)[p], unit)
<1> DEFINE groups == GroupsOf(unit)
           parents == ParentsOf(unit)
<1>1. unit.blocks \in Seq(Block) /\ (unit.kind = "ATOMIC_GROUP" => unit.blocks \in Seq(AtomicBlock))
  BY NodeFields
<1>2. /\ DOMAIN groups = 1..Len(groups) /\ Len(groups) \in Nat
      /\ \A g \in DOMAIN groups :
           /\ groups[g] \in Seq(Block)
           /\ TokensIn(groups[g]) <= parent_max_tokens \/ Len(groups[g]) = 1 \/ groups[g] \in Seq(AtomicBlock)
      /\ Once(groups, ToSet(unit.blocks)) /\ groups \in Seq(Seq(Block))
  <2>1. CASE unit.kind = "ATOMIC_GROUP" \/ TokensIn(unit.blocks) <= parent_max_tokens
    <3>1. groups = <<unit.blocks>>
      BY <2>1 DEF GroupsOf
    <3>2. DOMAIN <<unit.blocks>> = 1..1 /\ <<unit.blocks>>[1] = unit.blocks /\ Len(<<unit.blocks>>) = 1
      OBVIOUS
    <3>3. \A g \in 1..1 : g = 1
      OBVIOUS
    <3>4. Once(<<unit.blocks>>, ToSet(unit.blocks))
      BY <3>2, <3>3 DEF Once
    <3>5. <<unit.blocks>> \in Seq(Seq(Block))
      BY <1>1
    <3> HIDE DEF groups
    <3> QED
      BY <1>1, <2>1, <3>1, <3>2, <3>3, <3>4, <3>5
  <2>2. CASE ~ (unit.kind = "ATOMIC_GROUP" \/ TokensIn(unit.blocks) <= parent_max_tokens)
    <3>1. groups = split_groups(unit.blocks)
      BY <2>2 DEF GroupsOf
    <3> HIDE DEF groups
    <3>2. groups \in Seq(Group) /\ Once(groups, ToSet(unit.blocks))
      BY <1>1, <3>1, GroupsTyped, GroupsOnce
    <3>3. \A g \in DOMAIN groups : groups[g] \in Group
      BY <3>2
    <3>4. Len(groups) \in Nat /\ DOMAIN groups = 1..Len(groups) /\ groups \in [1..Len(groups) -> Group]
      BY <3>2
    <3>5. groups \in [1..Len(groups) -> Seq(Block)]
      BY <3>4 DEF Group
    <3>6. groups \in Seq(Seq(Block))
      BY <3>4, <3>5
    <3> QED
      BY <3>2, <3>3, <3>4, <3>6 DEF Group
  <2> QED
    BY <2>1, <2>2
<1>3. parents = [g \in DOMAIN groups |-> make_parent(unit, groups[g])]
  BY DEF ParentsOf
<1> HIDE DEF groups, parents
<1>4. \A g \in DOMAIN groups : make_parent(unit, groups[g]) \in Parent
  BY <1>2, ParentTyped
<1>5. parents \in Seq(Parent)
  <2>1. DOMAIN groups = 1..Len(groups) /\ Len(groups) \in Nat
    BY <1>2
  <2>2. parents \in [1..Len(groups) -> Parent]
    BY <1>3, <1>4, <2>1
  <2> QED
    BY <2>1, <2>2
<1>6. BlocksOf(parents) = groups
  <2>1. \A g \in DOMAIN groups : parents[g].blocks = groups[g]
    BY <1>3 DEF make_parent
  <2>2. DOMAIN parents = DOMAIN groups /\ groups = [g \in DOMAIN groups |-> groups[g]]
    <3> QED
      BY <1>2, <1>3
  <2> QED
    BY <2>1, <2>2 DEF BlocksOf
<1>7. \A g \in DOMAIN groups : ToSet(groups[g]) \subseteq ToSet(unit.blocks)
  BY <1>2 DEF Once
<1>8. \A p \in DOMAIN parents : MadeOf(parents[p], unit)
  BY <1>3, <1>7 DEF make_parent, MadeOf
<1> QED
  BY <1>2, <1>5, <1>6, <1>8 DEF parents

LEMMA ParentsOnce ==
  ASSUME NEW tree \in Seq(TreeNode), NEW S, Once(BlocksOf(tree), S)
  PROVE  /\ Once(BlocksOf(create_parent_chunks(tree)), S)
         /\ \A p \in DOMAIN create_parent_chunks(tree) :
              \E n \in DOMAIN tree : MadeOf(create_parent_chunks(tree)[p], tree[n])
<1> DEFINE units == walk_units(tree)
           N == Len(units)
           t == [u \in DOMAIN units |-> ParentsOf(units[u])]
           parents == create_parent_chunks(tree)
           UpTo(n) == UNION {ToSet(units[i].blocks) : i \in 1..n}
<1>1. /\ units \in Seq(TreeNode) /\ Once(BlocksOf(units), S)
      /\ \A u \in DOMAIN units : \E n \in DOMAIN tree : units[u] = tree[n]
  BY UnitsTyped, UnitsOnce
<1>2. parents = FlattenSeq(t)
  BY DEF create_parent_chunks, ParentsOf, GroupsOf
<1> HIDE DEF units, parents
<1>3. N \in Nat /\ DOMAIN units = 1..N /\ \A u \in 1..N : units[u] \in TreeNode
  BY <1>1
<1>4. /\ \A n \in 1..N : Distinct(units[n].blocks)
      /\ \A m, n \in 1..N : \A b : b \in ToSet(units[m].blocks) /\ b \in ToSet(units[n].blocks) => m = n
      /\ \A b : b \in S <=> \E n \in 1..N : b \in ToSet(units[n].blocks)
  <2>1. DOMAIN BlocksOf(units) = 1..N /\ \A n \in 1..N : BlocksOf(units)[n] = units[n].blocks
    BY <1>3 DEF BlocksOf
  <2> QED
    BY <1>1, <2>1 DEF Once
<1> HIDE DEF N
<1>5. \A u \in 1..N : /\ ParentsOf(units[u]) \in Seq(Parent)
                      /\ Once(BlocksOf(ParentsOf(units[u])), ToSet(units[u].blocks))
                      /\ \A p \in DOMAIN ParentsOf(units[u]) : MadeOf(ParentsOf(units[u])[p], units[u])
  BY <1>3, <1>4, ParentsOfNode
<1>6. DOMAIN t = 1..N /\ \A u \in 1..N : t[u] = ParentsOf(units[u]) /\ t[u] \in Seq(Parent)
  BY <1>3, <1>5
<1>7. t \in Seq(Seq(Parent)) /\ Len(t) = N
  <2>1. t \in [1..N -> Seq(Parent)]
    BY <1>3, <1>6
  <2> HIDE DEF t
  <2> QED
    BY <1>3, <2>1
<1> HIDE DEF t
<1>8. PICK h \in [0..N -> Seq(Parent)] :
        h[0] = <<>> /\ (\A n \in 1..N : h[n] = h[n - 1] \o t[n]) /\ FlattenSeq(t) = h[N]
  BY <1>7, FlattenRun
<1> DEFINE P == {n \in 0..N : Once(BlocksOf(h[n]), UpTo(n))}
<1>9. 0 \in P
  <2>1. UpTo(0) = {} /\ BlocksOf(<<>>) = <<>>
    BY DEF BlocksOf
  <2> HIDE DEF UpTo
  <2>2. Once(BlocksOf(h[0]), UpTo(0))
    BY <1>8, <2>1, OnceNothing
  <2> QED
    BY <1>3, <2>2
<1>10. ASSUME NEW n \in 1..N, n - 1 \in P PROVE n \in P
  <2>1. n - 1 \in 0..N /\ n \in 0..N /\ h[n - 1] \in Seq(Parent) /\ t[n] \in Seq(Parent)
    BY <1>3, <1>6
  <2>2. UpTo(n) = UpTo(n - 1) \union ToSet(units[n].blocks)
    <3>1. 1..n = 1..n - 1 \union {n}
      BY <1>3
    <3> QED
      BY <3>1
  <2>3. UpTo(n - 1) \intersect ToSet(units[n].blocks) = {}
    <3>1. \A i \in 1..n - 1 : i \in 1..N /\ i # n
      BY <1>3
    <3>2. \A b \in UpTo(n - 1) : \E i \in 1..n - 1 : b \in ToSet(units[i].blocks)
      OBVIOUS
    <3> HIDE DEF UpTo
    <3>3. SUFFICES ASSUME NEW b \in UpTo(n - 1), b \in ToSet(units[n].blocks) PROVE FALSE
      OBVIOUS
    <3>4. PICK i \in 1..n - 1 : b \in ToSet(units[i].blocks)
      BY <3>2
    <3>5. i = n
      BY <1>4, <3>1, <3>3, <3>4
    <3> QED
      BY <3>1, <3>5
  <2> HIDE DEF UpTo
  <2>4. Once(BlocksOf(h[n - 1]), UpTo(n - 1)) /\ Once(BlocksOf(t[n]), ToSet(units[n].blocks))
    BY <1>5, <1>6, <1>10
  <2>5. Once(BlocksOf(h[n - 1] \o t[n]), UpTo(n - 1) \union ToSet(units[n].blocks))
    BY <2>1, <2>3, <2>4, OnceJoin
  <2> QED
    BY <1>8, <2>1, <2>2, <2>5
<1>11. N \in P
  <2> HIDE DEF P
  <2>1. \A n \in 0..N : n \in P
    BY <1>3, <1>9, <1>10, OneAfterTheOther
  <2> QED
    BY <1>3, <2>1
<1>12. UpTo(N) = S
  BY <1>4
<1>13. ASSUME NEW p \in DOMAIN parents PROVE \E n \in DOMAIN tree : MadeOf(parents[p], tree[n])
  <2>1. parents[p] \in ToSet(FlattenSeq(t))
    BY <1>2, <1>13 DEF ToSet
  <2>2. ToSet(FlattenSeq(t)) = UNION {ToSet(t[n]) : n \in DOMAIN t}
    BY <1>7, FlattenHolds
  <2>3. PICK u \in DOMAIN t : parents[p] \in ToSet(t[u])
    BY <2>1, <2>2
  <2>4. u \in 1..N /\ t[u] = ParentsOf(units[u])
    BY <1>6
  <2>5. PICK q \in DOMAIN ParentsOf(units[u]) : parents[p] = ParentsOf(units[u])[q]
    BY <2>3, <2>4 DEF ToSet
  <2>6. MadeOf(parents[p], units[u])
    BY <1>5, <2>4, <2>5
  <2> QED
    BY <1>1, <1>3, <2>4, <2>6
<1> QED
  BY <1>2, <1>8, <1>11, <1>12, <1>13 DEF parents

-----------------------------------------------------------------------------
(* Where a block belongs *)

\* A document in the order it is read.
InOrder(ordered) ==
  /\ ordered \in Seq(Block) /\ Distinct(ordered)
  /\ \A m, n \in DOMAIN ordered : m < n => ordered[m].page <= ordered[n].page

LEMMA OrderedInOrder ==
  ASSUME NEW blocks \in Seq(Block), Distinct(blocks)
  PROVE  InOrder(Ordered(blocks)) /\ ToSet(Ordered(blocks)) = ToSet(blocks)
<1>1. PICK at \in [DOMAIN blocks -> DOMAIN blocks] :
           /\ Ordered(blocks) = [n \in DOMAIN blocks |-> blocks[at[n]]]
           /\ \A m, n \in DOMAIN blocks : at[m] = at[n] => m = n
           /\ \A i \in DOMAIN blocks : \E n \in DOMAIN blocks : at[n] = i
           /\ \A m, n \in DOMAIN blocks : m < n => blocks[at[m]].page <= blocks[at[n]].page
  BY OrderedBy
<1>2. Ordered(blocks) \in Seq(Block)
  BY OrderedTyped
<1> DEFINE S == DOMAIN blocks
           ordered == Ordered(blocks)
<1>3. /\ DOMAIN ordered = S /\ \A n \in S : ordered[n] = blocks[at[n]] /\ at[n] \in S
  BY <1>1
<1> HIDE DEF S, ordered
<1>4. Distinct(ordered)
  <2>1. SUFFICES ASSUME NEW m \in S, NEW n \in S, ordered[m] = ordered[n] PROVE m = n
    BY <1>3 DEF Distinct
  <2>2. at[m] \in S /\ at[n] \in S /\ blocks[at[m]] = blocks[at[n]]
    BY <1>3, <2>1
  <2>3. at[m] = at[n]
    BY <2>2 DEF Distinct, S
  <2> QED
    BY <1>1, <2>3 DEF S
<1>5. \A m, n \in DOMAIN ordered : m < n => ordered[m].page <= ordered[n].page
  BY <1>1, <1>3 DEF S
<1>6. ToSet(ordered) = ToSet(blocks)
  BY <1>1, <1>3 DEF ToSet, S
<1> QED
  BY <1>2, <1>4, <1>5, <1>6 DEF InOrder, ordered

\* The places of a sequence that goes up are found in one way.
LEMMA InPlace ==
  ASSUME NEW ordered, InOrder(ordered), NEW n \in DOMAIN ordered
  PROVE  (CHOOSE i \in DOMAIN ordered : ordered[i] = ordered[n]) = n
BY DEF InOrder, Distinct

LEMMA HeadingsAreHeadings ==
  ASSUME NEW ordered, InOrder(ordered), NEW n \in 0..Len(ordered)
  PROVE  /\ Len(ordered) \in Nat /\ DOMAIN ordered = 1..Len(ordered)
         /\ HeadingsOver(ordered, n + 1) \subseteq 1..n
         /\ \A i \in HeadingsOver(ordered, n + 1) : i \in DOMAIN ordered /\ ordered[i].block_type \in HeadingType
         /\ \A i, j \in HeadingsOver(ordered, n + 1) : i < j => ordered[i].level < ordered[j].level
         /\ \A i \in 1..Len(ordered) : ordered[i] \in Block /\ ordered[i].level \in Int
<1>1. Len(ordered) \in Nat /\ DOMAIN ordered = 1..Len(ordered) /\ \A i \in 1..Len(ordered) : ordered[i] \in Block
  BY DEF InOrder
<1>2. \A i \in 1..Len(ordered) : ordered[i].level \in Int
  BY <1>1, BlockFields
<1>3. (n + 1) - 1 = n /\ n \in Nat
  BY <1>1
<1>4. HeadingsOver(ordered, n + 1) \subseteq 1..n
  BY <1>3 DEF HeadingsOver
<1>5. \A i \in HeadingsOver(ordered, n + 1) : i \in DOMAIN ordered /\ ordered[i].block_type \in HeadingType
  BY <1>1, <1>3, <1>4 DEF HeadingsOver
<1>6. ASSUME NEW i \in HeadingsOver(ordered, n + 1), NEW j \in HeadingsOver(ordered, n + 1), i < j
      PROVE  ordered[i].level < ordered[j].level
  <2>1. i \in 1..n /\ j \in 1..n /\ j \in i + 1..n /\ ordered[j].block_type \in HeadingType
    BY <1>3, <1>4, <1>5, <1>6
  <2>2. ordered[j].level > ordered[i].level
    BY <1>3, <1>6, <2>1 DEF HeadingsOver
  <2>3. ordered[i].level \in Int /\ ordered[j].level \in Int
    BY <1>1, <1>2, <1>3, <2>1
  <2> QED
    BY <2>2, <2>3
<1> QED
  BY <1>1, <1>2, <1>4, <1>5, <1>6

\* What is no heading changes nothing.
LEMMA HeadingsStay ==
  ASSUME NEW ordered, InOrder(ordered), NEW n \in 1..Len(ordered), ordered[n].block_type \notin HeadingType
  PROVE  HeadingsOver(ordered, n + 1) = HeadingsOver(ordered, n)
<1>1. n \in Nat /\ (n + 1) - 1 = n /\ n - 1 \in Nat
  BY DEF InOrder
<1>2. \A i \in 1..n : i = n \/ i \in 1..n - 1
  BY <1>1
<1>3. \A i \in 1..n - 1 : i \in 1..n /\ i # n
  BY <1>1
<1>4. \A i \in 1..n : \A j \in i + 1..n : j = n \/ j \in i + 1..n - 1
  BY <1>1
<1>5. \A i \in 1..n : \A j \in i + 1..n - 1 : j \in i + 1..n
  BY <1>1
<1> QED
  BY <1>1, <1>2, <1>3, <1>4, <1>5 DEF HeadingsOver

\* A heading takes the place of those of its level or below.
LEMMA HeadingsChange ==
  ASSUME NEW ordered, InOrder(ordered), NEW n \in 1..Len(ordered), ordered[n].block_type \in HeadingType
  PROVE  HeadingsOver(ordered, n + 1)
         = {i \in HeadingsOver(ordered, n) : ordered[n].level > ordered[i].level} \union {n}
<1>1. n \in Nat /\ (n + 1) - 1 = n /\ n - 1 \in Nat
  BY DEF InOrder
<1>2. \A i \in 1..n : i = n \/ i \in 1..n - 1
  BY <1>1
<1>3. \A i \in 1..n - 1 : i \in 1..n /\ i # n /\ n \in i + 1..n
  BY <1>1
<1>4. \A i \in 1..n : \A j \in i + 1..n : j = n \/ j \in i + 1..n - 1
  BY <1>1
<1>5. \A i \in 1..n : \A j \in i + 1..n - 1 : j \in i + 1..n
  BY <1>1
<1>6. n \in HeadingsOver(ordered, n + 1)
  <2>1. n + 1..n = {} /\ n \in 1..n
    BY <1>1
  <2> QED
    BY <1>1, <2>1 DEF HeadingsOver
<1>7. \A i \in 1..n - 1 : i \in HeadingsOver(ordered, n + 1)
                          <=> i \in HeadingsOver(ordered, n) /\ ordered[n].level > ordered[i].level
  BY <1>1, <1>3, <1>4, <1>5 DEF HeadingsOver
<1>8. HeadingsOver(ordered, n + 1) \subseteq 1..n /\ HeadingsOver(ordered, n) \subseteq 1..n - 1
  BY <1>1 DEF HeadingsOver
<1> QED
  BY <1>2, <1>6, <1>7, <1>8

-----------------------------------------------------------------------------
(* What a step does to the tree *)

\* What a step leaves alone, when it is about the nodes.
SameButNodes(v, w) ==
  v.stack = w.stack /\ v.saw_heading = w.saw_heading /\ v.references = w.references

GroupNode(w) == Node("ATOMIC_GROUP", OpenPath(w), 0, w.atomic_buf, PagesOf(w.atomic_buf))

LEMMA FlushIs ==
  ASSUME NEW w \in TreeWork
  PROVE  /\ SameButNodes(flush_atomic(w), w) /\ flush_atomic(w).atomic_buf = <<>>
         /\ w.atomic_buf = <<>> => flush_atomic(w).nodes = w.nodes
         /\ w.atomic_buf # <<>> => /\ flush_atomic(w).nodes = Append(w.nodes, GroupNode(w))
                                   /\ GroupNode(w) \in TreeNode
<1>1. CASE w.atomic_buf = <<>>
  BY <1>1 DEF flush_atomic, SameButNodes
<1>2. CASE w.atomic_buf # <<>>
  <2> DEFINE node == GroupNode(w)
             nodes == Append(w.nodes, node)
  <2>1. flush_atomic(w) = [w EXCEPT !.nodes = nodes, !.atomic_buf = <<>>]
    BY <1>2 DEF flush_atomic, GroupNode
  <2>2. w.atomic_buf \in Seq(AtomicBlock) /\ w.atomic_buf \in Seq(Block)
    BY WorkFields, AtomicAreBlocks
  <2>3. node \in TreeNode
    <3>1. "ATOMIC_GROUP" = "ATOMIC_GROUP" => w.atomic_buf \in Seq(AtomicBlock)
      BY <2>2
    <3> QED
      BY <1>2, <2>2, <3>1, OpenPathTyped, PagesTyped, NodeTyped DEF GroupNode
  <2> HIDE DEF nodes
  <2>4. /\ flush_atomic(w).nodes = nodes /\ flush_atomic(w).atomic_buf = <<>>
        /\ SameButNodes(flush_atomic(w), w)
    BY <2>1 DEF TreeWork, SameButNodes
  <2> QED
    BY <1>2, <2>3, <2>4 DEF nodes
<1> QED
  BY <1>1, <1>2

\* The sections that stay open: all above the first that is of the level or below.
Left(w, level, left) ==
  /\ left \in 0..Len(w.stack)
  /\ \A m \in left + 1..Len(w.stack) : w.nodes[w.stack[m]].heading_level >= level
  /\ left # 0 => ~ (w.nodes[w.stack[left]].heading_level >= level)

HeadingNode(w, b, left) ==
  Node("SECTION", Append(OpenPath([w EXCEPT !.stack = SubSeq(w.stack, 1, left)]), b.title), b.level, <<>>, {b.page})

LEMMA PoppedIs ==
  ASSUME NEW w \in TreeWork, NEW level \in Int
  PROVE  \E left : Left(w, level, left) /\ Popped(w, level) = [w EXCEPT !.stack = SubSeq(w.stack, 1, left)]
<1> DEFINE Closes(n) == w.nodes[w.stack[n]].heading_level >= level
           few == {n \in 0..Len(w.stack) : \A m \in n + 1..Len(w.stack) : Closes(m)}
           left == Min(few)
<1>1. Len(w.stack) \in Nat
  BY WorkFields
<1>2. left \in few /\ \A n \in few : left <= n
  <2>1. Len(w.stack) \in few /\ few \subseteq 0..Len(w.stack)
    <3>1. Len(w.stack) + 1..Len(w.stack) = {}
      BY <1>1
    <3> QED
      BY <1>1, <3>1
  <2> HIDE DEF few
  <2>2. few \subseteq Nat /\ few # {}
    BY <2>1
  <2> QED
    BY <2>2, LeastExists
<1>3. Popped(w, level) = [w EXCEPT !.stack = SubSeq(w.stack, 1, left)]
  BY DEF Popped
<1> HIDE DEF left, Closes
<1>4. left # 0 => ~ Closes(left)
  <2>1. SUFFICES ASSUME left # 0, Closes(left) PROVE FALSE
    OBVIOUS
  <2>2. left - 1 \in 0..Len(w.stack) /\ \A m \in (left - 1) + 1..Len(w.stack) : m = left \/ m \in left + 1..Len(w.stack)
    BY <1>1, <1>2, <2>1
  <2>3. left - 1 \in few
    BY <1>2, <2>1, <2>2
  <2>4. left \in Nat
    BY <1>1, <1>2
  <2> HIDE DEF few
  <2>5. left <= left - 1
    BY <1>2, <2>3
  <2> QED
    BY <2>4, <2>5
<1>5. Left(w, level, left)
  BY <1>2, <1>4 DEF Left, Closes
<1> QED
  BY <1>3, <1>5

LEMMA OpenSectionIs ==
  ASSUME NEW w \in TreeWork, NEW b \in Block
  PROVE  \E left :
           /\ Left(w, b.level, left)
           /\ OpenSection(w, b).nodes = Append(w.nodes, HeadingNode(w, b, left))
           /\ HeadingNode(w, b, left) \in TreeNode
           /\ OpenSection(w, b).stack = Append(SubSeq(w.stack, 1, left), Len(w.nodes) + 1)
           /\ OpenSection(w, b).saw_heading = TRUE
           /\ OpenSection(w, b).atomic_buf = w.atomic_buf /\ OpenSection(w, b).references = w.references
<1>1. b.level \in Int /\ b.page \in Nat /\ b.title \in Nat
  BY BlockFields
<1>2. PICK left : Left(w, b.level, left) /\ Popped(w, b.level) = [w EXCEPT !.stack = SubSeq(w.stack, 1, left)]
  BY <1>1, PoppedIs
<1> DEFINE s == SubSeq(w.stack, 1, left)
           p == [w EXCEPT !.stack = s]
           node == HeadingNode(w, b, left)
           nodes == Append(w.nodes, node)
           stack == Append(s, Len(w.nodes) + 1)
<1>3. p.nodes = w.nodes /\ p.stack = s
  <2> HIDE DEF s
  <2> QED
    BY DEF TreeWork
<1>4. OpenSection(w, b) = [p EXCEPT !.nodes = nodes, !.stack = stack, !.saw_heading = TRUE]
  <2>1. OpenSection(w, b)
        = [p EXCEPT !.nodes = Append(p.nodes, node), !.stack = Append(p.stack, Len(p.nodes) + 1), !.saw_heading = TRUE]
    BY <1>2 DEF OpenSection, HeadingNode
  <2> HIDE DEF p, node, s
  <2> QED
    BY <1>3, <2>1
<1>5. node \in TreeNode
  <2>1. OpenPath(p) \in Seq(Label)
    <3> DEFINE q == [Popped(w, b.level) EXCEPT !.saw_heading = FALSE]
    <3>1. q \in TreeWork
      BY <1>1, ReopenedTyped
    <3>2. q.nodes = p.nodes /\ q.stack = p.stack
      <4> HIDE DEF s
      <4> QED
        BY <1>2 DEF TreeWork, s
    <3> HIDE DEF q, p
    <3>3. OpenPath(p) = OpenPath(q)
      BY <3>2 DEF OpenPath
    <3> QED
      BY <3>1, <3>3, OpenPathTyped
  <2>2. Append(OpenPath(p), b.title) \in Seq(Label)
    <3>1. b.title \in Label
      BY <1>1 DEF Label
    <3> HIDE DEF p
    <3> QED
      BY <2>1, <3>1
  <2>3. <<>> \in Seq(Block)
    OBVIOUS
  <2>4. Min({b.page}) \in Nat /\ Max({b.page}) \in Nat
    BY <1>1, OnePage
  <2> QED
    BY <1>1, <2>2, <2>3, <2>4, NodeTyped DEF HeadingNode
<1> HIDE DEF nodes, stack, s
<1>6. /\ OpenSection(w, b).nodes = nodes /\ OpenSection(w, b).stack = stack /\ OpenSection(w, b).saw_heading = TRUE
      /\ OpenSection(w, b).atomic_buf = w.atomic_buf /\ OpenSection(w, b).references = w.references
  BY <1>4 DEF TreeWork
<1> QED
  BY <1>2, <1>5, <1>6 DEF nodes, stack, s

\* A node with a block more.
Fuller(node, b) == [node EXCEPT !.blocks = Append(node.blocks, b), !.page_to = Max({node.page_to, b.page})]

LEMMA AddedIs ==
  ASSUME NEW w \in TreeWork, NEW n \in DOMAIN w.nodes, NEW b \in Block
  PROVE  /\ SameButNodes(Added(w, n, b), w) /\ Added(w, n, b).atomic_buf = w.atomic_buf
         /\ Added(w, n, b).nodes = [w.nodes EXCEPT ![n] = Fuller(w.nodes[n], b)]
<1> DEFINE node == Fuller(w.nodes[n], b)
           nodes == [w.nodes EXCEPT ![n] = node]
<1>1. w.nodes \in Seq(TreeNode) /\ w.nodes[n] \in TreeNode
  BY WorkFields
<1>2. Added(w, n, b) = [w EXCEPT !.nodes = nodes]
  BY <1>1 DEF Added, TreeWork, TreeNode, Fuller
<1> HIDE DEF nodes
<1>3. SameButNodes(Added(w, n, b), w) /\ Added(w, n, b).nodes = nodes /\ Added(w, n, b).atomic_buf = w.atomic_buf
  BY <1>2 DEF TreeWork, SameButNodes
<1> QED
  BY <1>3 DEF nodes

PageNode(b) == Node("VIRTUAL_SECTION", <<"virtual", b.page>>, 0, <<b>>, {b.page})

\* A block goes to the open section, or to that of its page.
LEMMA AddBodyIs ==
  ASSUME NEW w \in TreeWork, NEW b \in Block
  PROVE  \/ \E n \in DOMAIN w.nodes :
              /\ AddBody(w, b) = Added(w, n, b)
              /\ w.saw_heading => w.stack # <<>> /\ n = w.stack[Len(w.stack)] /\ w.nodes[n].kind = "SECTION"
              /\ ~w.saw_heading => w.nodes[n].kind = "VIRTUAL_SECTION" /\ w.nodes[n].page_from = b.page
         \/ /\ ~w.saw_heading /\ PageNode(b) \in TreeNode
            /\ SameButNodes(AddBody(w, b), w) /\ AddBody(w, b).atomic_buf = w.atomic_buf
            /\ AddBody(w, b).nodes = Append(w.nodes, PageNode(b))
<1>1. w.nodes \in Seq(TreeNode) /\ w.stack \in Seq(Nat) /\ OpenSections(w) /\ b.page \in Nat
  BY WorkFields, BlockFields
<1>2. CASE w.saw_heading
  <2>1. w.stack # <<>> /\ Len(w.stack) \in DOMAIN w.stack
    BY <1>1, <1>2 DEF OpenSections
  <2>2. Last(w.stack) = w.stack[Len(w.stack)] /\ Last(w.stack) \in DOMAIN w.nodes /\ w.nodes[Last(w.stack)].kind = "SECTION"
    BY <1>1, <2>1 DEF OpenSections, Last
  <2>3. AddBody(w, b) = Added(w, Last(w.stack), b)
    BY <1>2 DEF AddBody
  <2> QED
    BY <1>2, <2>1, <2>2, <2>3
<1>3. CASE ~w.saw_heading /\ VirtualOf(w, b.page) # {}
  <2>1. /\ VirtualOf(w, b.page) \subseteq DOMAIN w.nodes
        /\ \A n \in VirtualOf(w, b.page) : w.nodes[n].kind = "VIRTUAL_SECTION" /\ w.nodes[n].page_from = b.page
    BY DEF VirtualOf
  <2>2. \A n \in DOMAIN w.nodes : n \in Nat /\ n <= Len(w.nodes)
    BY <1>1
  <2>3. VirtualOf(w, b.page) \subseteq Nat /\ Len(w.nodes) \in Nat /\ \A n \in VirtualOf(w, b.page) : n <= Len(w.nodes)
    BY <1>1, <2>1, <2>2
  <2>4. Max(VirtualOf(w, b.page)) \in VirtualOf(w, b.page)
    BY <1>3, <2>3, MostOf
  <2>5. AddBody(w, b) = Added(w, Max(VirtualOf(w, b.page)), b)
    BY <1>3 DEF AddBody
  <2> QED
    BY <1>3, <2>1, <2>4, <2>5
<1>4. CASE ~w.saw_heading /\ VirtualOf(w, b.page) = {}
  <2> DEFINE node == PageNode(b)
             nodes == Append(w.nodes, node)
  <2>1. node \in TreeNode
    <3>1. <<"virtual", b.page>> \in Seq(Label) /\ <<b>> \in Seq(Block)
      BY <1>1 DEF Label
    <3>2. Min({b.page}) \in Nat /\ Max({b.page}) \in Nat
      BY <1>1, OnePage
    <3>3. "VIRTUAL_SECTION" # "ATOMIC_GROUP" /\ 0 \in Int
      OBVIOUS
    <3> QED
      BY <3>1, <3>2, <3>3, NodeTyped DEF PageNode
  <2>2. AddBody(w, b) = [w EXCEPT !.nodes = nodes]
    BY <1>4 DEF AddBody, PageNode
  <2> HIDE DEF nodes
  <2>3. SameButNodes(AddBody(w, b), w) /\ AddBody(w, b).nodes = nodes /\ AddBody(w, b).atomic_buf = w.atomic_buf
    BY <2>2 DEF TreeWork, SameButNodes
  <2> QED
    BY <1>4, <2>1, <2>3 DEF nodes
<1> QED
  BY <1>2, <1>3, <1>4

-----------------------------------------------------------------------------
(* One node for every block *)

\* The blocks of the body that were visited are in the nodes or wait, once each; the
\* references are put aside.
KeptOnce(w, body, refs) ==
  /\ \E S : /\ Once(BlocksOf(w.nodes), S)
            /\ S \intersect ToSet(w.atomic_buf) = {} /\ body = S \union ToSet(w.atomic_buf)
  /\ Distinct(w.atomic_buf) /\ Distinct(w.references) /\ ToSet(w.references) = refs

\* A block that goes to the nodes, but to those of the references.
Stays(b) == InBody(b) /\ b.block_type # "REFERENCE"

LEMMA NothingHolds == ToSet(<<>>) = {} /\ Distinct(<<>>)
<1>1. DOMAIN <<>> = {}
  OBVIOUS
<1> QED
  BY <1>1 DEF ToSet, Distinct

LEMMA FlushKept ==
  ASSUME NEW w \in TreeWork, NEW body, NEW refs, KeptOnce(w, body, refs)
  PROVE  /\ KeptOnce(flush_atomic(w), body, refs) /\ Once(BlocksOf(flush_atomic(w).nodes), body)
         /\ flush_atomic(w).atomic_buf = <<>>
<1> DEFINE f == flush_atomic(w)
<1>1. /\ f.references = w.references /\ f.atomic_buf = <<>>
      /\ w.atomic_buf = <<>> => f.nodes = w.nodes
      /\ w.atomic_buf # <<>> => f.nodes = Append(w.nodes, GroupNode(w)) /\ GroupNode(w) \in TreeNode
  BY FlushIs DEF SameButNodes
<1>2. PICK S : /\ Once(BlocksOf(w.nodes), S)
               /\ S \intersect ToSet(w.atomic_buf) = {} /\ body = S \union ToSet(w.atomic_buf)
  BY DEF KeptOnce
<1>3. Distinct(w.atomic_buf) /\ w.nodes \in Seq(TreeNode)
  BY WorkFields DEF KeptOnce
<1> HIDE DEF f
<1>4. Once(BlocksOf(f.nodes), body)
  <2>1. CASE w.atomic_buf = <<>>
    <3>1. body = S
      BY <1>2, <2>1, NothingHolds
    <3> QED
      BY <1>1, <1>2, <2>1, <3>1
  <2>2. CASE w.atomic_buf # <<>>
    <3> DEFINE node == GroupNode(w)
    <3>1. node.blocks = w.atomic_buf
      BY DEF GroupNode, Node
    <3> HIDE DEF node
    <3>2. node \in TreeNode /\ f.nodes = Append(w.nodes, node)
      BY <1>1, <2>2 DEF node
    <3>3. Once(BlocksOf(Append(w.nodes, node)), S \union ToSet(node.blocks))
      BY <1>2, <1>3, <3>1, <3>2, OnceNodeMore
    <3> QED
      BY <1>2, <3>1, <3>2, <3>3
  <2> QED
    BY <2>1, <2>2
<1>5. /\ body \intersect ToSet(f.atomic_buf) = {} /\ body = body \union ToSet(f.atomic_buf)
      /\ Distinct(f.atomic_buf) /\ Distinct(f.references) /\ ToSet(f.references) = refs
  BY <1>1, NothingHolds DEF KeptOnce
<1>6. KeptOnce(f, body, refs)
  BY <1>4, <1>5 DEF KeptOnce
<1> QED
  BY <1>1, <1>4, <1>6 DEF f

LEMMA AddBodyKept ==
  ASSUME NEW w \in TreeWork, NEW b \in Block, NEW S, Once(BlocksOf(w.nodes), S), b \notin S
  PROVE  Once(BlocksOf(AddBody(w, b).nodes), S \union {b})
<1>1. w.nodes \in Seq(TreeNode)
  BY WorkFields
<1>2. ASSUME NEW n \in DOMAIN w.nodes PROVE Once(BlocksOf(Added(w, n, b).nodes), S \union {b})
  <2> DEFINE node == Fuller(w.nodes[n], b)
             nodes == [w.nodes EXCEPT ![n] = node]
             ss == BlocksOf(w.nodes)
             tt == BlocksOf(nodes)
  <2>1. w.nodes[n] \in TreeNode /\ w.nodes[n].blocks \in Seq(Block)
    BY <1>1, NodeFields
  <2>2. node.blocks = Append(w.nodes[n].blocks, b)
    BY <2>1 DEF Fuller, TreeNode
  <2> HIDE DEF node
  <2>3. DOMAIN nodes = DOMAIN w.nodes /\ nodes[n] = node /\ \A i \in DOMAIN w.nodes : i # n => nodes[i] = w.nodes[i]
    BY <1>1
  <2> HIDE DEF nodes
  <2>4. DOMAIN ss = DOMAIN w.nodes /\ \A i \in DOMAIN w.nodes : ss[i] = w.nodes[i].blocks
    BY DEF BlocksOf
  <2>5. DOMAIN tt = DOMAIN w.nodes /\ \A i \in DOMAIN w.nodes : tt[i] = nodes[i].blocks
    BY <2>3 DEF BlocksOf
  <2>6. Once(ss, S)
    OBVIOUS
  <2> HIDE DEF ss, tt
  <2>7. /\ n \in DOMAIN ss /\ ss[n] \in Seq(Block) /\ DOMAIN tt = DOMAIN ss /\ tt[n] = Append(ss[n], b)
        /\ \A i \in DOMAIN ss : i # n => tt[i] = ss[i]
    BY <2>1, <2>2, <2>3, <2>4, <2>5
  <2>8. Once(tt, S \union {b})
    BY <2>6, <2>7, OncePut
  <2>9. Added(w, n, b).nodes = nodes
    BY AddedIs DEF nodes, node
  <2> QED
    BY <2>8, <2>9 DEF tt
<1>3. ASSUME AddBody(w, b).nodes = Append(w.nodes, PageNode(b)), PageNode(b) \in TreeNode
      PROVE  Once(BlocksOf(AddBody(w, b).nodes), S \union {b})
  <2> DEFINE node == PageNode(b)
  <2>1. node.blocks = <<b>>
    BY DEF PageNode, Node
  <2>2. ToSet(<<b>>) = {b} /\ Distinct(<<b>>)
    BY OneHoldsItself
  <2> HIDE DEF node
  <2>3. node \in TreeNode /\ Distinct(node.blocks) /\ S \intersect ToSet(node.blocks) = {} /\ ToSet(node.blocks) = {b}
    BY <1>3, <2>1, <2>2 DEF node
  <2>4. Once(BlocksOf(Append(w.nodes, node)), S \union ToSet(node.blocks))
    BY <1>1, <2>3, OnceNodeMore
  <2> QED
    BY <1>3, <2>3, <2>4 DEF node
<1> QED
  BY <1>2, <1>3, AddBodyIs

\* What a visit is, by the type of the block.
LEMMA VisitIs ==
  ASSUME NEW w \in TreeWork, NEW b \in Block
  PROVE  \/ b.block_type = "HEADER_FOOTER" /\ Visit(w, b) = [flush_atomic(w) EXCEPT !.header_footer = Append(@, b)]
         \/ b.block_type = "REFERENCE" /\ Visit(w, b) = [flush_atomic(w) EXCEPT !.references = Append(@, b)]
         \/ b.block_type \in HeadingType /\ Visit(w, b) = OpenSection(flush_atomic(w), b)
         \/ b.block_type \in ATOMIC_TYPES /\ Visit(w, b) = [w EXCEPT !.atomic_buf = Append(@, b)]
         \/ /\ b.block_type \notin {"HEADER_FOOTER", "REFERENCE"} \union HeadingType \union ATOMIC_TYPES
            /\ Visit(w, b) = AddBody(flush_atomic(w), b)
BY DEF Visit, HeadingType, ATOMIC_TYPES

LEMMA VisitKept ==
  ASSUME NEW w \in TreeWork, NEW b \in Block, NEW body, NEW refs, KeptOnce(w, body, refs), b \notin body, b \notin refs
  PROVE  KeptOnce(Visit(w, b), IF Stays(b) THEN body \union {b} ELSE body,
              IF b.block_type = "REFERENCE" THEN refs \union {b} ELSE refs)
<1> DEFINE f == flush_atomic(w)
           v == Visit(w, b)
<1>1. f \in TreeWork
  BY FlushTyped
<1>2. KeptOnce(f, body, refs) /\ Once(BlocksOf(f.nodes), body) /\ f.atomic_buf = <<>>
  BY FlushKept
<1>3. Distinct(f.references) /\ ToSet(f.references) = refs
  BY <1>2 DEF KeptOnce
<1>4. f.nodes \in Seq(TreeNode) /\ f.references \in Seq(Block)
  BY <1>1, WorkFields
<1>5. ASSUME NEW S, Once(BlocksOf(v.nodes), S), v.atomic_buf = <<>>, NEW R, Distinct(v.references), ToSet(v.references) = R
      PROVE  KeptOnce(v, S, R)
  <2>1. S \intersect ToSet(<<>>) = {} /\ S = S \union ToSet(<<>>) /\ Distinct(<<>>)
    BY NothingHolds
  <2> HIDE DEF v
  <2> QED
    BY <1>5, <2>1 DEF KeptOnce
<1>6. CASE b.block_type = "HEADER_FOOTER" /\ v = [f EXCEPT !.header_footer = Append(@, b)]
  <2>1. v.nodes = f.nodes /\ v.atomic_buf = f.atomic_buf /\ v.references = f.references
    <3> HIDE DEF f, v
    <3> QED
      BY <1>1, <1>6 DEF TreeWork
  <2>2. ~Stays(b) /\ b.block_type # "REFERENCE"
    BY <1>6 DEF Stays, InBody
  <2> HIDE DEF f, v
  <2>3. KeptOnce(v, body, refs)
    BY <1>2, <1>3, <1>5, <2>1
  <2> QED
    BY <2>2, <2>3 DEF v
<1>7. CASE b.block_type = "REFERENCE" /\ v = [f EXCEPT !.references = Append(@, b)]
  <2>1. v.nodes = f.nodes /\ v.atomic_buf = f.atomic_buf /\ v.references = Append(f.references, b)
    <3> HIDE DEF f, v
    <3> QED
      BY <1>1, <1>7 DEF TreeWork
  <2>2. ~Stays(b) /\ b.block_type = "REFERENCE"
    BY <1>7 DEF Stays
  <2> HIDE DEF f, v
  <2>3. ToSet(Append(f.references, b)) = refs \union {b} /\ Distinct(Append(f.references, b))
    BY <1>3, <1>4, AppendHolds
  <2>4. KeptOnce(v, body, refs \union {b})
    BY <1>2, <1>5, <2>1, <2>3
  <2> QED
    BY <2>2, <2>4 DEF v
<1>8. CASE b.block_type \in HeadingType /\ v = OpenSection(f, b)
  <2>1. PICK left : /\ v.nodes = Append(f.nodes, HeadingNode(f, b, left)) /\ HeadingNode(f, b, left) \in TreeNode
                    /\ v.atomic_buf = f.atomic_buf /\ v.references = f.references
    BY <1>1, <1>8, OpenSectionIs
  <2> DEFINE node == HeadingNode(f, b, left)
  <2>2. node.blocks = <<>>
    BY DEF HeadingNode, Node
  <2>3. ~Stays(b) /\ b.block_type # "REFERENCE"
    BY <1>8 DEF Stays, InBody, HeadingType
  <2> HIDE DEF f, v, node
  <2>4. node \in TreeNode /\ Distinct(node.blocks) /\ body \intersect ToSet(node.blocks) = {}
        /\ body \union ToSet(node.blocks) = body
    BY <2>1, <2>2, NothingHolds DEF node
  <2>5. Once(BlocksOf(Append(f.nodes, node)), body \union ToSet(node.blocks))
    BY <1>2, <1>4, <2>4, OnceNodeMore
  <2>6. Once(BlocksOf(v.nodes), body)
    BY <2>1, <2>4, <2>5 DEF node
  <2>7. KeptOnce(v, body, refs)
    BY <1>2, <1>3, <1>5, <2>1, <2>6
  <2> QED
    BY <2>3, <2>7 DEF v
<1>9. CASE b.block_type \in ATOMIC_TYPES /\ v = [w EXCEPT !.atomic_buf = Append(@, b)]
  <2>1. v.nodes = w.nodes /\ v.atomic_buf = Append(w.atomic_buf, b) /\ v.references = w.references
    <3> HIDE DEF v
    <3> QED
      BY <1>9 DEF TreeWork
  <2>2. Stays(b) /\ b.block_type # "REFERENCE"
    BY <1>9 DEF Stays, InBody, HeadingType, ATOMIC_TYPES
  <2> HIDE DEF v
  <2>3. PICK S : /\ Once(BlocksOf(w.nodes), S)
                 /\ S \intersect ToSet(w.atomic_buf) = {} /\ body = S \union ToSet(w.atomic_buf)
    BY DEF KeptOnce
  <2>4. w.atomic_buf \in Seq(Block) /\ Distinct(w.atomic_buf) /\ b \notin ToSet(w.atomic_buf) /\ b \notin S
    BY <2>3, WorkFields, AtomicAreBlocks DEF KeptOnce
  <2>5. ToSet(v.atomic_buf) = ToSet(w.atomic_buf) \union {b} /\ Distinct(v.atomic_buf)
    BY <2>1, <2>4, AppendHolds
  <2>6. S \intersect ToSet(v.atomic_buf) = {} /\ body \union {b} = S \union ToSet(v.atomic_buf)
    BY <2>3, <2>4, <2>5
  <2>7. KeptOnce(v, body \union {b}, refs)
    BY <2>1, <2>3, <2>5, <2>6 DEF KeptOnce
  <2> QED
    BY <2>2, <2>7 DEF v
<1>10. CASE /\ b.block_type \notin {"HEADER_FOOTER", "REFERENCE"} \union HeadingType \union ATOMIC_TYPES
            /\ v = AddBody(f, b)
  <2>1. v.atomic_buf = f.atomic_buf /\ v.references = f.references
    <3> HIDE DEF f
    <3>1. \A n \in DOMAIN f.nodes : Added(f, n, b).atomic_buf = f.atomic_buf /\ Added(f, n, b).references = f.references
      BY <1>1, AddedIs DEF SameButNodes
    <3>2. \/ \E n \in DOMAIN f.nodes : AddBody(f, b) = Added(f, n, b)
          \/ AddBody(f, b).atomic_buf = f.atomic_buf /\ AddBody(f, b).references = f.references
      BY <1>1, AddBodyIs DEF SameButNodes
    <3> QED
      BY <1>10, <3>1, <3>2
  <2>2. Stays(b) /\ b.block_type # "REFERENCE"
    BY <1>10 DEF Stays, InBody
  <2>3. Once(BlocksOf(v.nodes), body \union {b})
    BY <1>1, <1>2, <1>10, AddBodyKept
  <2> HIDE DEF f, v
  <2>4. KeptOnce(v, body \union {b}, refs)
    BY <1>2, <1>3, <1>5, <2>1, <2>3
  <2> QED
    BY <2>2, <2>4 DEF v
<1> QED
  BY <1>6, <1>7, <1>8, <1>9, <1>10, VisitIs

LEMMA StartedKept == KeptOnce(Started, {}, {})
<1>1. BlocksOf(<<>>) = <<>>
  BY DEF BlocksOf
<1>2. Started.nodes = <<>> /\ Started.atomic_buf = <<>> /\ Started.references = <<>>
  BY DEF Started
<1>3. Once(BlocksOf(Started.nodes), {})
  BY <1>1, <1>2, OnceNothing
<1> QED
  BY <1>2, <1>3, NothingHolds DEF KeptOnce

\* The tree holds every block of the body once.
LEMMA TreeOfKept ==
  ASSUME NEW w \in TreeWork, NEW body, NEW refs, KeptOnce(w, body, refs), body \intersect refs = {}
  PROVE  Once(BlocksOf(TreeOf(flush_atomic(w))), body \union refs)
<1> DEFINE f == flush_atomic(w)
<1>1. f \in TreeWork
  BY FlushTyped
<1>2. KeptOnce(f, body, refs) /\ Once(BlocksOf(f.nodes), body)
  BY FlushKept
<1> HIDE DEF f
<1>3. Distinct(f.references) /\ ToSet(f.references) = refs
  BY <1>2 DEF KeptOnce
<1>4. f.nodes \in Seq(TreeNode) /\ f.references \in Seq(Block)
  BY <1>1, WorkFields
<1>5. CASE f.references = <<>>
  <2>1. refs = {}
    BY <1>3, <1>5, NothingHolds
  <2>2. TreeOf(f) = f.nodes
    BY <1>5 DEF TreeOf
  <2> QED
    BY <1>2, <2>1, <2>2 DEF f
<1>6. CASE f.references # <<>>
  <2> DEFINE node == Node("REFERENCES", <<"references">>, 0, f.references, PagesOf(f.references))
             nodes == f.nodes
  <2>1. TreeOf(f) = Append(nodes, node) /\ node.blocks = f.references
    BY <1>6 DEF TreeOf, Node
  <2>2. nodes \in Seq(TreeNode \union {node}) /\ node \in TreeNode \union {node}
    <3> HIDE DEF node
    <3> QED
      BY <1>4
  <2> HIDE DEF node, nodes
  <2>3. Once(BlocksOf(Append(nodes, node)), body \union ToSet(node.blocks))
    <3> DEFINE Q == TreeNode \union {node}
    <3>1. nodes \in Seq(Q) /\ node \in Q
      BY <2>2
    <3>2. Once(BlocksOf(nodes), body) /\ Distinct(node.blocks) /\ body \intersect ToSet(node.blocks) = {}
      BY <1>2, <1>3, <2>1 DEF nodes
    <3> HIDE DEF Q
    <3> QED
      BY <3>1, <3>2, OnceNodeMore
  <2> QED
    BY <1>3, <2>1, <2>3 DEF f
<1> QED
  BY <1>5, <1>6

-----------------------------------------------------------------------------
(* The open sections are those of the headings a block stands under *)

\* The titles of the first so many of some headings.
PathOf(ordered, heads, k) == [j \in 1..k |-> ordered[heads[j]].title]

SectionOf(ordered, heads, k, node) ==
  /\ node.heading_level = ordered[heads[k]].level /\ node.page_from = ordered[heads[k]].page
  /\ node.structure_path = PathOf(ordered, heads, k)

GoesUp(heads) == \A k, l \in DOMAIN heads : k < l => heads[k] < heads[l]

\* After so many blocks the stack holds the sections of the headings the next one stands
\* under, from the first.
StandsOn(ordered, n, w, heads) ==
  /\ heads \in Seq(Nat) /\ Len(heads) = Len(w.stack) /\ GoesUp(heads)
  /\ ToSet(heads) = HeadingsOver(ordered, n + 1)
  /\ \A k \in DOMAIN heads : SectionOf(ordered, heads, k, w.nodes[w.stack[k]])
  /\ w.saw_heading <=> heads # <<>>

LEMMA StackIs ==
  ASSUME NEW w \in TreeWork, NEW ordered, NEW n, NEW heads, StandsOn(ordered, n, w, heads)
  PROVE  /\ DOMAIN heads = 1..Len(heads) /\ Len(heads) \in Nat /\ DOMAIN w.stack = 1..Len(heads) /\ Len(w.stack) = Len(heads)
         /\ w.stack \in Seq(Nat) /\ w.nodes \in Seq(TreeNode)
         /\ \A k \in 1..Len(heads) : w.stack[k] \in DOMAIN w.nodes /\ w.nodes[w.stack[k]].kind = "SECTION"
BY WorkFields DEF StandsOn, OpenSections

LEMMA OpenPathIs ==
  ASSUME NEW w \in TreeWork, NEW ordered, NEW n, NEW heads, StandsOn(ordered, n, w, heads), NEW left \in 0..Len(w.stack)
  PROVE  OpenPath([w EXCEPT !.stack = SubSeq(w.stack, 1, left)]) = PathOf(ordered, heads, left)
<1> DEFINE s == SubSeq(w.stack, 1, left)
           p == [w EXCEPT !.stack = s]
<1>1. /\ Len(heads) \in Nat /\ Len(w.stack) = Len(heads) /\ DOMAIN heads = 1..Len(heads) /\ w.stack \in Seq(Nat)
      /\ left \in 0..Len(heads)
  BY StackIs
<1>2. p.nodes = w.nodes /\ p.stack = s
  <2> HIDE DEF s
  <2> QED
    BY DEF TreeWork
<1>3. s \in Seq(Nat) /\ Len(s) = left /\ (left # 0 => s[left] = w.stack[left])
  BY <1>1
<1> HIDE DEF p, s
<1>4. CASE left = 0
  <2>1. s = <<>>
    BY <1>3, <1>4
  <2>2. PathOf(ordered, heads, 0) = <<>>
    BY DEF PathOf
  <2> QED
    BY <1>2, <1>4, <2>1, <2>2 DEF OpenPath, p, s
<1>5. CASE left # 0
  <2>1. s # <<>> /\ Last(s) = w.stack[left]
    BY <1>3, <1>5 DEF Last
  <2>2. left \in DOMAIN heads
    BY <1>1, <1>5
  <2>3. OpenPath(p) = w.nodes[w.stack[left]].structure_path
    BY <1>2, <2>1 DEF OpenPath
  <2> QED
    BY <2>2, <2>3 DEF StandsOn, SectionOf, p, s
<1> QED
  BY <1>4, <1>5

LEMMA OpenPathsAre ==
  ASSUME NEW w \in TreeWork, NEW ordered, NEW n, NEW heads, StandsOn(ordered, n, w, heads)
  PROVE  \A left \in 0..Len(w.stack) :
           OpenPath([w EXCEPT !.stack = SubSeq(w.stack, 1, left)]) = PathOf(ordered, heads, left)
BY OpenPathIs

LEMMA WholePathIs ==
  ASSUME NEW w \in TreeWork, NEW ordered, NEW n, NEW heads, StandsOn(ordered, n, w, heads)
  PROVE  OpenPath(w) = PathOf(ordered, heads, Len(heads))
<1>1. w.stack \in Seq(Nat) /\ Len(w.stack) = Len(heads) /\ Len(heads) \in 0..Len(w.stack)
  BY StackIs
<1>2. SubSeq(w.stack, 1, Len(heads)) = w.stack
  BY <1>1
<1>3. [w EXCEPT !.stack = w.stack] = w
  BY DEF TreeWork
<1>4. \A left \in 0..Len(w.stack) : OpenPath([w EXCEPT !.stack = SubSeq(w.stack, 1, left)]) = PathOf(ordered, heads, left)
  BY OpenPathsAre
<1>5. OpenPath([w EXCEPT !.stack = SubSeq(w.stack, 1, Len(heads))]) = PathOf(ordered, heads, Len(heads))
  BY <1>1, <1>4
<1> QED
  BY <1>2, <1>3, <1>5

\* A block is filed under the titles of the headings it stands under.
LEMMA FiledUnderHeads ==
  ASSUME NEW ordered, InOrder(ordered), NEW n \in 1..Len(ordered), NEW heads \in Seq(Nat), GoesUp(heads),
         ToSet(heads) = HeadingsOver(ordered, n), ordered[n].block_type # "REFERENCE",
         heads # <<>> \/ ordered[n].block_type \in ATOMIC_TYPES
  PROVE  /\ FiledUnder(ordered, PathOf(ordered, heads, Len(heads)), ordered[n])
         /\ \A k \in DOMAIN heads : ordered[heads[k]].page <= ordered[n].page
<1> DEFINE over == HeadingsOver(ordered, n)
           N == Len(heads)
           path == PathOf(ordered, heads, N)
<1>1. n \in DOMAIN ordered /\ N \in Nat /\ DOMAIN heads = 1..N
  BY DEF InOrder
<1>2. (CHOOSE i \in DOMAIN ordered : ordered[i] = ordered[n]) = n
  BY <1>1, InPlace
<1> HIDE DEF N
<1>3. over = {heads[k] : k \in 1..N} /\ \A k \in 1..N : heads[k] \in over
  BY <1>1 DEF ToSet
<1>4. Cardinality(over) = N
  <2>1. \A k, l \in 1..N : heads[k] = heads[l] => k = l
    <3>1. \A k \in 1..N : heads[k] \in Nat
      BY <1>1
    <3>2. \A k, l \in 1..N : k # l => k < l \/ l < k
      BY <1>1
    <3> QED
      BY <1>1, <3>1, <3>2 DEF GoesUp
  <2> HIDE DEF over
  <2>2. heads \in [1..N -> over]
    BY <1>1, <1>3
  <2>3. heads \in Bijection(1..N, over)
    BY <1>3, <2>1, <2>2 DEF Bijection, Injection, Surjection, IsInjective
  <2> QED
    BY <1>1, <2>3, FS_CountingElements DEF ExistsBijection
<1>5. heads \in [1..N -> over]
  <2> HIDE DEF over
  <2> QED
    BY <1>1, <1>3
<1>6. path = [k \in DOMAIN heads |-> ordered[heads[k]].title]
  BY <1>1 DEF PathOf
<1>7. ~ (over = {} /\ ordered[n].block_type \notin ATOMIC_TYPES)
  <2>1. heads # <<>> => 1 \in 1..N
    BY <1>1 DEF N
  <2> HIDE DEF over
  <2> QED
    BY <1>3, <2>1
<1>8. FiledUnder(ordered, path, ordered[n])
  <2> HIDE DEF path
  <2>1. \E hs \in [1..Cardinality(over) -> over] :
          /\ \A k, l \in DOMAIN hs : k < l => hs[k] < hs[l]
          /\ path = [k \in DOMAIN hs |-> ordered[hs[k]].title]
    <3> HIDE DEF over
    <3> QED
      BY <1>4, <1>5, <1>6 DEF GoesUp
  <2> QED
    BY <1>2, <1>7, <2>1 DEF FiledUnder
<1>9. ASSUME NEW k \in DOMAIN heads PROVE ordered[heads[k]].page <= ordered[n].page
  <2>1. heads[k] \in 1..n - 1
    BY <1>1, <1>3 DEF HeadingsOver
  <2>2. heads[k] \in DOMAIN ordered /\ heads[k] < n
    <3>1. DOMAIN ordered = 1..Len(ordered) /\ Len(ordered) \in Nat
      BY DEF InOrder
    <3> QED
      BY <2>1, <3>1
  <2> QED
    BY <1>1, <2>2 DEF InOrder
<1> QED
  BY <1>8, <1>9 DEF N

\* Nothing that leaves the stack and its sections alone moves a block.
LEMMA StandsGoOn ==
  ASSUME NEW w \in TreeWork, NEW ordered, NEW n, NEW heads, StandsOn(ordered, n, w, heads),
         NEW v, v.stack = w.stack, v.saw_heading = w.saw_heading,
         \A k \in DOMAIN w.stack : /\ v.nodes[w.stack[k]].heading_level = w.nodes[w.stack[k]].heading_level
                                   /\ v.nodes[w.stack[k]].page_from = w.nodes[w.stack[k]].page_from
                                   /\ v.nodes[w.stack[k]].structure_path = w.nodes[w.stack[k]].structure_path,
         NEW m, HeadingsOver(ordered, m + 1) = HeadingsOver(ordered, n + 1)
  PROVE  StandsOn(ordered, m, v, heads)
<1>1. DOMAIN w.stack = DOMAIN heads
  BY StackIs
<1> QED
  BY <1>1 DEF StandsOn, SectionOf

-----------------------------------------------------------------------------
(* Every block is filed where it belongs *)

\* The blocks of a node, or of a parent, belong there.
Belong(ordered, node) ==
  \A b \in ToSet(node.blocks) : /\ FiledUnder(ordered, node.structure_path, b)
                                /\ b.page \in node.page_from..node.page_to

FiledNode(ordered, node) ==
  /\ Belong(ordered, node)
  /\ node.kind = "VIRTUAL_SECTION" => node.structure_path = <<"virtual", node.page_from>>

\* A block that waits stands under the headings that the next one stands under.
Waits(ordered, n, b) == \E i \in 1..n : ordered[i] = b /\ HeadingsOver(ordered, i) = HeadingsOver(ordered, n + 1)

AllFiled(ordered, nodes) == \A m \in DOMAIN nodes : FiledNode(ordered, nodes[m])

FiledTree(ordered, n, w) ==
  /\ \E heads : StandsOn(ordered, n, w, heads)
  /\ AllFiled(ordered, w.nodes)
  /\ \A b \in ToSet(w.atomic_buf) : Waits(ordered, n, b)

LEMMA PagesCover ==
  ASSUME NEW blocks \in Seq(Block), NEW b \in ToSet(blocks)
  PROVE  b.page \in Min(PagesOf(blocks))..Max(PagesOf(blocks))
<1> DEFINE pages == PagesOf(blocks)
           s == [i \in DOMAIN blocks |-> blocks[i].page]
<1>1. pages = {blocks[i].page : i \in DOMAIN blocks} /\ b.page \in pages
  BY DEF PagesOf, ToSet
<1>2. \A i \in DOMAIN blocks : blocks[i].page \in Nat
  BY BlockFields
<1>3. s \in Seq(Nat) /\ DOMAIN s = DOMAIN blocks /\ \A i \in DOMAIN blocks : s[i] = blocks[i].page
  BY <1>2
<1> HIDE DEF s
<1>4. PICK top \in Nat : \A i \in DOMAIN s : s[i] <= top
  BY <1>3, SomeTop
<1>5. pages \subseteq Nat /\ pages # {} /\ \A x \in pages : x <= top
  BY <1>1, <1>2, <1>3, <1>4
<1> HIDE DEF pages
<1>6. Min(pages) \in Nat /\ Min(pages) <= b.page /\ b.page \in Nat
  BY <1>1, <1>5, LeastExists
<1>7. Max(pages) \in Nat /\ Max(pages) >= b.page
  BY <1>1, <1>5, MostOf, MostIs
<1> QED
  BY <1>6, <1>7 DEF pages

LEMMA HeadsOfTree ==
  ASSUME NEW ordered, InOrder(ordered), NEW n \in 0..Len(ordered), NEW w, NEW heads, StandsOn(ordered, n, w, heads)
  PROVE  /\ heads \in Seq(Nat) /\ GoesUp(heads) /\ ToSet(heads) = HeadingsOver(ordered, n + 1)
BY DEF StandsOn

\* The open sections are as they were.
Untouched(w, nodes) == \A k \in DOMAIN w.stack : nodes[w.stack[k]] = w.nodes[w.stack[k]]

LEMMA AppendFiles ==
  ASSUME NEW ordered, NEW w \in TreeWork, NEW node \in TreeNode
  PROVE  /\ AllFiled(ordered, w.nodes) /\ FiledNode(ordered, node) => AllFiled(ordered, Append(w.nodes, node))
         /\ Untouched(w, Append(w.nodes, node))
<1> DEFINE nodes == Append(w.nodes, node)
<1>1. w.nodes \in Seq(TreeNode) /\ \A k \in DOMAIN w.stack : w.stack[k] \in DOMAIN w.nodes
  BY WorkFields DEF OpenSections
<1>2. /\ DOMAIN nodes = 1..Len(w.nodes) + 1 /\ Len(w.nodes) \in Nat /\ DOMAIN w.nodes = 1..Len(w.nodes)
      /\ nodes[Len(w.nodes) + 1] = node /\ \A m \in 1..Len(w.nodes) : nodes[m] = w.nodes[m]
  BY <1>1
<1> HIDE DEF nodes
<1>3. AllFiled(ordered, w.nodes) /\ FiledNode(ordered, node) => AllFiled(ordered, nodes)
  <2>1. \A m \in 1..Len(w.nodes) + 1 : m = Len(w.nodes) + 1 \/ m \in 1..Len(w.nodes)
    BY <1>2
  <2> QED
    BY <1>2, <2>1 DEF AllFiled
<1>4. Untouched(w, nodes)
  BY <1>1, <1>2 DEF Untouched
<1> QED
  BY <1>3, <1>4 DEF nodes

LEMMA FlushFiled ==
  ASSUME NEW ordered, InOrder(ordered), NEW n \in 0..Len(ordered), NEW w \in TreeWork, FiledTree(ordered, n, w)
  PROVE  FiledTree(ordered, n, flush_atomic(w))
<1> DEFINE f == flush_atomic(w)
<1>1. PICK heads : StandsOn(ordered, n, w, heads)
  BY DEF FiledTree
<1>2. /\ f.stack = w.stack /\ f.saw_heading = w.saw_heading /\ f.atomic_buf = <<>>
      /\ w.atomic_buf = <<>> => f.nodes = w.nodes
      /\ w.atomic_buf # <<>> => f.nodes = Append(w.nodes, GroupNode(w)) /\ GroupNode(w) \in TreeNode
  BY FlushIs DEF SameButNodes
<1> HIDE DEF f
<1>3. /\ AllFiled(ordered, f.nodes)
      /\ Untouched(w, f.nodes)
  <2>1. CASE w.atomic_buf = <<>>
    BY <1>2, <2>1 DEF FiledTree, Untouched
  <2>2. CASE w.atomic_buf # <<>>
    <3> DEFINE node == GroupNode(w)
    <3>1. /\ node.structure_path = PathOf(ordered, heads, Len(heads)) /\ node.blocks = w.atomic_buf
          /\ node.page_from = Min(PagesOf(w.atomic_buf)) /\ node.page_to = Max(PagesOf(w.atomic_buf))
          /\ node.kind = "ATOMIC_GROUP"
      BY <1>1, WholePathIs DEF GroupNode, Node
    <3> HIDE DEF node
    <3>2. ASSUME NEW b \in ToSet(w.atomic_buf)
          PROVE  FiledUnder(ordered, PathOf(ordered, heads, Len(heads)), b)
      <4>1. b.block_type \in ATOMIC_TYPES /\ b.block_type # "REFERENCE"
        <5>1. w.atomic_buf \in Seq(AtomicBlock)
          BY WorkFields
        <5>2. b \in AtomicBlock
          BY <5>1 DEF ToSet
        <5> QED
          BY <5>2 DEF AtomicBlock, ATOMIC_TYPES
      <4>2. PICK i \in 1..n : ordered[i] = b /\ HeadingsOver(ordered, i) = HeadingsOver(ordered, n + 1)
        BY DEF FiledTree, Waits
      <4>3. i \in 1..Len(ordered)
        BY DEF InOrder
      <4>4. heads \in Seq(Nat) /\ GoesUp(heads) /\ ToSet(heads) = HeadingsOver(ordered, i)
        BY <1>1, <4>2 DEF StandsOn
      <4>5. FiledUnder(ordered, PathOf(ordered, heads, Len(heads)), ordered[i])
        BY <4>1, <4>2, <4>3, <4>4, FiledUnderHeads
      <4> QED
        BY <4>2, <4>5
    <3>3. w.atomic_buf \in Seq(Block)
      BY WorkFields, AtomicAreBlocks
    <3>4. Belong(ordered, node)
      BY <3>1, <3>2, <3>3, PagesCover DEF Belong
    <3>5. FiledNode(ordered, node)
      BY <3>1, <3>4 DEF FiledNode
    <3>6. f.nodes = Append(w.nodes, node) /\ node \in TreeNode
      BY <1>2, <2>2 DEF node
    <3>7. AllFiled(ordered, w.nodes)
      BY DEF FiledTree
    <3>8. AllFiled(ordered, Append(w.nodes, node)) /\ Untouched(w, Append(w.nodes, node))
      BY <3>5, <3>6, <3>7, AppendFiles
    <3> QED
      BY <3>6, <3>8
  <2> QED
    BY <2>1, <2>2
<1>4. StandsOn(ordered, n, f, heads)
  BY <1>1, <1>2, <1>3, StandsGoOn DEF Untouched
<1>5. ToSet(f.atomic_buf) = {}
  BY <1>2, NothingHolds
<1>6. FiledTree(ordered, n, f)
  BY <1>3, <1>4, <1>5 DEF FiledTree
<1> QED
  BY <1>6 DEF f

\* A node that takes a block that belongs there.
LEMMA FullerFiled ==
  ASSUME NEW ordered, NEW node \in TreeNode, FiledNode(ordered, node), NEW b \in Block,
         FiledUnder(ordered, node.structure_path, b), node.page_from <= b.page
  PROVE  /\ FiledNode(ordered, Fuller(node, b))
         /\ Fuller(node, b).heading_level = node.heading_level /\ Fuller(node, b).page_from = node.page_from
         /\ Fuller(node, b).structure_path = node.structure_path
<1> DEFINE u == Fuller(node, b)
           top == Max({node.page_to, b.page})
<1>1. node.page_from \in Nat /\ node.page_to \in Nat /\ b.page \in Nat /\ node.blocks \in Seq(Block)
  BY NodeFields, BlockFields
<1>2. top \in Nat /\ top >= node.page_to /\ top >= b.page
  <2>1. node.page_to \in Int /\ b.page \in Int
    BY <1>1
  <2>2. top \in {node.page_to, b.page} /\ top >= node.page_to /\ top >= b.page
    BY <2>1, MaxOfTwo
  <2> QED
    BY <1>1, <2>2
<1>3. /\ u.kind = node.kind /\ u.heading_level = node.heading_level /\ u.page_from = node.page_from
      /\ u.structure_path = node.structure_path /\ u.page_to = top /\ u.blocks = Append(node.blocks, b)
  BY DEF Fuller, TreeNode
<1> HIDE DEF u, top
<1>4. ToSet(u.blocks) = ToSet(node.blocks) \union {b}
  BY <1>1, <1>3, AppendHolds
<1>5. \A c \in ToSet(node.blocks) : c.page \in node.page_from..node.page_to /\ FiledUnder(ordered, node.structure_path, c)
  BY DEF FiledNode, Belong
<1>6. \A c \in ToSet(u.blocks) : c.page \in u.page_from..u.page_to
  BY <1>1, <1>2, <1>3, <1>4, <1>5
<1>7. \A c \in ToSet(u.blocks) : FiledUnder(ordered, u.structure_path, c)
  BY <1>3, <1>4, <1>5
<1>8. FiledNode(ordered, u)
  BY <1>3, <1>6, <1>7 DEF FiledNode, Belong
<1> QED
  BY <1>3, <1>8 DEF u

LEMMA HeadingFiled ==
  ASSUME NEW ordered, InOrder(ordered), NEW n \in 1..Len(ordered), ordered[n].block_type \in HeadingType,
         NEW w \in TreeWork, FiledTree(ordered, n - 1, w), w.atomic_buf = <<>>
  PROVE  FiledTree(ordered, n, OpenSection(w, ordered[n]))
<1> DEFINE b == ordered[n]
           v == OpenSection(w, b)
<1>1. /\ n \in Nat /\ n - 1 \in 0..Len(ordered) /\ (n - 1) + 1 = n /\ n \in DOMAIN ordered
      /\ b \in Block /\ b.page \in Nat /\ b.level \in Int /\ b.title \in Nat
  <2>1. n \in Nat /\ n - 1 \in 0..Len(ordered) /\ (n - 1) + 1 = n /\ n \in DOMAIN ordered /\ b \in Block
    BY DEF InOrder
  <2> QED
    BY <2>1, BlockFields
<1>2. PICK heads : StandsOn(ordered, n - 1, w, heads)
  BY DEF FiledTree
<1>3. /\ DOMAIN heads = 1..Len(heads) /\ Len(heads) \in Nat /\ DOMAIN w.stack = 1..Len(heads)
      /\ Len(w.stack) = Len(heads) /\ w.stack \in Seq(Nat) /\ w.nodes \in Seq(TreeNode)
      /\ \A k \in 1..Len(heads) : w.stack[k] \in DOMAIN w.nodes
  BY <1>2, StackIs
<1>4. PICK left :
        /\ Left(w, b.level, left)
        /\ v.nodes = Append(w.nodes, HeadingNode(w, b, left)) /\ HeadingNode(w, b, left) \in TreeNode
        /\ v.stack = Append(SubSeq(w.stack, 1, left), Len(w.nodes) + 1)
        /\ v.saw_heading = TRUE /\ v.atomic_buf = w.atomic_buf
  BY <1>1, OpenSectionIs
<1> DEFINE node == HeadingNode(w, b, left)
           hs == Append(SubSeq(heads, 1, left), n)
<1>5. /\ node.kind = "SECTION" /\ node.blocks = <<>> /\ node.heading_level = b.level /\ node.page_from = b.page
      /\ node.structure_path = Append(PathOf(ordered, heads, left), b.title)
  <2>1. left \in 0..Len(w.stack)
    BY <1>4 DEF Left
  <2>2. OpenPath([w EXCEPT !.stack = SubSeq(w.stack, 1, left)]) = PathOf(ordered, heads, left)
    <3> HIDE DEF b, v, node, hs
    <3> DEFINE m == n - 1
    <3>1. StandsOn(ordered, m, w, heads)
      BY <1>2
    <3> HIDE DEF m
    <3>2. \A k \in 0..Len(w.stack) : OpenPath([w EXCEPT !.stack = SubSeq(w.stack, 1, k)]) = PathOf(ordered, heads, k)
      BY <3>1, OpenPathsAre
    <3> QED
      BY <2>1, <3>2
  <2>3. Min({b.page}) = b.page
    BY <1>1, OnePage
  <2> QED
    BY <2>2, <2>3 DEF HeadingNode, Node
<1> HIDE DEF v, node, b
<1>6. left \in Nat /\ left \in 0..Len(heads) /\ left <= Len(heads)
  BY <1>3, <1>4 DEF Left
<1>7. heads \in Seq(Nat) /\ GoesUp(heads) /\ ToSet(heads) = HeadingsOver(ordered, n)
  BY <1>1, <1>2 DEF StandsOn
<1>8. /\ hs \in Seq(Nat) /\ Len(hs) = left + 1 /\ DOMAIN hs = 1..left + 1 /\ hs[left + 1] = n
      /\ \A k \in 1..left : hs[k] = heads[k] /\ k \in DOMAIN heads
  <2> DEFINE s == SubSeq(heads, 1, left)
  <2>1. s \in Seq(Nat) /\ Len(s) = left /\ \A k \in 1..left : s[k] = heads[k]
    <3>1. heads \in Seq(Nat)
      BY <1>7
    <3> HIDE DEF b, v, node, hs
    <3>2. s \in Seq(Nat) /\ Len(s) = left
      BY <1>6, <3>1
    <3>3. \A k \in 1..left : s[k] = heads[k]
      BY <1>6, <3>1
    <3> QED
      BY <3>2, <3>3
  <2>2. \A k \in 1..left : k \in DOMAIN heads
    BY <1>3, <1>6
  <2> HIDE DEF s
  <2>3. hs = Append(s, n)
    BY DEF s
  <2> HIDE DEF hs
  <2>4. hs \in Seq(Nat) /\ Len(hs) = left + 1 /\ DOMAIN hs = 1..left + 1 /\ hs[left + 1] = n
    BY <1>1, <1>6, <2>1, <2>3
  <2>5. \A k \in 1..left : hs[k] = s[k]
    BY <1>1, <1>6, <2>1, <2>3
  <2> QED
    BY <2>1, <2>2, <2>4, <2>5
<1>9. \A k \in 1..left + 1 : k = left + 1 \/ k \in 1..left
  BY <1>6
<1> HIDE DEF hs
<1>10. \A k \in DOMAIN heads : heads[k] \in HeadingsOver(ordered, n) /\ heads[k] \in 1..n - 1
  BY <1>7 DEF ToSet, HeadingsOver
<1>11. GoesUp(hs)
  <2>1. ASSUME NEW k \in 1..left + 1, NEW l \in 1..left + 1, k < l PROVE hs[k] < hs[l]
    <3>1. k \in 1..left
      BY <1>6, <2>1
    <3>2. CASE l = left + 1
      <4>1. heads[k] \in 1..n - 1
        BY <1>8, <1>10, <3>1
      <4> QED
        BY <1>1, <1>8, <3>1, <3>2, <4>1
    <3>3. CASE l \in 1..left
      BY <1>7, <1>8, <2>1, <3>1, <3>3 DEF GoesUp
    <3> QED
      BY <1>9, <3>2, <3>3
  <2> QED
    BY <1>8, <2>1 DEF GoesUp
<1>12. \A k \in DOMAIN heads : ordered[heads[k]].level \in Int /\ w.nodes[w.stack[k]].heading_level = ordered[heads[k]].level
  <2>1. \A i \in 1..n - 1 : i \in 1..Len(ordered)
    BY <1>1 DEF InOrder
  <2>2. \A i \in 1..Len(ordered) : ordered[i].level \in Int
    BY <1>1, HeadingsAreHeadings
  <2> QED
    BY <1>2, <1>10, <2>1, <2>2 DEF StandsOn, SectionOf
<1>13. \A k \in DOMAIN heads : b.level > ordered[heads[k]].level <=> k \in 1..left
  <2>1. SUFFICES ASSUME NEW k \in DOMAIN heads PROVE b.level > ordered[heads[k]].level <=> k \in 1..left
    OBVIOUS
  <2>2. CASE k \in 1..left
    <3>1. left # 0 /\ left \in DOMAIN heads
      BY <1>3, <1>6, <2>2
    <3>2. ordered[heads[left]].level \in Int /\ ordered[heads[k]].level \in Int
      BY <1>12, <3>1
    <3>3. ~ (ordered[heads[left]].level >= b.level)
      BY <1>4, <1>12, <3>1 DEF Left
    <3>4. CASE k = left
      BY <1>1, <2>2, <3>2, <3>3, <3>4
    <3>5. CASE k # left
      <4>1. k < left
        BY <1>6, <2>2, <3>5
      <4>2. heads[k] < heads[left]
        BY <1>7, <3>1, <4>1 DEF GoesUp
      <4>3. \A i, j \in HeadingsOver(ordered, (n - 1) + 1) : i < j => ordered[i].level < ordered[j].level
        BY <1>1, HeadingsAreHeadings
      <4>4. ordered[heads[k]].level < ordered[heads[left]].level
        BY <1>1, <1>10, <3>1, <4>2, <4>3
      <4> QED
        BY <1>1, <2>2, <3>2, <3>3, <4>4
    <3> QED
      BY <3>4, <3>5
  <2>3. CASE k \notin 1..left
    <3>1. k \in left + 1..Len(w.stack)
      BY <1>3, <1>6, <2>3
    <3>2. ordered[heads[k]].level >= b.level
      BY <1>4, <1>12, <3>1 DEF Left
    <3>3. ordered[heads[k]].level \in Int
      BY <1>12
    <3> QED
      BY <1>1, <2>3, <3>2, <3>3
  <2> QED
    BY <2>2, <2>3
<1>14. ToSet(hs) = HeadingsOver(ordered, n + 1)
  <2>1. HeadingsOver(ordered, n + 1) = {i \in HeadingsOver(ordered, n) : b.level > ordered[i].level} \union {n}
    BY HeadingsChange DEF b
  <2>2. HeadingsOver(ordered, n) = {heads[k] : k \in DOMAIN heads}
    BY <1>7 DEF ToSet
  <2>3. ToSet(hs) = {hs[k] : k \in 1..left + 1}
    BY <1>8 DEF ToSet
  <2>4. ASSUME NEW i \in ToSet(hs) PROVE i \in HeadingsOver(ordered, n + 1)
    <3>1. PICK k \in 1..left + 1 : i = hs[k]
      BY <2>3
    <3> QED
      BY <1>8, <1>9, <1>10, <1>13, <2>1, <3>1
  <2>5. ASSUME NEW i \in HeadingsOver(ordered, n + 1) PROVE i \in ToSet(hs)
    <3>1. CASE i = n
      <4>1. left + 1 \in 1..left + 1
        BY <1>6
      <4> QED
        BY <1>8, <2>3, <3>1, <4>1
    <3>2. CASE i # n
      <4>1. PICK k \in DOMAIN heads : i = heads[k] /\ b.level > ordered[heads[k]].level
        BY <2>1, <2>2, <3>2
      <4>2. k \in 1..left /\ k \in 1..left + 1
        BY <1>6, <1>13, <4>1
      <4> QED
        BY <1>8, <2>3, <4>1, <4>2
    <3> QED
      BY <3>1, <3>2
  <2> QED
    BY <2>4, <2>5
<1>15. /\ \A k \in 1..left : v.stack[k] = w.stack[k] /\ v.stack[left + 1] = Len(w.nodes) + 1
       /\ Len(v.stack) = left + 1 /\ v.stack[left + 1] = Len(w.nodes) + 1
  <2> DEFINE stack == v.stack
  <2>1. stack = Append(SubSeq(w.stack, 1, left), Len(w.nodes) + 1)
    BY <1>4
  <2> HIDE DEF stack
  <2>2. \A k \in 1..left : stack[k] = w.stack[k]
    BY <1>3, <1>6, <2>1
  <2>3. Len(stack) = left + 1 /\ stack[left + 1] = Len(w.nodes) + 1
    BY <1>3, <1>6, <2>1
  <2> QED
    BY <2>2, <2>3 DEF stack
<1>16. FiledNode(ordered, node)
  <2>1. ToSet(node.blocks) = {}
    BY <1>5, NothingHolds
  <2> QED
    BY <1>5, <2>1 DEF FiledNode, Belong
<1>17. /\ AllFiled(ordered, v.nodes)
       /\ Untouched(w, v.nodes)
       /\ v.nodes[Len(w.nodes) + 1] = node
  <2>1. AllFiled(ordered, w.nodes)
    BY DEF FiledTree
  <2>2. v.nodes = Append(w.nodes, node) /\ node \in TreeNode
    BY <1>4 DEF node
  <2>3. AllFiled(ordered, Append(w.nodes, node)) /\ Untouched(w, Append(w.nodes, node))
    BY <1>16, <2>1, <2>2, AppendFiles
  <2>4. Append(w.nodes, node)[Len(w.nodes) + 1] = node
    BY <1>3
  <2> QED
    BY <2>2, <2>3, <2>4
<1>18. ASSUME NEW k \in DOMAIN hs PROVE SectionOf(ordered, hs, k, v.nodes[v.stack[k]])
  <2>1. CASE k \in 1..left
    <3>1. k \in DOMAIN heads /\ k \in DOMAIN w.stack
      BY <1>3, <1>8, <2>1
    <3>2. v.nodes[v.stack[k]] = w.nodes[w.stack[k]]
      BY <1>15, <1>17, <2>1, <3>1 DEF Untouched
    <3>3. SectionOf(ordered, heads, k, w.nodes[w.stack[k]])
      BY <1>2, <3>1 DEF StandsOn
    <3>4. \A j \in 1..k : hs[j] = heads[j]
      <4>1. \A j \in 1..k : j \in 1..left
        BY <1>6, <2>1
      <4> QED
        BY <1>8, <4>1
    <3>5. PathOf(ordered, hs, k) = PathOf(ordered, heads, k)
      BY <3>4 DEF PathOf
    <3>6. hs[k] = heads[k]
      BY <1>8, <2>1
    <3> QED
      BY <3>2, <3>3, <3>5, <3>6 DEF SectionOf
  <2>2. CASE k = left + 1
    <3>1. v.nodes[v.stack[k]] = node
      BY <1>15, <1>17, <2>2
    <3>2. PathOf(ordered, hs, left + 1) = Append(PathOf(ordered, heads, left), b.title)
      <4> DEFINE path == PathOf(ordered, heads, left)
                 title(j) == ordered[hs[j]].title
      <4>1. path = [j \in 1..left |-> title(j)]
        BY <1>8 DEF PathOf
      <4>2. title(left + 1) = b.title
        BY <1>8 DEF b
      <4>3. PathOf(ordered, hs, left + 1) = [j \in 1..left + 1 |-> title(j)]
        BY DEF PathOf
      <4> HIDE DEF path, title
      <4>4. path \in Seq({title(j) : j \in 1..left}) /\ Len(path) = left
        BY <1>6, <4>1
      <4> DEFINE longer == Append(path, b.title)
      <4>5. DOMAIN longer = 1..left + 1 /\ longer = [j \in 1..left + 1 |-> longer[j]]
        BY <1>6, <4>4
      <4>6. \A j \in 1..left + 1 : longer[j] = title(j)
        BY <1>6, <1>9, <4>1, <4>2, <4>4
      <4> HIDE DEF longer
      <4>7. longer = [j \in 1..left + 1 |-> title(j)]
        BY <4>5, <4>6
      <4> QED
        BY <4>3, <4>7 DEF longer, path
    <3> QED
      BY <1>5, <1>8, <2>2, <3>1, <3>2 DEF SectionOf, b
  <2> QED
    BY <1>8, <1>9, <2>1, <2>2
<1>19. hs # <<>>
  BY <1>6, <1>8
<1>20. StandsOn(ordered, n, v, hs)
  BY <1>4, <1>8, <1>11, <1>14, <1>15, <1>18, <1>19 DEF StandsOn
<1>21. ToSet(v.atomic_buf) = {}
  BY <1>4, NothingHolds
<1> QED
  BY <1>17, <1>20, <1>21 DEF FiledTree, v, b

LEMMA AtomicFiled ==
  ASSUME NEW ordered, InOrder(ordered), NEW n \in 1..Len(ordered), ordered[n].block_type \in ATOMIC_TYPES,
         NEW w \in TreeWork, FiledTree(ordered, n - 1, w)
  PROVE  FiledTree(ordered, n, [w EXCEPT !.atomic_buf = Append(@, ordered[n])])
<1> DEFINE b == ordered[n]
           buf == Append(w.atomic_buf, b)
           v == [w EXCEPT !.atomic_buf = buf]
<1>1. n \in Nat /\ (n - 1) + 1 = n /\ b \in Block /\ n \in 1..n /\ \A i \in 1..n - 1 : i \in 1..n
  BY DEF InOrder
<1>2. /\ v.nodes = w.nodes /\ v.stack = w.stack /\ v.saw_heading = w.saw_heading /\ v.atomic_buf = buf
      /\ v = [w EXCEPT !.atomic_buf = Append(@, b)]
  <2> HIDE DEF buf
  <2>1. v.nodes = w.nodes /\ v.stack = w.stack /\ v.saw_heading = w.saw_heading /\ v.atomic_buf = buf
    BY DEF TreeWork
  <2> QED
    BY <2>1 DEF buf
<1>3. HeadingsOver(ordered, n + 1) = HeadingsOver(ordered, n)
  <2>1. ordered[n].block_type \notin HeadingType
    BY DEF HeadingType, ATOMIC_TYPES
  <2> QED
    BY <2>1, HeadingsStay
<1> HIDE DEF v
<1>4. PICK heads : StandsOn(ordered, n - 1, w, heads)
  BY DEF FiledTree
<1>5. StandsOn(ordered, n, v, heads)
  BY <1>1, <1>2, <1>3, <1>4, StandsGoOn
<1>6. AllFiled(ordered, v.nodes)
  BY <1>2 DEF FiledTree
<1>7. ToSet(buf) = ToSet(w.atomic_buf) \union {b}
  <2>1. w.atomic_buf \in Seq(Block)
    BY WorkFields, AtomicAreBlocks
  <2> QED
    BY <1>1, <2>1, AppendHolds
<1>8. ASSUME NEW c \in ToSet(v.atomic_buf) PROVE Waits(ordered, n, c)
  <2>1. CASE c \in ToSet(w.atomic_buf)
    <3>1. PICK i \in 1..n - 1 : ordered[i] = c /\ HeadingsOver(ordered, i) = HeadingsOver(ordered, n)
      BY <1>1, <2>1 DEF FiledTree, Waits
    <3> QED
      BY <1>1, <1>3, <3>1 DEF Waits
  <2>2. CASE c = b
    BY <1>1, <1>3, <2>2 DEF Waits
  <2> QED
    BY <1>2, <1>7, <2>1, <2>2
<1>9. FiledTree(ordered, n, v)
  BY <1>5, <1>6, <1>8 DEF FiledTree
<1> QED
  BY <1>2, <1>9

\* Without a heading before it a block goes to the section of its page.
LEMMA FiledByPage ==
  ASSUME NEW ordered, InOrder(ordered), NEW n \in 1..Len(ordered), HeadingsOver(ordered, n) = {},
         ordered[n].block_type \notin ATOMIC_TYPES \union {"REFERENCE"}
  PROVE  FiledUnder(ordered, <<"virtual", ordered[n].page>>, ordered[n])
<1>1. n \in DOMAIN ordered
  BY DEF InOrder
<1>2. (CHOOSE i \in DOMAIN ordered : ordered[i] = ordered[n]) = n
  BY <1>1, InPlace
<1> QED
  BY <1>2 DEF FiledUnder

LEMMA BodyFiled ==
  ASSUME NEW ordered, InOrder(ordered), NEW n \in 1..Len(ordered),
         ordered[n].block_type \notin {"HEADER_FOOTER", "REFERENCE"} \union HeadingType \union ATOMIC_TYPES,
         NEW w \in TreeWork, FiledTree(ordered, n - 1, w), w.atomic_buf = <<>>
  PROVE  FiledTree(ordered, n, AddBody(w, ordered[n]))
<1> DEFINE b == ordered[n]
           v == AddBody(w, b)
<1>1. n \in Nat /\ (n - 1) + 1 = n /\ b \in Block /\ b.page \in Nat
  <2>1. n \in Nat /\ (n - 1) + 1 = n /\ b \in Block
    BY DEF InOrder
  <2> QED
    BY <2>1, BlockFields
<1>2. HeadingsOver(ordered, n + 1) = HeadingsOver(ordered, n)
  BY HeadingsStay
<1>3. PICK heads : StandsOn(ordered, n - 1, w, heads)
  BY DEF FiledTree
<1>4. /\ DOMAIN heads = 1..Len(heads) /\ Len(heads) \in Nat /\ DOMAIN w.stack = 1..Len(heads)
      /\ Len(w.stack) = Len(heads) /\ w.nodes \in Seq(TreeNode)
      /\ \A k \in 1..Len(heads) : w.stack[k] \in DOMAIN w.nodes
  BY <1>3, StackIs
<1>5. heads \in Seq(Nat) /\ GoesUp(heads) /\ ToSet(heads) = HeadingsOver(ordered, n) /\ (w.saw_heading <=> heads # <<>>)
  BY <1>1, <1>3 DEF StandsOn
<1>6. AllFiled(ordered, w.nodes)
  BY DEF FiledTree
<1>7. ~w.saw_heading => FiledUnder(ordered, <<"virtual", b.page>>, b)
  <2>1. ~w.saw_heading => HeadingsOver(ordered, n) = {}
    BY <1>5, NothingHolds
  <2> QED
    BY <2>1, FiledByPage
<1>8. ASSUME v.stack = w.stack, v.saw_heading = w.saw_heading, v.atomic_buf = w.atomic_buf, AllFiled(ordered, v.nodes),
             \A k \in DOMAIN w.stack : /\ v.nodes[w.stack[k]].heading_level = w.nodes[w.stack[k]].heading_level
                                       /\ v.nodes[w.stack[k]].page_from = w.nodes[w.stack[k]].page_from
                                       /\ v.nodes[w.stack[k]].structure_path = w.nodes[w.stack[k]].structure_path
      PROVE  FiledTree(ordered, n, v)
  <2> HIDE DEF v
  <2>1. StandsOn(ordered, n, v, heads)
    BY <1>1, <1>2, <1>3, <1>8, StandsGoOn
  <2>2. ToSet(v.atomic_buf) = {}
    BY <1>8, NothingHolds
  <2> QED
    BY <1>8, <2>1, <2>2 DEF FiledTree
<1>9. ASSUME NEW m \in DOMAIN w.nodes, v = Added(w, m, b),
             w.saw_heading => w.stack # <<>> /\ m = w.stack[Len(w.stack)] /\ w.nodes[m].kind = "SECTION",
             ~w.saw_heading => w.nodes[m].kind = "VIRTUAL_SECTION" /\ w.nodes[m].page_from = b.page
      PROVE  FiledTree(ordered, n, v)
  <2> DEFINE node == w.nodes[m]
             fuller == Fuller(node, b)
             nodes == [w.nodes EXCEPT ![m] = fuller]
  <2>1. node \in TreeNode /\ FiledNode(ordered, node)
    BY <1>4, <1>6 DEF AllFiled
  <2>2. FiledUnder(ordered, node.structure_path, b) /\ node.page_from <= b.page
    <3>1. CASE w.saw_heading
      <4> DEFINE last == Len(heads)
      <4>1. last \in DOMAIN heads /\ m = w.stack[last] /\ heads # <<>>
        BY <1>4, <1>5, <1>9, <3>1
      <4>2. SectionOf(ordered, heads, last, node)
        BY <1>3, <4>1 DEF StandsOn
      <4>3. /\ FiledUnder(ordered, PathOf(ordered, heads, Len(heads)), ordered[n])
            /\ \A k \in DOMAIN heads : ordered[heads[k]].page <= ordered[n].page
        BY <1>5, <4>1, FiledUnderHeads
      <4> QED
        BY <4>1, <4>2, <4>3 DEF SectionOf
    <3>2. CASE ~w.saw_heading
      <4>1. node.structure_path = <<"virtual", b.page>> /\ node.page_from = b.page
        BY <1>9, <2>1, <3>2 DEF FiledNode
      <4> QED
        BY <1>1, <1>7, <3>2, <4>1
    <3> QED
      BY <3>1, <3>2
  <2> HIDE DEF node, b
  <2>3. /\ FiledNode(ordered, fuller)
        /\ fuller.heading_level = node.heading_level /\ fuller.page_from = node.page_from
        /\ fuller.structure_path = node.structure_path
    BY <1>1, <2>1, <2>2, FullerFiled
  <2> HIDE DEF fuller
  <2>4. /\ DOMAIN nodes = DOMAIN w.nodes /\ nodes[m] = fuller
        /\ \A i \in DOMAIN w.nodes : i # m => nodes[i] = w.nodes[i]
    BY <1>4
  <2>5. /\ v.nodes = nodes /\ v.stack = w.stack /\ v.saw_heading = w.saw_heading /\ v.atomic_buf = w.atomic_buf
    <3>1. /\ SameButNodes(Added(w, m, b), w) /\ Added(w, m, b).atomic_buf = w.atomic_buf
          /\ Added(w, m, b).nodes = [w.nodes EXCEPT ![m] = Fuller(w.nodes[m], b)]
      BY <1>1, AddedIs
    <3> HIDE DEF v
    <3> QED
      BY <1>9, <3>1 DEF SameButNodes, fuller, node
  <2> HIDE DEF nodes, v
  <2>6. AllFiled(ordered, v.nodes)
    BY <1>6, <2>3, <2>4, <2>5 DEF AllFiled
  <2>7. \A k \in DOMAIN w.stack : /\ v.nodes[w.stack[k]].heading_level = w.nodes[w.stack[k]].heading_level
                                  /\ v.nodes[w.stack[k]].page_from = w.nodes[w.stack[k]].page_from
                                  /\ v.nodes[w.stack[k]].structure_path = w.nodes[w.stack[k]].structure_path
    BY <1>4, <2>3, <2>4, <2>5 DEF node
  <2> QED
    BY <1>8, <2>5, <2>6, <2>7
<1>10. ASSUME ~w.saw_heading, PageNode(b) \in TreeNode, SameButNodes(v, w), v.atomic_buf = w.atomic_buf,
              v.nodes = Append(w.nodes, PageNode(b))
       PROVE  FiledTree(ordered, n, v)
  <2> DEFINE node == PageNode(b)
  <2>1. /\ node.structure_path = <<"virtual", b.page>> /\ node.blocks = <<b>> /\ node.page_from = b.page
        /\ node.page_to = b.page
    <3>1. Min({b.page}) = b.page /\ Max({b.page}) = b.page
      BY <1>1, OnePage
    <3> QED
      BY <3>1 DEF PageNode, Node
  <2> HIDE DEF node, v
  <2>2. ToSet(node.blocks) = {b}
    BY <2>1, OneHoldsItself
  <2>3. Belong(ordered, node)
    BY <1>1, <1>7, <1>10, <2>1, <2>2 DEF Belong
  <2>4. FiledNode(ordered, node)
    BY <2>1, <2>3 DEF FiledNode
  <2>5. AllFiled(ordered, Append(w.nodes, node)) /\ Untouched(w, Append(w.nodes, node))
    BY <1>6, <1>10, <2>4, AppendFiles DEF node
  <2>6. v.nodes = Append(w.nodes, node) /\ v.stack = w.stack /\ v.saw_heading = w.saw_heading
    BY <1>10 DEF SameButNodes, node
  <2>7. \A k \in DOMAIN w.stack : v.nodes[w.stack[k]] = w.nodes[w.stack[k]]
    BY <2>5, <2>6 DEF Untouched
  <2> QED
    BY <1>8, <1>10, <2>5, <2>6, <2>7
<1>11. v = AddBody(w, b)
  OBVIOUS
<1> HIDE DEF v
<1>12. FiledTree(ordered, n, v)
  BY <1>1, <1>9, <1>10, <1>11, AddBodyIs
<1> QED
  BY <1>12 DEF v

LEMMA VisitFiled ==
  ASSUME NEW ordered, InOrder(ordered), NEW n \in 1..Len(ordered), NEW w \in TreeWork, FiledTree(ordered, n - 1, w)
  PROVE  FiledTree(ordered, n, Visit(w, ordered[n]))
<1> DEFINE b == ordered[n]
           v == Visit(w, b)
           f == flush_atomic(w)
<1>1. n - 1 \in 0..Len(ordered) /\ b \in Block /\ (n - 1) + 1 = n
  BY DEF InOrder
<1>2. f \in TreeWork /\ f.atomic_buf = <<>> /\ FiledTree(ordered, n - 1, f)
  BY <1>1, FlushTyped, FlushIs, FlushFiled
<1> HIDE DEF f
<1>3. ASSUME v.nodes = f.nodes, v.stack = f.stack, v.saw_heading = f.saw_heading, v.atomic_buf = f.atomic_buf,
             b.block_type \notin HeadingType
      PROVE  FiledTree(ordered, n, v)
  <2>1. HeadingsOver(ordered, n + 1) = HeadingsOver(ordered, n)
    BY <1>3, HeadingsStay
  <2> HIDE DEF v
  <2>2. PICK heads : StandsOn(ordered, n - 1, f, heads)
    BY <1>2 DEF FiledTree
  <2>3. StandsOn(ordered, n, v, heads)
    BY <1>1, <1>2, <1>3, <2>1, <2>2, StandsGoOn
  <2>4. ToSet(v.atomic_buf) = {}
    BY <1>2, <1>3, NothingHolds
  <2> QED
    BY <1>2, <1>3, <2>3, <2>4 DEF FiledTree
<1>4. CASE b.block_type = "HEADER_FOOTER" /\ v = [f EXCEPT !.header_footer = Append(@, b)]
  <2>1. v.nodes = f.nodes /\ v.stack = f.stack /\ v.saw_heading = f.saw_heading /\ v.atomic_buf = f.atomic_buf
    <3> HIDE DEF v
    <3> QED
      BY <1>2, <1>4 DEF TreeWork
  <2>2. b.block_type \notin HeadingType
    BY <1>4 DEF HeadingType
  <2> QED
    BY <1>3, <2>1, <2>2
<1>5. CASE b.block_type = "REFERENCE" /\ v = [f EXCEPT !.references = Append(@, b)]
  <2>1. v.nodes = f.nodes /\ v.stack = f.stack /\ v.saw_heading = f.saw_heading /\ v.atomic_buf = f.atomic_buf
    <3> HIDE DEF v
    <3> QED
      BY <1>2, <1>5 DEF TreeWork
  <2>2. b.block_type \notin HeadingType
    BY <1>5 DEF HeadingType
  <2> QED
    BY <1>3, <2>1, <2>2
<1>6. CASE b.block_type \in HeadingType /\ v = OpenSection(f, b)
  BY <1>2, <1>6, HeadingFiled
<1>7. CASE b.block_type \in ATOMIC_TYPES /\ v = [w EXCEPT !.atomic_buf = Append(@, b)]
  BY <1>7, AtomicFiled
<1>8. CASE /\ b.block_type \notin {"HEADER_FOOTER", "REFERENCE"} \union HeadingType \union ATOMIC_TYPES
           /\ v = AddBody(f, b)
  BY <1>2, <1>8, BodyFiled
<1> QED
  BY <1>1, <1>4, <1>5, <1>6, <1>7, <1>8, VisitIs DEF f

LEMMA StartedFiled ==
  ASSUME NEW ordered, InOrder(ordered)
  PROVE  FiledTree(ordered, 0, Started)
<1>1. Started.nodes = <<>> /\ Started.stack = <<>> /\ ~Started.saw_heading /\ Started.atomic_buf = <<>>
  BY DEF Started
<1>2. HeadingsOver(ordered, 0 + 1) = {}
  BY DEF HeadingsOver
<1>3. DOMAIN <<>> = {} /\ <<>> \in Seq(Nat) /\ Len(<<>>) = 0
  OBVIOUS
<1>4. StandsOn(ordered, 0, Started, <<>>)
  BY <1>1, <1>2, <1>3, NothingHolds DEF StandsOn, GoesUp
<1> QED
  BY <1>1, <1>3, <1>4, NothingHolds DEF FiledTree, AllFiled

LEMMA TreeOfFiled ==
  ASSUME NEW ordered, InOrder(ordered), NEW w \in TreeWork, FiledTree(ordered, Len(ordered), w),
         \A b \in ToSet(w.references) : b \in ToSet(ordered) /\ b.block_type = "REFERENCE"
  PROVE  \A m \in DOMAIN TreeOf(flush_atomic(w)) : Belong(ordered, TreeOf(flush_atomic(w))[m])
<1> DEFINE f == flush_atomic(w)
           tree == TreeOf(f)
<1>1. f \in TreeWork /\ f.references = w.references
  BY FlushTyped, FlushIs DEF SameButNodes
<1>2. FiledTree(ordered, Len(ordered), f)
  <2>1. Len(ordered) \in 0..Len(ordered)
    BY DEF InOrder
  <2> QED
    BY <2>1, FlushFiled
<1> HIDE DEF f
<1>3. AllFiled(ordered, f.nodes) /\ f.nodes \in Seq(TreeNode) /\ f.references \in Seq(Block)
  BY <1>1, <1>2, WorkFields DEF FiledTree
<1>4. CASE f.references = <<>>
  <2>1. TreeOf(f) = f.nodes
    BY <1>4 DEF TreeOf
  <2> QED
    BY <1>3, <2>1 DEF AllFiled, FiledNode, f
<1>5. CASE f.references # <<>>
  <2> DEFINE node == Node("REFERENCES", <<"references">>, 0, f.references, PagesOf(f.references))
  <2>1. tree = Append(f.nodes, node) /\ tree \in Seq(TreeNode)
    BY <1>1, <1>5, TreeOfTyped DEF TreeOf
  <2>2. /\ node.blocks = f.references /\ node.structure_path = <<"references">>
        /\ node.page_from = Min(PagesOf(f.references)) /\ node.page_to = Max(PagesOf(f.references))
        /\ node.kind = "REFERENCES"
    BY DEF Node
  <2> HIDE DEF node, tree
  <2>3. Len(f.nodes) + 1 \in DOMAIN tree /\ tree[Len(f.nodes) + 1] = node
    BY <1>3, <2>1
  <2>4. node \in TreeNode
    BY <2>1, <2>3
  <2>5. ASSUME NEW b \in ToSet(f.references) PROVE FiledUnder(ordered, <<"references">>, b)
    <3>1. b.block_type = "REFERENCE"
      BY <1>1
    <3> QED
      BY <3>1 DEF FiledUnder
  <2>6. Belong(ordered, node)
    BY <1>3, <2>2, <2>5, PagesCover DEF Belong
  <2>7. FiledNode(ordered, node)
    BY <2>2, <2>6 DEF FiledNode
  <2>8. AllFiled(ordered, tree)
    BY <1>1, <1>3, <2>1, <2>4, <2>7, AppendFiles
  <2> QED
    BY <2>8 DEF AllFiled, FiledNode, tree, f
<1> QED
  BY <1>4, <1>5

\* The tree holds every block of the body once, where it belongs.
LEMMA TreeTells ==
  ASSUME NEW blocks \in Seq(Block), Distinct(blocks)
  PROVE  /\ Once(BlocksOf(build_document_tree(blocks)), {b \in ToSet(blocks) : InBody(b)})
         /\ \A m \in DOMAIN build_document_tree(blocks) : Belong(Ordered(blocks), build_document_tree(blocks)[m])
<1> DEFINE ordered == Ordered(blocks)
           N == Len(ordered)
<1>1. InOrder(ordered) /\ ToSet(ordered) = ToSet(blocks)
  BY OrderedInOrder
<1>2. PICK f \in [0..N -> TreeWork] :
           /\ f[0] = Started /\ \A n \in 1..N : f[n] = Visit(f[n - 1], ordered[n])
           /\ build_document_tree(blocks) = TreeOf(flush_atomic(f[N]))
  BY TreeRun
<1> HIDE DEF ordered
<1>3. N \in Nat /\ ordered \in Seq(Block) /\ DOMAIN ordered = 1..N /\ Distinct(ordered) /\ \A n \in 1..N : ordered[n] \in Block
  BY <1>1 DEF InOrder
<1> DEFINE Body(n) == {ordered[i] : i \in {j \in 1..n : Stays(ordered[j])}}
           Refs(n) == {ordered[i] : i \in {j \in 1..n : ordered[j].block_type = "REFERENCE"}}
           Good(n) == KeptOnce(f[n], Body(n), Refs(n)) /\ FiledTree(ordered, n, f[n])
           S == {n \in 0..N : Good(n)}
<1>4. Good(0)
  <2>1. Body(0) = {} /\ Refs(0) = {}
    OBVIOUS
  <2> HIDE DEF Body, Refs, N
  <2> QED
    BY <1>1, <1>2, <2>1, StartedKept, StartedFiled
<1>5. ASSUME NEW n \in 1..N, Good(n - 1) PROVE Good(n)
  <2> DEFINE b == ordered[n]
  <2>1. n - 1 \in 0..N /\ b \in Block /\ n \in Nat /\ f[n - 1] \in TreeWork /\ f[n] = Visit(f[n - 1], b)
    BY <1>2, <1>3
  <2>2. \A i \in 1..n : i = n \/ i \in 1..n - 1
    BY <2>1
  <2>3. \A i \in 1..n - 1 : i \in 1..n /\ i \in 1..N /\ n \in 1..n /\ i # n
    BY <1>3, <2>1
  <2>4. b \notin Body(n - 1) /\ b \notin Refs(n - 1)
    BY <1>3, <2>3 DEF Distinct
  <2>5. Body(n) = IF Stays(b) THEN Body(n - 1) \union {b} ELSE Body(n - 1)
    <3>1. n \in 1..n
      BY <2>1
    <3> QED
      BY <2>2, <2>3, <3>1
  <2>6. Refs(n) = IF b.block_type = "REFERENCE" THEN Refs(n - 1) \union {b} ELSE Refs(n - 1)
    <3>1. n \in 1..n
      BY <2>1
    <3> QED
      BY <2>2, <2>3, <3>1
  <2> HIDE DEF Body, Refs
  <2>7. KeptOnce(f[n], Body(n), Refs(n))
    <3> HIDE DEF b
    <3>1. KeptOnce(f[n - 1], Body(n - 1), Refs(n - 1))
      BY <1>5
    <3> QED
      BY <2>1, <2>4, <2>5, <2>6, <3>1, VisitKept
  <2>8. FiledTree(ordered, n, f[n])
    BY <1>1, <1>5, <2>1, VisitFiled
  <2> QED
    BY <2>7, <2>8
<1>6. Good(N)
  <2> HIDE DEF Good
  <2>1. 0 \in S /\ \A n \in 1..N : n - 1 \in S => n \in S
    <3>1. \A n \in 1..N : n \in 0..N
      BY <1>3
    <3> QED
      BY <1>3, <1>4, <1>5, <3>1
  <2> HIDE DEF S
  <2>2. \A n \in 0..N : n \in S
    BY <1>3, <2>1, OneAfterTheOther
  <2> QED
    BY <1>3, <2>2 DEF S
<1>7. f[N] \in TreeWork
  BY <1>2, <1>3
<1>8. Body(N) \intersect Refs(N) = {} /\ Body(N) \union Refs(N) = {b \in ToSet(blocks) : InBody(b)}
  <2>1. ToSet(blocks) = {ordered[i] : i \in 1..N}
    BY <1>1, <1>3 DEF ToSet
  <2>2. \A b \in Block : Stays(b) => b.block_type # "REFERENCE"
    BY DEF Stays
  <2>3. \A b \in Block : InBody(b) <=> Stays(b) \/ b.block_type = "REFERENCE"
    BY DEF Stays, InBody, HeadingType
  <2> HIDE DEF N
  <2> QED
    BY <1>3, <2>1, <2>2, <2>3
<1>9. \A b \in ToSet(f[N].references) : b \in ToSet(ordered) /\ b.block_type = "REFERENCE"
  <2>1. ToSet(f[N].references) = Refs(N)
    BY <1>6 DEF KeptOnce
  <2>2. ToSet(ordered) = {ordered[i] : i \in 1..N}
    BY <1>3 DEF ToSet
  <2> QED
    BY <2>1, <2>2
<1>10. Once(BlocksOf(build_document_tree(blocks)), {b \in ToSet(blocks) : InBody(b)})
  <2> HIDE DEF Body, Refs, N
  <2>1. Once(BlocksOf(TreeOf(flush_atomic(f[N]))), Body(N) \union Refs(N))
    BY <1>6, <1>7, <1>8, TreeOfKept
  <2> QED
    BY <1>2, <1>8, <2>1
<1>11. \A m \in DOMAIN build_document_tree(blocks) : Belong(ordered, build_document_tree(blocks)[m])
  <2> HIDE DEF Body, Refs
  <2>1. \A m \in DOMAIN TreeOf(flush_atomic(f[N])) : Belong(ordered, TreeOf(flush_atomic(f[N]))[m])
    BY <1>1, <1>6, <1>7, <1>9, TreeOfFiled
  <2> QED
    BY <1>2, <2>1
<1> QED
  BY <1>10, <1>11 DEF ordered

-----------------------------------------------------------------------------
(* What was built *)

ChunkInv ==
  /\ document \in Documents \union {<<>>}
  /\ built.step \in {"none", "tree", "parents", "children"}
  /\ built.step = "tree" => built.tree \in Seq(TreeNode)
  /\ built.step \in {"parents", "children"} => built.parents \in Seq(Parent)
  /\ built.step = "children" => built.children \in [DOMAIN built.parents -> Seq(Child)]

LEMMA ChunkInvInit == ChunkInit => ChunkInv
BY DEF ChunkInit, ChunkInv, Nothing

LEMMA ChunkInvStep == ChunkInv /\ [ChunkNext]_chunkVars => ChunkInv'
<1> SUFFICES ASSUME ChunkInv, [ChunkNext]_chunkVars PROVE ChunkInv'
  OBVIOUS
<1>1. CASE UNCHANGED chunkVars
  BY <1>1 DEF chunkVars, ChunkInv
<1>2. CASE Receive
  BY <1>2 DEF Receive, ChunkInv
<1>3. CASE BuildTree
  <2>1. document \in Seq(Block)
    BY <1>3, ChunkingConfig DEF BuildTree, ChunkInv
  <2>2. build_document_tree(document) \in Seq(TreeNode)
    <3> DEFINE ordered == Ordered(document)
    <3>1. ordered \in Seq(Block)
      BY <2>1, OrderedTyped
    <3> HIDE DEF ordered
    <3>2. PICK f \in [0..Len(ordered) -> TreeWork] :
            build_document_tree(document) = TreeOf(flush_atomic(f[Len(ordered)]))
      BY <2>1, TreeRun DEF ordered
    <3>3. Len(ordered) \in 0..Len(ordered)
      BY <3>1
    <3> QED
      BY <3>2, <3>3, FlushTyped, TreeOfTyped
  <2> QED
    BY <1>3, <2>2 DEF BuildTree, ChunkInv
<1>4. CASE CreateParents
  <2>1. create_parent_chunks(built.tree) \in Seq(Parent)
    BY <1>4, ParentsTyped DEF CreateParents, ChunkInv
  <2> QED
    BY <1>4, <2>1 DEF CreateParents, ChunkInv
<1>5. CASE CreateChildren
  <2>1. built.parents \in Seq(Parent)
    BY <1>5 DEF CreateChildren, ChunkInv
  <2>2. create_child_chunks(built.parents) \in [DOMAIN built.parents -> Seq(Child)]
    <3>1. \A p \in DOMAIN built.parents : chunk_children(built.parents[p]) \in Seq(Child)
      BY <2>1, ChildrenTyped
    <3> QED
      BY <3>1 DEF create_child_chunks
  <2> QED
    BY <1>5, <2>1, <2>2 DEF CreateChildren, ChunkInv
<1> QED
  BY <1>1, <1>2, <1>3, <1>4, <1>5 DEF ChunkNext

\* However a document is built: a parent exceeds its limit only when it cannot be divided, and
\* so does a child, but for its overlap (split_groups, _chunk_children, build).
THEOREM ChunksStayBounded == ChunkSpec => []ChunksAreBounded
<1>1. ChunkInv => ChunksAreBounded
  <2> SUFFICES ASSUME ChunkInv, built.step = "children", NEW p \in DOMAIN built.parents
               PROVE  LET parent == built.parents[p]
                          Atomic(blocks) == \A b \in ToSet(blocks) : b.block_type \in ATOMIC_TYPES
                      IN  /\ parent.token_count <= parent_max_tokens \/ Len(parent.blocks) = 1 \/ Atomic(parent.blocks)
                          /\ \A i \in DOMAIN built.children[p] :
                               LET child == built.children[p][i]
                                   added == IF child.overlap = <<>> THEN 0 ELSE overlap_tokens
                               IN  \/ child.token_count <= child_max_tokens + added
                                   \/ Len(child.own) = 1
                                   \/ Len(child.blocks) = 1 /\ Atomic(child.blocks)
    BY DEF ChunksAreBounded
  <2> DEFINE Atomic(blocks) == \A b \in ToSet(blocks) : b.block_type \in ATOMIC_TYPES
  <2>1. \A blocks \in Seq(AtomicBlock) : Atomic(blocks)
    BY DEF ToSet, AtomicBlock
  <2> HIDE DEF Atomic
  <2>2. built.parents[p] \in Parent /\ built.children[p] \in Seq(Child)
    BY DEF ChunkInv
  <2>3. LET parent == built.parents[p]
        IN  parent.token_count <= parent_max_tokens \/ Len(parent.blocks) = 1 \/ Atomic(parent.blocks)
    BY <2>1, <2>2 DEF Parent
  <2>4. ASSUME NEW child \in Child
        PROVE  \/ child.token_count <= child_max_tokens + IF child.overlap = <<>> THEN 0 ELSE overlap_tokens
               \/ Len(child.own) = 1
               \/ Len(child.blocks) = 1 /\ Atomic(child.blocks)
    <3>1. /\ child.token_count \in Nat /\ overlap_tokens \in Nat /\ child_max_tokens \in Nat
          /\ WithinLimit(child.blocks, child.own,
                         child.token_count - IF child.overlap = <<>> THEN 0 ELSE overlap_tokens)
      BY ChunkingConfig DEF Child
    <3> QED
      BY <2>1, <3>1 DEF WithinLimit
  <2>5. \A i \in DOMAIN built.children[p] : built.children[p][i] \in Child
    BY <2>2
  <2> QED
    BY <2>3, <2>4, <2>5 DEF Atomic
<1> QED
  BY <1>1, ChunkInvInit, ChunkInvStep, PTL DEF ChunkSpec

-----------------------------------------------------------------------------
(* Every block is indexed *)

\* The blocks of the body, and what is said of them of a tree or of the parents.
Body(blocks) == {b \in ToSet(blocks) : InBody(b)}

HoldsBody(nodes, blocks) ==
  /\ Once(BlocksOf(nodes), Body(blocks))
  /\ \A m \in DOMAIN nodes : Belong(Ordered(blocks), nodes[m])

IndexInv ==
  /\ built.step # "none" => document # <<>>
  /\ built.step = "tree" => HoldsBody(built.tree, document)
  /\ built.step \in {"parents", "children"} => HoldsBody(built.parents, document)
  /\ built.step = "children" => \A p \in DOMAIN built.parents :
                                  Tells(built.children[p], TextOfAll(built.parents[p].blocks))

LEMMA DocumentsAreDistinct ==
  ASSUME NEW blocks \in Documents
  PROVE  blocks \in Seq(Block) /\ Distinct(blocks)
BY ChunkingConfig DEF Distinct

\* Where a block belongs in the tree it belongs among the parents.
LEMMA ParentsHold ==
  ASSUME NEW tree \in Seq(TreeNode), NEW blocks, HoldsBody(tree, blocks)
  PROVE  HoldsBody(create_parent_chunks(tree), blocks)
<1> DEFINE parents == create_parent_chunks(tree)
           ordered == Ordered(blocks)
<1>1. /\ Once(BlocksOf(parents), Body(blocks))
      /\ \A p \in DOMAIN parents : \E n \in DOMAIN tree : MadeOf(parents[p], tree[n])
  BY ParentsOnce DEF HoldsBody
<1>2. \A n \in DOMAIN tree : Belong(ordered, tree[n])
  BY DEF HoldsBody
<1> HIDE DEF parents, ordered
<1>3. ASSUME NEW p \in DOMAIN parents PROVE Belong(ordered, parents[p])
  <2>1. PICK n \in DOMAIN tree : MadeOf(parents[p], tree[n])
    BY <1>1
  <2> QED
    BY <1>2, <2>1 DEF MadeOf, Belong
<1> QED
  BY <1>1, <1>3 DEF HoldsBody, parents, ordered

LEMMA IndexInvStep == ChunkInv /\ IndexInv /\ [ChunkNext]_chunkVars => IndexInv'
<1> SUFFICES ASSUME ChunkInv, IndexInv, [ChunkNext]_chunkVars PROVE IndexInv'
  OBVIOUS
<1>1. CASE UNCHANGED chunkVars
  BY <1>1 DEF chunkVars, IndexInv
<1>2. CASE Receive
  <2>1. document = <<>> /\ document' \in Documents /\ built' = built
    BY <1>2 DEF Receive
  <2>2. CASE built.step = "none"
    BY <2>1, <2>2 DEF IndexInv
  <2>3. CASE built.step # "none"
    BY <2>1, <2>3 DEF IndexInv
  <2> QED
    BY <2>2, <2>3
<1>3. CASE BuildTree
  <2>1. document \in Documents /\ document # <<>> /\ document' = document
        /\ built' = [step |-> "tree", tree |-> build_document_tree(document)]
    BY <1>3 DEF BuildTree, ChunkInv
  <2>2. HoldsBody(build_document_tree(document), document)
    BY <2>1, DocumentsAreDistinct, TreeTells DEF HoldsBody, Body
  <2> QED
    BY <2>1, <2>2 DEF IndexInv
<1>4. CASE CreateParents
  <2>1. built.step = "tree" /\ document' = document
        /\ built' = [step |-> "parents", parents |-> create_parent_chunks(built.tree)]
    BY <1>4 DEF CreateParents
  <2>2. HoldsBody(create_parent_chunks(built.tree), document)
    BY <2>1, ParentsHold DEF ChunkInv, IndexInv
  <2> QED
    BY <2>1, <2>2 DEF IndexInv
<1>5. CASE CreateChildren
  <2>1. built.step = "parents" /\ document' = document
        /\ built' = [step |-> "children", parents |-> built.parents, children |-> create_child_chunks(built.parents)]
    BY <1>5 DEF CreateChildren
  <2>2. \A p \in DOMAIN built.parents :
          Tells(create_child_chunks(built.parents)[p], TextOfAll(built.parents[p].blocks))
    <3>1. \A p \in DOMAIN built.parents : built.parents[p] \in Parent
      BY <2>1 DEF ChunkInv
    <3> QED
      BY <3>1, ChildrenTell DEF create_child_chunks
  <2> QED
    BY <2>1, <2>2 DEF IndexInv
<1> QED
  BY <1>1, <1>2, <1>3, <1>4, <1>5 DEF ChunkNext

\* However a document is built, of blocks that are told apart by their ids: every block of its
\* body is in one parent, which stands under the headings of the block and covers its page, and
\* its sentences are in the children of that parent once each and in order
\* (build_document_tree, create_parent_chunks, create_child_chunks).
THEOREM BlocksAreIndexed == ChunkSpec => []EveryBlockIsIndexed
<1>1. ChunkInit => IndexInv
  BY DEF ChunkInit, IndexInv, Nothing
<1>2. ChunkInv /\ IndexInv => EveryBlockIsIndexed
  <2> SUFFICES ASSUME ChunkInv, IndexInv, built.step = "children" PROVE EveryBlockIsIndexed
    BY DEF EveryBlockIsIndexed
  <2> DEFINE parents == built.parents
             ordered == Ordered(document)
             Own(p) == FlattenSeq([i \in DOMAIN built.children[p] |-> built.children[p][i].own])
  <2>1. /\ Once(BlocksOf(parents), Body(document)) /\ \A p \in DOMAIN parents : Belong(ordered, parents[p])
        /\ \A p \in DOMAIN parents : Tells(built.children[p], TextOfAll(parents[p].blocks))
    BY DEF IndexInv, HoldsBody
  <2>2. ASSUME NEW b \in ToSet(document)
        PROVE  Cardinality({p \in DOMAIN parents : b \in ToSet(parents[p].blocks)}) = IF InBody(b) THEN 1 ELSE 0
    <3>1. Cardinality({p \in DOMAIN parents : b \in ToSet(parents[p].blocks)}) = IF b \in Body(document) THEN 1 ELSE 0
      BY <2>1, OneHolds
    <3>2. b \in Body(document) <=> InBody(b)
      BY DEF Body
    <3> QED
      BY <3>1, <3>2
  <2>3. ASSUME NEW p \in DOMAIN parents
        PROVE  /\ Own(p) = TextOfAll(parents[p].blocks)
               /\ \A b \in ToSet(parents[p].blocks) :
                    /\ FiledUnder(ordered, parents[p].structure_path, b)
                    /\ b.page \in parents[p].page_from..parents[p].page_to
               /\ \A i \in DOMAIN built.children[p] :
                    LET child == built.children[p][i]
                    IN  {piece[1] : piece \in ToSet(child.own)} = {b.id : b \in ToSet(child.blocks)}
    BY <2>1 DEF Tells, OwnOf, IdsOf, IdsIn, Belong
  <2> QED
    BY <2>2, <2>3 DEF EveryBlockIsIndexed
<1> QED
  BY <1>1, <1>2, ChunkInvInit, ChunkInvStep, IndexInvStep, PTL DEF ChunkSpec
=============================================================================
