------------------------ MODULE FinalSynthesisProofs ------------------------
(* Theorems about FinalSynthesis, for any number of executions and for any    *)
(* materials, outputs and support catalog.                                    *)
(*                                                                           *)
(* The digest of a commit covers its decision, so an execution whose commit   *)
(* was a replay answers the decision of the row, and the row never changes.   *)
(* What the row is worth follows from the validation of its candidate alone.  *)
EXTENDS FinalSynthesis, SequenceTheorems, WellFoundedInduction, TLAPS

\* What an execution holds between two awaits.
Holds(x) ==
  /\ exec[x].pc \in {"idle", "generating", "committing"} => exec[x].disposition = "none"
  /\ exec[x].pc = "generating" =>
       exec[x].materials \in DOMAIN Materials /\ exec[x].attempts \in 1..MaxAttempts
  /\ exec[x].pc \in {"committing", "answering"} =>
       CommitOf(exec[x]) \in Commits /\ exec[x].verdict = "ACCEPT"

\* What an execution knows of the row once its transaction is over.
KnowsRow(x) ==
  exec[x].pc = "answering" =>
    /\ exec[x].disposition \in Disposition /\ row # NoRow
    /\ exec[x].disposition # "CONFLICT" => Decision[row] = Decision[CommitOf(exec[x])]

IInv == TypeOK /\ \A x \in Exec : Holds(x) /\ KnowsRow(x)

-----------------------------------------------------------------------------
(* Digests and decisions. *)

\* Commits with one digest have one decision.
LEMMA DigestCoversDecision ==
  ASSUME NEW k \in Commits, NEW l \in Commits,
         Built(k).result_commit_digest = Built(l).result_commit_digest
  PROVE  Decision[k] = Decision[l]
<1>1. ASSUME NEW m, NEW c
      PROVE  build_task_result_commit(m, c).result_commit_digest = compute_commit_digest(m, c)
  BY DEF build_task_result_commit
<1>2. ASSUME NEW m, NEW c
      PROVE  compute_commit_digest(m, c).decision = decide_completion(m, c)
  BY DEF compute_commit_digest
<1>3. ASSUME NEW j \in Commits
      PROVE  Built(j).result_commit_digest.decision = Decision[j]
  BY <1>1, <1>2 DEF Built, Decision
<1> QED
  BY <1>3

\* An accepted candidate that does not raise is a commit.
LEMMA AcceptedIsCommit ==
  ASSUME NEW m \in DOMAIN Materials, NEW c \in DOMAIN Outputs, WellFormedOutput(Outputs[c]),
         Validation[m][c] = "ACCEPT", ~Raises(Materials[m], CandidateOf(m, c))
  PROVE  [materials |-> m, candidate |-> c] \in Commits
<1> DEFINE k == [materials |-> m, candidate |-> c]
<1>1. k \in [materials : DOMAIN Materials, candidate : DOMAIN Outputs]
  OBVIOUS
<1>2. k.materials = m /\ k.candidate = c
  OBVIOUS
<1> HIDE DEF k
<1>3. k \in Commits
  BY <1>1, <1>2 DEF Commits
<1> QED
  BY <1>3 DEF k

-----------------------------------------------------------------------------
(* The invariant. *)

\* The steps of one execution that leave the row alone.
LEMMA ExecutionMoves ==
  ASSUME IInv, NEW x \in Exec, NEW e \in Execution,
         exec' = [exec EXCEPT ![x] = e], row' = row,
         e.pc \in {"idle", "generating", "committing"} => e.disposition = "none",
         e.pc = "generating" => e.materials \in DOMAIN Materials /\ e.attempts \in 1..MaxAttempts,
         e.pc \in {"committing", "answering"} => CommitOf(e) \in Commits /\ e.verdict = "ACCEPT",
         e.pc # "answering"
  PROVE  IInv'
<1>1. /\ exec' \in [Exec -> Execution] /\ exec'[x] = e
      /\ \A y \in Exec : y # x => exec'[y] = exec[y]
  BY DEF IInv, TypeOK
<1>2. TypeOK'
  BY <1>1 DEF IInv, TypeOK
<1>3. ASSUME NEW y \in Exec PROVE Holds(y)' /\ KnowsRow(y)'
  <2>1. CASE y = x
    BY <1>1, <2>1 DEF Holds, KnowsRow
  <2>2. CASE y # x
    BY <1>1, <2>2 DEF IInv, Holds, KnowsRow
  <2> QED
    BY <2>1, <2>2
<1> QED
  BY <1>2, <1>3 DEF IInv

\* The fields of an execution, and the execution that has given fields.
LEMMA ExecutionHas ==
  ASSUME NEW e \in Execution
  PROVE  /\ e.materials \in DOMAIN Materials \union {0} /\ e.attempts \in 0..MaxAttempts
         /\ e.candidate \in DOMAIN Outputs \union {0} /\ e.verdict \in Verdict \union {"none"}
         /\ e.disposition \in Disposition \union {"none"}
         /\ e.outcome \in Outcome \union {"none"} /\ e.told \in Told \union {NoRow}
BY DEF Execution

LEMMA ExecutionIs ==
  ASSUME NEW pc \in {"idle", "generating", "committing", "answering", "done", "raised", "lost"},
         NEW m \in DOMAIN Materials \union {0}, NEW a \in 0..MaxAttempts,
         NEW c \in DOMAIN Outputs \union {0}, NEW v \in Verdict \union {"none"},
         NEW d \in Disposition \union {"none"}, NEW o \in Outcome \union {"none"},
         NEW t \in Told \union {NoRow}
  PROVE  [pc |-> pc, materials |-> m, attempts |-> a, candidate |-> c, verdict |-> v,
          disposition |-> d, outcome |-> o, told |-> t] \in Execution
BY DEF Execution

LEMMA ZeroFits ==
  /\ 0 \in DOMAIN Materials \union {0} /\ 0 \in DOMAIN Outputs \union {0}
  /\ 0 \in 0..MaxAttempts /\ 1 \in 0..MaxAttempts
BY DEF MaxAttempts

\* An execution that ends keeps only what it answered.
LEMMA EndsIn ==
  ASSUME NEW e \in Execution, NEW pc \in {"done", "raised", "lost"}
  PROVE  /\ Ends(e, pc) \in Execution /\ Ends(e, pc).pc = pc
         /\ Ends(e, pc).disposition = e.disposition /\ Ends(e, pc).verdict = e.verdict
         /\ Ends(e, pc).told = e.told
<1> DEFINE n == Ends(e, pc)
<1>1. n = [e EXCEPT !.pc = pc, !.materials = 0, !.attempts = 0, !.candidate = 0]
  BY DEF Ends
<1>2. /\ n.pc = pc /\ n.materials = 0 /\ n.attempts = 0 /\ n.candidate = 0
      /\ n.verdict = e.verdict /\ n.disposition = e.disposition
      /\ n.outcome = e.outcome /\ n.told = e.told
  BY <1>1 DEF Execution
<1>3. n = [pc |-> pc, materials |-> 0, attempts |-> 0, candidate |-> 0, verdict |-> e.verdict,
           disposition |-> e.disposition, outcome |-> e.outcome, told |-> e.told]
  BY <1>1 DEF Execution
<1> HIDE DEF n
<1>4. n \in Execution
  <2>1. pc \in {"idle", "generating", "committing", "answering", "done", "raised", "lost"}
    OBVIOUS
  <2>2. [pc |-> pc, materials |-> 0, attempts |-> 0, candidate |-> 0, verdict |-> e.verdict,
         disposition |-> e.disposition, outcome |-> e.outcome, told |-> e.told] \in Execution
    BY <2>1, ExecutionHas, ExecutionIs, ZeroFits, Zenon
  <2> QED
    BY <1>3, <2>2
<1> QED
  BY <1>2, <1>4 DEF n

\* A refusal is recorded on an execution that ended.
LEMMA RejectIn ==
  ASSUME NEW e, NEW v \in Verdict, Ends(e, "done") \in Execution
  PROVE  /\ Reject(e, v) \in Execution /\ Reject(e, v).pc = Ends(e, "done").pc
         /\ Reject(e, v).disposition = Ends(e, "done").disposition
         /\ Reject(e, v).told = Ends(e, "done").told
<1>1. "FINAL_CANDIDATE_REJECTED" \in Outcome
  BY DEF Outcome
<1> DEFINE d == Ends(e, "done")
<1>2. Reject(e, v) = [d EXCEPT !.verdict = v, !.outcome = "FINAL_CANDIDATE_REJECTED"]
  BY DEF Reject
<1> HIDE DEF d
<1>3. d \in Execution
  BY DEF d
<1> QED
  BY <1>1, <1>2, <1>3 DEF Execution, d

\* An execution that asks for its first candidate.
LEMMA StartIn ==
  ASSUME NEW o \in Execution, NEW m \in DOMAIN Materials
  PROVE  LET e == [o EXCEPT !.pc = "generating", !.materials = m, !.attempts = 1]
         IN  /\ e \in Execution /\ e.pc = "generating" /\ e.disposition = o.disposition
             /\ e.materials = m /\ e.attempts = 1 /\ e.told = o.told
<1> DEFINE n == [o EXCEPT !.pc = "generating", !.materials = m, !.attempts = 1]
<1>0. n = [o EXCEPT !.pc = "generating", !.materials = m, !.attempts = 1]
  OBVIOUS
<1> HIDE DEF n
<1>1. /\ n.pc = "generating" /\ n.disposition = o.disposition
      /\ n.materials = m /\ n.attempts = 1 /\ n.told = o.told
  BY <1>0 DEF Execution
<1>2. n = [pc |-> "generating", materials |-> m, attempts |-> 1, candidate |-> o.candidate,
           verdict |-> o.verdict, disposition |-> o.disposition, outcome |-> o.outcome,
           told |-> o.told]
  BY <1>0 DEF Execution
<1>3. n \in Execution
  <2>1. /\ m \in DOMAIN Materials \union {0}
        /\ "generating" \in {"idle", "generating", "committing", "answering", "done", "raised", "lost"}
    OBVIOUS
  <2>2. [pc |-> "generating", materials |-> m, attempts |-> 1, candidate |-> o.candidate,
         verdict |-> o.verdict, disposition |-> o.disposition, outcome |-> o.outcome,
         told |-> o.told] \in Execution
    BY <2>1, ExecutionHas, ExecutionIs, ZeroFits, Zenon
  <2> QED
    BY <1>2, <2>2
<1> QED
  BY <1>1, <1>3 DEF n

LEMMA FinalizeStep ==
  ASSUME IInv, NEW x \in Exec, Finalize(x)
  PROVE  IInv'
<1>1. PICK m \in DOMAIN Materials :
        exec' = [exec EXCEPT ![x].pc = "generating", ![x].materials = m, ![x].attempts = 1]
  BY DEF Finalize
<1>2. exec[x] \in Execution /\ exec[x].disposition = "none"
  BY DEF IInv, TypeOK, Holds, Finalize
<1> DEFINE e == [exec[x] EXCEPT !.pc = "generating", !.materials = m, !.attempts = 1]
<1>3. /\ e \in Execution /\ e.pc = "generating" /\ e.disposition = "none"
      /\ e.materials = m /\ e.attempts = 1
  BY <1>2, StartIn
<1>4. exec' = [exec EXCEPT ![x] = e] /\ row' = row
  BY <1>1 DEF Finalize
<1>5. 1 \in 1..MaxAttempts
  BY DEF MaxAttempts
<1> HIDE DEF e
<1> QED
  BY <1>3, <1>4, <1>5, ExecutionMoves

\* What becomes of an execution when the model answers.
LEMMA AnswerTypes ==
  ASSUME IInv, NEW x \in Exec, NEW c \in DOMAIN Outputs, ModelAnswers(x, c)
  PROVE  \E e \in Execution :
           /\ exec' = [exec EXCEPT ![x] = e] /\ e.disposition = "none" /\ e.told = exec[x].told
           /\ \/ e.pc = "raised"
              \/ e.pc = "done"
              \/ e.pc = "committing" /\ CommitOf(e) \in Commits /\ e.verdict = "ACCEPT"
              \/ /\ e.pc = "generating" /\ e.materials \in DOMAIN Materials
                 /\ e.attempts \in 2..MaxAttempts
<1> DEFINE o == exec[x]
           v == Validation[o.materials][c]
<1>1. /\ o \in Execution /\ o.pc = "generating" /\ o.disposition = "none"
      /\ o.materials \in DOMAIN Materials /\ o.attempts \in 1..MaxAttempts
  BY DEF IInv, TypeOK, Holds, ModelAnswers
<1>2. v \in Verdict
  BY <1>1, FinalSynthesisAssumption
<1>3. CASE v = "ACCEPT" /\ Raises(Materials[o.materials], CandidateOf(o.materials, c))
  <2>1. exec' = [exec EXCEPT ![x] = Ends(o, "raised")]
    BY <1>3 DEF ModelAnswers, Assemble
  <2>2. /\ Ends(o, "raised") \in Execution /\ Ends(o, "raised").pc = "raised"
        /\ Ends(o, "raised").disposition = "none" /\ Ends(o, "raised").told = o.told
    BY <1>1, EndsIn
  <2> QED
    BY <2>1, <2>2
<1>4. CASE v = "ACCEPT" /\ ~Raises(Materials[o.materials], CandidateOf(o.materials, c))
  <2> DEFINE e == [o EXCEPT !.pc = "committing", !.candidate = c, !.verdict = "ACCEPT"]
  <2>1. exec' = [exec EXCEPT ![x] = e]
    BY <1>4 DEF ModelAnswers, Assemble
  <2>2. /\ e \in Execution /\ e.pc = "committing" /\ e.disposition = "none" /\ e.told = o.told
        /\ e.verdict = "ACCEPT" /\ e.materials = o.materials /\ e.candidate = c
    BY <1>1 DEF Execution, Verdict
  <2> HIDE DEF e
  <2>3. CommitOf(e) = [materials |-> o.materials, candidate |-> c]
    BY <2>2 DEF CommitOf
  <2>4. CommitOf(e) \in Commits
    BY <1>1, <1>4, <2>3, AcceptedIsCommit DEF ModelAnswers
  <2> QED
    BY <2>1, <2>2, <2>4
<1>5. CASE v # "ACCEPT" /\ MayRepair(o, v)
  <2>1. exec' = [exec EXCEPT ![x] = Repair(o)]
    BY <1>5 DEF ModelAnswers
  <2>2. /\ Repair(o) \in Execution /\ Repair(o).pc = "generating"
        /\ Repair(o).disposition = "none" /\ Repair(o).told = o.told
        /\ Repair(o).materials = o.materials /\ Repair(o).attempts \in 2..MaxAttempts
    BY <1>1 DEF Repair, Execution, MaxAttempts
  <2> QED
    BY <1>1, <2>1, <2>2
<1>6. CASE v # "ACCEPT" /\ ~MayRepair(o, v)
  <2>1. exec' = [exec EXCEPT ![x] = Reject(o, v)]
    BY <1>6 DEF ModelAnswers
  <2>2. /\ Ends(o, "done") \in Execution /\ Ends(o, "done").pc = "done"
        /\ Ends(o, "done").disposition = "none" /\ Ends(o, "done").told = o.told
    BY <1>1, EndsIn
  <2>3. /\ Reject(o, v) \in Execution /\ Reject(o, v).pc = "done"
        /\ Reject(o, v).disposition = "none" /\ Reject(o, v).told = o.told
    BY <1>2, <2>2, RejectIn
  <2> QED
    BY <2>1, <2>3
<1> QED
  BY <1>3, <1>4, <1>5, <1>6

LEMMA ModelAnswersStep ==
  ASSUME IInv, NEW x \in Exec, NEW c \in DOMAIN Outputs, ModelAnswers(x, c)
  PROVE  IInv'
<1>1. PICK e \in Execution :
        /\ exec' = [exec EXCEPT ![x] = e] /\ e.disposition = "none"
        /\ \/ e.pc = "raised"
           \/ e.pc = "done"
           \/ e.pc = "committing" /\ CommitOf(e) \in Commits /\ e.verdict = "ACCEPT"
           \/ /\ e.pc = "generating" /\ e.materials \in DOMAIN Materials
              /\ e.attempts \in 2..MaxAttempts
  BY AnswerTypes
<1>2. row' = row
  BY DEF ModelAnswers
<1>3. CASE e.pc = "raised" \/ e.pc = "done"
  BY <1>1, <1>2, <1>3, ExecutionMoves
<1>4. CASE e.pc = "committing" /\ CommitOf(e) \in Commits /\ e.verdict = "ACCEPT"
  BY <1>1, <1>2, <1>4, ExecutionMoves
<1>5. CASE /\ e.pc = "generating" /\ e.materials \in DOMAIN Materials
           /\ e.attempts \in 2..MaxAttempts
  <2>1. e.attempts \in 1..MaxAttempts
    BY <1>5 DEF MaxAttempts
  <2> QED
    BY <1>1, <1>2, <1>5, <2>1, ExecutionMoves
<1> QED
  BY <1>1, <1>3, <1>4, <1>5

\* The transaction: the row is written once, and the execution knows its decision.
LEMMA InsertStep ==
  ASSUME IInv, NEW x \in Exec, insert_committed(x)
  PROVE  IInv'
<1> DEFINE o == exec[x]
           d == disposition(CommitOf(o))
           e == [o EXCEPT !.pc = "answering", !.disposition = d]
<1>1. /\ o \in Execution /\ o.pc = "committing" /\ o.verdict = "ACCEPT"
      /\ CommitOf(o) \in Commits
  BY DEF IInv, TypeOK, Holds, insert_committed
<1>2. d \in Disposition
  BY DEF disposition, Disposition
<1>3. /\ e \in Execution /\ e.pc = "answering" /\ e.disposition = d
      /\ e.verdict = "ACCEPT" /\ e.materials = o.materials /\ e.candidate = o.candidate
  BY <1>1, <1>2 DEF Execution
<1>4. /\ exec' = [exec EXCEPT ![x] = e]
      /\ row' = IF row = NoRow THEN CommitOf(o) ELSE row
  BY DEF insert_committed
<1>5. d # "CONFLICT" => Decision[row'] = Decision[CommitOf(o)]
  <2>1. CASE row = NoRow
    BY <1>4, <2>1
  <2>2. CASE row # NoRow
    <3>1. row \in Commits /\ row' = row
      BY <1>4, <2>2 DEF IInv, TypeOK
    <3>2. d # "CONFLICT" =>
            Built(row).result_commit_digest = Built(CommitOf(o)).result_commit_digest
      BY <2>2 DEF disposition
    <3> QED
      BY <1>1, <3>1, <3>2, DigestCoversDecision
  <2> QED
    BY <2>1, <2>2
<1> HIDE DEF e, d, o
<1>6. CommitOf(e) = CommitOf(o)
  BY <1>3 DEF CommitOf
<1>7. row' # NoRow /\ row' \in Commits
  BY <1>1, <1>4, FinalSynthesisAssumption DEF IInv, TypeOK
<1>8. /\ exec' \in [Exec -> Execution] /\ exec'[x] = e
      /\ \A y \in Exec : y # x => exec'[y] = exec[y]
  BY <1>3, <1>4 DEF IInv, TypeOK
<1>9. ASSUME NEW y \in Exec PROVE Holds(y)' /\ KnowsRow(y)'
  <2>1. CASE y = x
    BY <1>1, <1>2, <1>3, <1>5, <1>6, <1>7, <1>8, <2>1 DEF Holds, KnowsRow
  <2>2. CASE y # x
    <3>1. Holds(y) /\ KnowsRow(y) /\ exec'[y] = exec[y]
      BY <1>8, <2>2 DEF IInv
    <3>2. row # NoRow => row' = row
      BY <1>4
    <3> QED
      BY <3>1, <3>2 DEF Holds, KnowsRow
  <2> QED
    BY <2>1, <2>2
<1> QED
  BY <1>7, <1>8, <1>9 DEF IInv, TypeOK

\* What an execution that knows the row answers.
ToldBy(e) == IF e.disposition = "CONFLICT"
             THEN [Ends(e, "done") EXCEPT !.outcome = "FINAL_COMMIT_CONFLICT"]
             ELSE [Ends(e, "done") EXCEPT !.outcome = "FINAL_COMMITTED",
                                          !.told = [answer_status |-> Decision[CommitOf(e)], commit |-> row]]

LEMMA ToldIsTyped ==
  ASSUME IInv, NEW x \in Exec, exec[x].pc = "answering"
  PROVE  /\ ToldBy(exec[x]) \in Execution /\ ToldBy(exec[x]).pc = "done"
         /\ ToldBy(exec[x]).disposition = exec[x].disposition
         /\ ToldBy(exec[x]).verdict = "ACCEPT"
         /\ exec[x].disposition = "CONFLICT" => ToldBy(exec[x]).told = exec[x].told
         /\ exec[x].disposition # "CONFLICT" =>
              ToldBy(exec[x]).told = [answer_status |-> Decision[row], commit |-> row]
<1> DEFINE o == exec[x]
           t == [answer_status |-> Decision[CommitOf(o)], commit |-> row]
<1>1. /\ o \in Execution /\ o.verdict = "ACCEPT" /\ CommitOf(o) \in Commits
      /\ row \in Commits
      /\ o.disposition # "CONFLICT" => Decision[row] = Decision[CommitOf(o)]
  BY DEF IInv, TypeOK, Holds, KnowsRow
<1>2. t \in Told
  BY <1>1, FinalSynthesisAssumption DEF Told
<1>3. /\ Ends(o, "done") \in Execution /\ Ends(o, "done").pc = "done"
      /\ Ends(o, "done").disposition = o.disposition /\ Ends(o, "done").verdict = o.verdict
      /\ Ends(o, "done").told = o.told
  BY <1>1, EndsIn
<1>4. CASE o.disposition = "CONFLICT"
  BY <1>1, <1>3, <1>4 DEF ToldBy, Execution, Outcome
<1>5. CASE o.disposition # "CONFLICT"
  <2>1. ToldBy(o) = [Ends(o, "done") EXCEPT !.outcome = "FINAL_COMMITTED", !.told = t]
    BY <1>5 DEF ToldBy
  <2> HIDE DEF t
  <2>2. /\ ToldBy(o) \in Execution /\ ToldBy(o).pc = "done" /\ ToldBy(o).told = t
        /\ ToldBy(o).disposition = o.disposition /\ ToldBy(o).verdict = o.verdict
    BY <1>2, <1>3, <2>1 DEF Execution, Outcome
  <2> QED
    BY <1>1, <1>5, <2>2 DEF t
<1> QED
  BY <1>4, <1>5

LEMMA AnswersStep ==
  ASSUME IInv, NEW x \in Exec, Answers(x)
  PROVE  IInv'
<1>1. exec[x].pc = "answering" /\ exec' = [exec EXCEPT ![x] = ToldBy(exec[x])] /\ row' = row
  BY DEF Answers, ToldBy
<1> QED
  BY <1>1, ToldIsTyped, ExecutionMoves

LEMMA StopStep ==
  ASSUME IInv, NEW x \in Exec, Raise(x) \/ Lose(x)
  PROVE  IInv'
<1>1. exec[x] \in Execution
  BY DEF IInv, TypeOK
<1>2. PICK pc \in {"raised", "lost"} : exec' = [exec EXCEPT ![x] = Ends(exec[x], pc)]
  BY DEF Raise, Lose
<1> QED
  BY <1>1, <1>2, EndsIn, ExecutionMoves DEF Raise, Lose

LEMMA IInvInit == Init => IInv
<1> SUFFICES ASSUME Init PROVE IInv
  OBVIOUS
<1>1. Idle \in Execution /\ Idle.pc = "idle" /\ Idle.disposition = "none"
  BY DEF Idle, Execution, MaxAttempts
<1> QED
  BY <1>1 DEF Init, IInv, TypeOK, Holds, KnowsRow

LEMMA IInvStep == IInv /\ [Next]_vars => IInv'
<1> SUFFICES ASSUME IInv, [Next]_vars PROVE IInv'
  OBVIOUS
<1>1. CASE UNCHANGED vars
  BY <1>1 DEF vars, IInv, TypeOK, Holds, KnowsRow
<1> QED
  BY <1>1, FinalizeStep, ModelAnswersStep, InsertStep, AnswersStep, StopStep DEF Next

LEMMA IInvAlways == Spec => []IInv
BY IInvInit, IInvStep, PTL DEF Spec

\* The executions and the row have the types they are declared with.
THEOREM TypeCorrect == Spec => []TypeOK
<1>1. IInv => TypeOK
  BY DEF IInv
<1> QED
  BY <1>1, IInvAlways, PTL

-----------------------------------------------------------------------------
(* What a result is worth: the validation read backwards.  A sequence of verdicts *)
(* whose first other one does not exist has no other one, so an accepted candidate *)
(* passed every check, and each of its facts every test there is for a fact.       *)

\* A set of numbers that has an element has a least one.
Below == {p \in Nat \X Nat : p[1] < p[2]}

LEMMA LeastExists ==
  ASSUME NEW S, S \subseteq Nat, S # {}
  PROVE  Min(S) \in S
<1>1. OpToRel(<, Nat) = Below
  BY DEF OpToRel, Below
<1>2. IsWellFoundedOn(Below, Nat)
  BY <1>1, NatLessThanWellFounded
<1>3. PICK x \in S : \A y \in S : ~ (<<y, x>> \in Below)
  BY <1>2, WFMin
<1>4. \A y \in S : x <= y
  <2>1. SUFFICES ASSUME NEW y \in S, y < x PROVE FALSE
    OBVIOUS
  <2>2. <<y, x>> \in Below
    BY <2>1 DEF Below
  <2> QED
    BY <1>3, <2>2
<1> QED
  BY <1>4 DEF Min

\* A verdict that is as it should be is one of a sequence in which all are.
LEMMA FirstOtherGood ==
  ASSUME NEW s, NEW good, Len(s) \in Nat, FirstOther(s, good) = good, NEW i \in 1..Len(s)
  PROVE  s[i] = good
<1> DEFINE I == {j \in 1..Len(s) : s[j] # good}
<1>1. SUFFICES ASSUME I # {} PROVE FALSE
  OBVIOUS
<1>2. FirstOther(s, good) = IF (IF I # {} THEN Min(I) ELSE 0) = 0 THEN good ELSE s[IF I # {} THEN Min(I) ELSE 0]
  BY DEF FirstOther, SelectInSeq
<1>3. Min(I) \in I
  <2>1. I \subseteq Nat
    OBVIOUS
  <2> QED
    BY <1>1, <2>1, LeastExists, Zenon
<1> QED
  BY <1>1, <1>2, <1>3

LEMMA CandidateHas ==
  ASSUME NEW m \in DOMAIN Materials, NEW o \in DOMAIN Outputs
  PROVE  /\ CandidateOf(m, o).claims = Outputs[o].claims
         /\ CandidateOf(m, o).claims \in Seq(ToSet(CandidateOf(m, o).claims))
<1>1. "claims" \in DOMAIN Outputs[o] /\ Outputs[o].claims \in Seq(ToSet(Outputs[o].claims))
  BY FinalMaterialsAssumption
<1>2. CandidateOf(m, o).claims = Outputs[o].claims
  BY <1>1 DEF CandidateOf, assemble_final_candidate
<1> QED
  BY <1>1, <1>2

\* A function over the positions of a sequence is a sequence of that length.
LEMMA SameLength ==
  ASSUME NEW S, NEW s \in Seq(S), NEW f, f = [i \in DOMAIN s |-> f[i]]
  PROVE  Len(f) = Len(s) /\ Len(s) \in Nat /\ DOMAIN s = 1..Len(s)
<1>1. Len(s) \in Nat /\ DOMAIN s = 1..Len(s)
  OBVIOUS
<1> DEFINE T == {f[i] : i \in DOMAIN s}
<1>2. f \in [1..Len(s) -> T]
  BY <1>1
<1> HIDE DEF T
<1>3. f \in Seq(T) /\ DOMAIN f = 1..Len(s)
  BY <1>1, <1>2, SeqDef
<1>4. Len(f) \in Nat /\ DOMAIN f = 1..Len(f)
  BY <1>3, LenProperties
<1> QED
  BY <1>1, <1>3, <1>4

\* What the validation of an accepted candidate says of each of its facts.
LEMMA AcceptedFacts ==
  ASSUME NEW k \in Commits,
         NEW claim \in Facts(CandidateOf(k.materials, k.candidate))
  PROVE  claim_support_verdict(claim) = "SUPPORTED" /\ CitationVerdict(claim) = "ACCEPT"
<1> DEFINE m == Materials[k.materials]
           c == CandidateOf(k.materials, k.candidate)
           supported == [i \in DOMAIN c.claims |-> claim_support_verdict(c.claims[i])]
           cited == [i \in DOMAIN c.claims |->
                       IF IsFact(c.claims[i]) THEN CitationVerdict(c.claims[i]) ELSE "ACCEPT"]
<1>1. k.materials \in DOMAIN Materials /\ k.candidate \in DOMAIN Outputs
  BY DEF Commits
<1>2. FirstOther(Checks(m, c), "ACCEPT") = "ACCEPT"
  BY <1>1 DEF Commits, Validation, validate_final_candidate
<1>3. /\ Len(Checks(m, c)) = 11
      /\ Checks(m, c)[6] = Support(supported) /\ Checks(m, c)[9] = FirstOther(cited, "ACCEPT")
  BY DEF Checks
<1>4. Support(supported) = "ACCEPT" /\ FirstOther(cited, "ACCEPT") = "ACCEPT"
  BY <1>2, <1>3, FirstOtherGood
<1>5. FirstOther(supported, "SUPPORTED") = "SUPPORTED"
  BY <1>4 DEF Support
<1>6. c.claims \in Seq(ToSet(c.claims))
  BY <1>1, CandidateHas
<1>7. /\ Len(supported) = Len(c.claims) /\ Len(cited) = Len(c.claims)
      /\ Len(c.claims) \in Nat /\ DOMAIN c.claims = 1..Len(c.claims)
  BY <1>6, SameLength
<1>8. PICK i \in DOMAIN c.claims : c.claims[i] = claim
  BY DEF Facts, ToSet
<1>9. supported[i] = "SUPPORTED"
  BY <1>5, <1>7, <1>8, FirstOtherGood
<1>10. cited[i] = "ACCEPT"
  BY <1>4, <1>7, <1>8, FirstOtherGood
<1>11. IsFact(claim)
  BY DEF Facts
<1> QED
  BY <1>8, <1>9, <1>10, <1>11

\* What these verdicts mean.
LEMMA SupportedFact ==
  ASSUME NEW claim, IsFact(claim),
         claim_support_verdict(claim) = "SUPPORTED", CitationVerdict(claim) = "ACCEPT"
  PROVE  /\ \E e \in Supporting(claim) : e.text = claim.text
         /\ ~ \E e \in Verified(claim) : e.verdict = "CONFLICTING"
         /\ claim_evidence(claim) # {} /\ claim_evidence(claim) \subseteq Source
<1>1. claim_evidence(claim) # {} /\ claim_evidence(claim) \subseteq Source
  BY DEF CitationVerdict
<1>2. "CONFLICTING" \notin {e.verdict : e \in Verified(claim)}
  BY DEF claim_support_verdict
<1>3. \E e \in Supporting(claim) : e.text = claim.text
  BY <1>2 DEF claim_support_verdict
<1> QED
  BY <1>1, <1>2, <1>3

LEMMA CommitIsSupported ==
  ASSUME NEW k \in Commits, NEW s \in Built(k).answer.claims, IsFact(s.claim)
  PROVE  /\ \E e \in Supporting(s.claim) : e.text = s.claim.text
         /\ ~ \E e \in Verified(s.claim) : e.verdict = "CONFLICTING"
         /\ s.markers # {} /\ s.markers \subseteq Built(k).citations \intersect Source
<1> DEFINE m == Materials[k.materials]
           c == CandidateOf(k.materials, k.candidate)
<1>1. /\ Built(k).answer = render_final_answer(m, c)
      /\ Built(k).citations = resolve_citations(c)
  BY DEF Built, build_task_result_commit
<1>2. s.claim \in ToSet(c.claims) /\ s.markers = claim_citation_ids(s.claim, c)
  BY <1>1 DEF render_final_answer
<1>3. s.claim \in Facts(c)
  BY <1>2 DEF Facts
<1>4. s.markers = claim_evidence(s.claim) /\ s.markers \subseteq resolve_citations(c)
  BY <1>2, <1>3 DEF claim_citation_ids, resolve_citations
<1>5. claim_support_verdict(s.claim) = "SUPPORTED" /\ CitationVerdict(s.claim) = "ACCEPT"
  BY <1>3, AcceptedFacts
<1> HIDE DEF c
<1> QED
  BY <1>1, <1>4, <1>5, SupportedFact

\* The result of a row that calls itself complete.
LEMMA CommitIsEarned ==
  ASSUME NEW k \in Commits
  PROVE  LET r == Built(k)
         IN  /\ r.answer.limitations <=> r.answer_status # "COMPLETE"
             /\ r.answer_status = "COMPLETE" =>
                  /\ \E i \in DOMAIN r.criterion_checks : r.criterion_checks[i].core
                  /\ \A i \in DOMAIN r.criterion_checks : r.criterion_checks[i].status = "SATISFIED"
                  /\ \A j \in DOMAIN r.constraint_checks : r.constraint_checks[j] = "SATISFIED"
                  /\ ~r.degraded
<1> DEFINE m == Materials[k.materials]
           c == CandidateOf(k.materials, k.candidate)
           r == Built(k)
<1>1. /\ r.answer_status = decide_completion(m, c) /\ r.answer = render_final_answer(m, c)
      /\ r.criterion_checks = build_criterion_checks(m, c)
      /\ r.constraint_checks = m.constraint_checks /\ r.degraded = m.degraded
  BY DEF Built, build_task_result_commit
<1>2. r.answer.limitations = (decide_completion(m, c) # "COMPLETE")
  BY <1>1 DEF render_final_answer
<1>3. Core(m) # {}
  BY DEF Commits, Raises
<1>4. Core(m) \subseteq CriterionIds(m)
  BY DEF Core, Compiled, CriterionIds, compile_criterion
<1>5. /\ DOMAIN r.criterion_checks = CriterionIds(m)
      /\ \A i \in CriterionIds(m) : /\ r.criterion_checks[i].core = (i \in Core(m))
                                     /\ r.criterion_checks[i].status = evaluate_all_criteria(m, c)[i]
  BY <1>1 DEF build_criterion_checks
<1>6. DOMAIN evaluate_all_criteria(m, c) = CriterionIds(m)
  BY DEF evaluate_all_criteria
<1> HIDE DEF m, c, r
<1>7. ASSUME r.answer_status = "COMPLETE"
      PROVE  /\ \E i \in DOMAIN r.criterion_checks : r.criterion_checks[i].core
             /\ \A i \in DOMAIN r.criterion_checks : r.criterion_checks[i].status = "SATISFIED"
             /\ \A j \in DOMAIN r.constraint_checks : r.constraint_checks[j] = "SATISFIED"
             /\ ~r.degraded
  <2>1. FullySatisfied(m, c)
    BY <1>1, <1>7 DEF decide_completion
  <2>2. /\ Unmet(evaluate_all_criteria(m, c)) = {} /\ Unmet(m.constraint_checks) = {}
        /\ ~m.degraded
    BY <2>1 DEF FullySatisfied
  <2>3. \E i \in DOMAIN r.criterion_checks : r.criterion_checks[i].core
    BY <1>3, <1>4, <1>5
  <2>4. \A i \in DOMAIN r.criterion_checks : r.criterion_checks[i].status = "SATISFIED"
    BY <1>5, <1>6, <2>2 DEF Unmet
  <2>5. \A j \in DOMAIN r.constraint_checks : r.constraint_checks[j] = "SATISFIED"
    BY <1>1, <2>2 DEF Unmet
  <2> QED
    BY <1>1, <2>2, <2>3, <2>4, <2>5
<1> QED
  BY <1>1, <1>2, <1>7 DEF r

\* Whatever the result is worth, every fact it shows has a verified entry of the
\* catalog with the very same text, none that conflicts with it, and a marker that
\* leads to a citation of the result, whatever the model wrote
\* (validate_final_candidate, claim_support_verdict, resolve_citations).
THEOREM FactsAreSupported == Spec => []NothingUnsupported
<1>1. TypeOK => NothingUnsupported
  BY CommitIsSupported DEF TypeOK, NothingUnsupported
<1> QED
  BY <1>1, TypeCorrect, PTL

\* A result that calls itself complete publishes a deliverable, nothing that is not
\* met and no limitation; any other one names its limitations (decide_completion,
\* render_final_answer, finalize's refusal to complete without a core criterion).
THEOREM CompletenessIsEarned == Spec => []CompleteIsEarned
<1>1. TypeOK => CompleteIsEarned
  BY CommitIsEarned DEF TypeOK, CompleteIsEarned
<1> QED
  BY <1>1, TypeCorrect, PTL

-----------------------------------------------------------------------------
(* Refinement: what each step is for the episode. *)

Substates == [x \in Exec |-> SubstateOf(exec[x])]
ToldAll == [x \in Exec |-> exec[x].told]
ResultOf(r) == IF r = NoRow THEN NoRow ELSE [answer_status |-> Decision[r], commit |-> r]

LEMMA PositionIs ==
  /\ Finalization!Position("CREATED") = 1 /\ Finalization!Position("MODEL_RUNNING") = 3
  /\ Finalization!Position("REPAIRING") = 6 /\ Finalization!Position("COMMITTING") = 9
  /\ Finalization!Position("COMMITTED") = 10
<1> DEFINE F == Finalization!FORWARD_ORDER
<1>1. /\ DOMAIN F = 1..10
      /\ \A i, j \in 1..10 : F[i] = F[j] => i = j
      /\ F[1] = "CREATED" /\ F[3] = "MODEL_RUNNING" /\ F[6] = "REPAIRING"
      /\ F[9] = "COMMITTING" /\ F[10] = "COMMITTED"
  BY DEF Finalization!FORWARD_ORDER
<1>2. \A s : Finalization!Position(s) = CHOOSE i \in DOMAIN F : F[i] = s
  BY DEF Finalization!Position
<1> HIDE DEF F
<1>3. ASSUME NEW n \in 1..10 PROVE Finalization!Position(F[n]) = n
  BY <1>1, <1>2
<1> QED
  BY <1>1, <1>3

LEMMA SubstatesExist ==
  /\ {"MODEL_RUNNING", "REPAIRING", "COMMITTING"} \subseteq Finalization!Forward
  /\ Finalization!FINAL_TERMINAL_SUBSTATES = {"INVALIDATED_STALE", "FAILED", "CANCELLED"}
<1> DEFINE F == Finalization!FORWARD_ORDER
<1>1. DOMAIN F = 1..10 /\ F[3] = "MODEL_RUNNING" /\ F[6] = "REPAIRING" /\ F[9] = "COMMITTING"
  BY DEF Finalization!FORWARD_ORDER
<1> QED
  BY <1>1 DEF Finalization!Forward, Finalization!FINAL_TERMINAL_SUBSTATES

\* The moves an execution makes are legal for its episode.
LEMMA LegalMoves ==
  /\ \A s \in {"CREATED", "MODEL_RUNNING", "REPAIRING", "COMMITTING"} :
       \A t \in {"FAILED", "INVALIDATED_STALE"} : Finalization!MayAdvance(s, t)
  /\ Finalization!MayAdvance("CREATED", "MODEL_RUNNING")
  /\ Finalization!MayAdvance("MODEL_RUNNING", "REPAIRING")
  /\ \A s \in {"MODEL_RUNNING", "REPAIRING"} : Finalization!MayAdvance(s, "COMMITTING")
  /\ Finalization!MayAdvance("COMMITTING", "COMMITTED")
BY PositionIs, SubstatesExist DEF Finalization!MayAdvance

\* One execution moves: its episode moves with it, and the others stay.
LEMMA OneMoves ==
  ASSUME TypeOK, NEW x \in Exec, NEW e, exec' = [exec EXCEPT ![x] = e]
  PROVE  /\ Substates' = [Substates EXCEPT ![x] = SubstateOf(e)]
         /\ ToldAll' = [ToldAll EXCEPT ![x] = e.told]
         /\ Substates[x] = SubstateOf(exec[x]) /\ ToldAll[x] = exec[x].told
BY DEF TypeOK, Substates, ToldAll

\* A step that changes neither the row nor what is told advances an episode, or is
\* nothing to it.
LEMMA MoveIsAdvance ==
  ASSUME TypeOK, NEW x \in Exec, NEW e, exec' = [exec EXCEPT ![x] = e], row' = row,
         e.told = exec[x].told,
         \/ SubstateOf(e) = SubstateOf(exec[x])
         \/ /\ Finalization!MayAdvance(SubstateOf(exec[x]), SubstateOf(e))
            /\ SubstateOf(e) \in Finalization!FINAL_TERMINAL_SUBSTATES \union Finalization!Forward
  PROVE  [Finalization!Next]_(Finalization!vars)
<1>1. /\ Substates' = [Substates EXCEPT ![x] = SubstateOf(e)]
      /\ ToldAll' = [ToldAll EXCEPT ![x] = e.told]
      /\ Substates[x] = SubstateOf(exec[x]) /\ ToldAll[x] = exec[x].told
  BY OneMoves
<1>2. ToldAll' = ToldAll
  BY <1>1 DEF ToldAll
<1>3. ResultOf(row)' = ResultOf(row)
  OBVIOUS
<1>4. CASE SubstateOf(e) = SubstateOf(exec[x])
  <2>1. Substates' = Substates
    BY <1>1, <1>4 DEF Substates
  <2> QED
    BY <1>2, <1>3, <2>1 DEF Finalization!vars, Substates, ToldAll, ResultOf
<1>5. CASE /\ Finalization!MayAdvance(SubstateOf(exec[x]), SubstateOf(e))
           /\ SubstateOf(e) \in Finalization!FINAL_TERMINAL_SUBSTATES \union Finalization!Forward
  <2>1. Finalization!advance_substate(x, SubstateOf(e))
    BY <1>1, <1>5 DEF Finalization!advance_substate, Substates
  <2>2. Finalization!Advance(x)
    BY <1>2, <1>3, <1>5, <2>1 DEF Finalization!Advance, Substates, ToldAll, ResultOf
  <2> QED
    BY <2>2 DEF Finalization!Next
<1> QED
  BY <1>4, <1>5

\* The substates of the executions that a step leads to.
LEMMA SubstateIs ==
  ASSUME NEW e
  PROVE  /\ e.pc = "idle" => SubstateOf(e) = "CREATED"
         /\ e.pc = "generating" /\ e.attempts = 1 => SubstateOf(e) = "MODEL_RUNNING"
         /\ e.pc = "generating" /\ e.attempts \in 2..MaxAttempts => SubstateOf(e) = "REPAIRING"
         /\ e.pc = "committing" => SubstateOf(e) = "COMMITTING"
         /\ e.pc \in {"answering", "done", "lost"} /\ e.disposition \in {"INSERTED", "IDEMPOTENT_REPLAY"}
              /\ e.verdict = "ACCEPT" => SubstateOf(e) = "COMMITTED"
         /\ e.pc \in {"answering", "done", "lost"} /\ e.disposition = "CONFLICT" /\ e.verdict = "ACCEPT"
              => SubstateOf(e) = "FAILED"
         /\ e.pc = "done" /\ e.disposition = "none"
              => SubstateOf(e) \in {"FAILED", "INVALIDATED_STALE"}
         /\ e.pc = "raised" => SubstateOf(e) = "FAILED"
         /\ e.pc = "lost" /\ e.disposition = "none" => SubstateOf(e) = "FAILED"
<1>1. e.pc = "idle" => SubstateOf(e) = "CREATED"
  BY DEF SubstateOf
<1>2. e.pc = "generating" /\ e.attempts = 1 => SubstateOf(e) = "MODEL_RUNNING"
  BY DEF SubstateOf
<1>3. e.pc = "generating" /\ e.attempts \in 2..MaxAttempts => SubstateOf(e) = "REPAIRING"
  BY DEF SubstateOf, MaxAttempts
<1>4. e.pc = "committing" => SubstateOf(e) = "COMMITTING"
  BY DEF SubstateOf
<1>5. e.pc \in {"answering", "done", "lost"} /\ e.disposition \in {"INSERTED", "IDEMPOTENT_REPLAY"}
        /\ e.verdict = "ACCEPT" => SubstateOf(e) = "COMMITTED"
  BY DEF SubstateOf
<1>6. e.pc \in {"answering", "done", "lost"} /\ e.disposition = "CONFLICT" /\ e.verdict = "ACCEPT"
        => SubstateOf(e) = "FAILED"
  BY DEF SubstateOf
<1>7. e.pc = "done" /\ e.disposition = "none" => SubstateOf(e) \in {"FAILED", "INVALIDATED_STALE"}
  BY DEF SubstateOf
<1>8. e.pc = "raised" => SubstateOf(e) = "FAILED"
  BY DEF SubstateOf
<1>9. e.pc = "lost" /\ e.disposition = "none" => SubstateOf(e) = "FAILED"
  BY DEF SubstateOf
<1> QED
  BY <1>1, <1>2, <1>3, <1>4, <1>5, <1>6, <1>7, <1>8, <1>9

LEMMA FinalizeMaps ==
  ASSUME IInv, NEW x \in Exec, Finalize(x)
  PROVE  [Finalization!Next]_(Finalization!vars)
<1>1. PICK m \in DOMAIN Materials :
        exec' = [exec EXCEPT ![x].pc = "generating", ![x].materials = m, ![x].attempts = 1]
  BY DEF Finalize
<1> DEFINE e == [exec[x] EXCEPT !.pc = "generating", !.materials = m, !.attempts = 1]
<1>2. exec[x] \in Execution /\ exec[x].pc = "idle" /\ TypeOK /\ row' = row
  BY DEF IInv, TypeOK, Finalize
<1>3. e.pc = "generating" /\ e.attempts = 1 /\ e.told = exec[x].told
  BY <1>2, StartIn
<1>4. exec' = [exec EXCEPT ![x] = e]
  BY <1>1
<1> HIDE DEF e
<1>5. SubstateOf(e) = "MODEL_RUNNING" /\ SubstateOf(exec[x]) = "CREATED"
  BY <1>2, <1>3, SubstateIs
<1> QED
  BY <1>2, <1>3, <1>4, <1>5, LegalMoves, SubstatesExist, MoveIsAdvance

LEMMA ModelAnswersMaps ==
  ASSUME IInv, NEW x \in Exec, NEW c \in DOMAIN Outputs, ModelAnswers(x, c)
  PROVE  [Finalization!Next]_(Finalization!vars)
<1>1. PICK e \in Execution :
        /\ exec' = [exec EXCEPT ![x] = e] /\ e.disposition = "none" /\ e.told = exec[x].told
        /\ \/ e.pc = "raised"
           \/ e.pc = "done"
           \/ e.pc = "committing"
           \/ e.pc = "generating" /\ e.attempts \in 2..MaxAttempts
  BY AnswerTypes
<1>2. TypeOK /\ row' = row /\ exec[x].pc = "generating" /\ exec[x].attempts \in 1..MaxAttempts
  BY DEF IInv, Holds, ModelAnswers
<1>3. exec[x].attempts = 1 \/ exec[x].attempts \in 2..MaxAttempts
  BY <1>2 DEF MaxAttempts
<1>4. SubstateOf(exec[x]) \in {"MODEL_RUNNING", "REPAIRING"}
  BY <1>2, <1>3, SubstateIs
<1>5. SubstateOf(e) \in {"FAILED", "INVALIDATED_STALE", "COMMITTING", "REPAIRING"}
  BY <1>1, SubstateIs
<1> QED
  BY <1>1, <1>2, <1>4, <1>5, LegalMoves, SubstatesExist, MoveIsAdvance

\* The transaction commits the episode, or its result is refused.
LEMMA InsertMaps ==
  ASSUME IInv, NEW x \in Exec, insert_committed(x)
  PROVE  [Finalization!Next]_(Finalization!vars)
<1> DEFINE o == exec[x]
           d == disposition(CommitOf(o))
           e == [o EXCEPT !.pc = "answering", !.disposition = d]
<1>1. /\ o \in Execution /\ o.pc = "committing" /\ o.verdict = "ACCEPT"
      /\ CommitOf(o) \in Commits /\ TypeOK
  BY DEF IInv, TypeOK, Holds, insert_committed
<1>2. d \in Disposition /\ (row = NoRow => d = "INSERTED")
  BY DEF disposition, Disposition
<1>3. e.pc = "answering" /\ e.disposition = d /\ e.verdict = "ACCEPT" /\ e.told = o.told
  BY <1>1 DEF Execution
<1>4. /\ exec' = [exec EXCEPT ![x] = e]
      /\ row' = IF row = NoRow THEN CommitOf(o) ELSE row
  BY DEF insert_committed
<1> HIDE DEF e, d
<1>5. SubstateOf(o) = "COMMITTING"
  BY <1>1, SubstateIs
<1>6. CASE d = "CONFLICT"
  <2>1. row' = row
    BY <1>2, <1>4, <1>6
  <2>2. SubstateOf(e) = "FAILED"
    BY <1>3, <1>6, SubstateIs
  <2> QED
    BY <1>1, <1>3, <1>4, <1>5, <2>1, <2>2, LegalMoves, SubstatesExist, MoveIsAdvance
<1>7. CASE d # "CONFLICT"
  <2>1. d \in {"INSERTED", "IDEMPOTENT_REPLAY"}
    BY <1>2, <1>7 DEF Disposition
  <2>2. SubstateOf(e) = "COMMITTED"
    BY <1>3, <2>1, SubstateIs
  <2>3. /\ Substates' = [Substates EXCEPT ![x] = "COMMITTED"]
        /\ ToldAll' = ToldAll /\ Substates[x] = "COMMITTING"
    <3>1. /\ Substates' = [Substates EXCEPT ![x] = SubstateOf(e)]
          /\ ToldAll' = [ToldAll EXCEPT ![x] = e.told]
          /\ Substates[x] = SubstateOf(o) /\ ToldAll[x] = o.told
      BY <1>1, <1>4, OneMoves
    <3>2. [ToldAll EXCEPT ![x] = ToldAll[x]] = ToldAll
      BY DEF ToldAll
    <3> QED
      BY <1>3, <1>5, <2>2, <3>1, <3>2
  <2>4. Finalization!advance_substate(x, "COMMITTED")
    BY <2>3, LegalMoves DEF Finalization!advance_substate, Substates
  <2>5. ResultOf(row) = NoRow => ResultOf(row)' \in Told
    <3>1. row \in Commits => ResultOf(row) \in Told
      BY FinalSynthesisAssumption DEF ResultOf, Told
    <3>2. row = NoRow \/ row \in Commits
      BY <1>1 DEF TypeOK
    <3>3. CASE row = NoRow
      <4>1. row' \in Commits /\ row' # NoRow
        BY <1>1, <1>4, <3>3, FinalSynthesisAssumption
      <4>2. ResultOf(row)' = [answer_status |-> Decision[row'], commit |-> row']
        BY <4>1 DEF ResultOf
      <4> QED
        BY <4>1, <4>2, FinalSynthesisAssumption DEF Told
    <3> QED
      BY <3>1, <3>2, <3>3, FinalSynthesisAssumption
  <2>6. ResultOf(row) # NoRow => ResultOf(row)' = ResultOf(row)
    BY <1>4 DEF ResultOf
  <2>7. Finalization!Commit(x)
    BY <2>3, <2>4, <2>5, <2>6 DEF Finalization!Commit, ResultOf, ToldAll
  <2> QED
    BY <2>7 DEF Finalization!Next
<1> QED
  BY <1>6, <1>7

\* An execution that committed answers with the result of the task.
LEMMA AnswersMaps ==
  ASSUME IInv, NEW x \in Exec, Answers(x)
  PROVE  [Finalization!Next]_(Finalization!vars)
<1> DEFINE e == ToldBy(exec[x])
<1>1. exec[x].pc = "answering" /\ exec' = [exec EXCEPT ![x] = e] /\ row' = row
  BY DEF Answers, ToldBy
<1>2. /\ TypeOK /\ exec[x].verdict = "ACCEPT" /\ row # NoRow
      /\ exec[x].disposition \in Disposition
  BY <1>1 DEF IInv, Holds, KnowsRow
<1>3. /\ e.pc = "done" /\ e.disposition = exec[x].disposition /\ e.verdict = "ACCEPT"
      /\ exec[x].disposition = "CONFLICT" => e.told = exec[x].told
      /\ exec[x].disposition # "CONFLICT" => e.told = ResultOf(row)
  BY <1>1, <1>2, ToldIsTyped DEF ResultOf
<1> HIDE DEF e
<1>4. CASE exec[x].disposition = "CONFLICT"
  <2>1. SubstateOf(e) = "FAILED" /\ SubstateOf(exec[x]) = "FAILED"
    BY <1>1, <1>2, <1>3, <1>4, SubstateIs
  <2> QED
    BY <1>1, <1>2, <1>3, <1>4, <2>1, MoveIsAdvance
<1>5. CASE exec[x].disposition # "CONFLICT"
  <2>1. exec[x].disposition \in {"INSERTED", "IDEMPOTENT_REPLAY"}
    BY <1>2, <1>5 DEF Disposition
  <2>2. SubstateOf(e) = "COMMITTED" /\ SubstateOf(exec[x]) = "COMMITTED"
    BY <1>1, <1>2, <1>3, <2>1, SubstateIs
  <2>3. /\ Substates' = Substates /\ Substates[x] = "COMMITTED"
        /\ ToldAll' = [ToldAll EXCEPT ![x] = ResultOf(row)]
    <3>1. /\ Substates' = [Substates EXCEPT ![x] = SubstateOf(e)]
          /\ ToldAll' = [ToldAll EXCEPT ![x] = e.told]
          /\ Substates[x] = SubstateOf(exec[x])
      BY <1>1, <1>2, OneMoves
    <3>2. [Substates EXCEPT ![x] = Substates[x]] = Substates
      BY DEF Substates
    <3> QED
      BY <1>3, <1>5, <2>2, <3>1, <3>2
  <2>4. ResultOf(row)' = ResultOf(row)
    BY <1>1
  <2>5. Finalization!Answer(x)
    BY <2>3, <2>4 DEF Finalization!Answer, Substates, ToldAll, ResultOf
  <2> QED
    BY <2>5 DEF Finalization!Next
<1> QED
  BY <1>4, <1>5

LEMMA StopMaps ==
  ASSUME IInv, NEW x \in Exec, Raise(x) \/ Lose(x)
  PROVE  [Finalization!Next]_(Finalization!vars)
<1>1. /\ exec[x] \in Execution /\ TypeOK /\ row' = row
      /\ exec[x].pc \in {"generating", "committing", "answering"}
  BY DEF IInv, TypeOK, Raise, Lose
<1>2. PICK pc \in {"raised", "lost"} :
        /\ exec' = [exec EXCEPT ![x] = Ends(exec[x], pc)]
        /\ exec[x].pc = "answering" => pc = "lost"
  BY DEF Raise, Lose
<1> DEFINE e == Ends(exec[x], pc)
<1>3. /\ e.pc = pc /\ e.disposition = exec[x].disposition /\ e.verdict = exec[x].verdict
      /\ e.told = exec[x].told /\ exec' = [exec EXCEPT ![x] = e]
  BY <1>1, <1>2, EndsIn
<1> HIDE DEF e
<1>4. CASE exec[x].pc \in {"generating", "committing"}
  <2>1. /\ exec[x].disposition = "none"
        /\ exec[x].pc = "generating" =>
             exec[x].attempts = 1 \/ exec[x].attempts \in 2..MaxAttempts
    BY <1>4 DEF IInv, Holds, MaxAttempts
  <2>2. SubstateOf(e) = "FAILED"
    BY <1>2, <1>3, <2>1, SubstateIs
  <2>3. SubstateOf(exec[x]) \in {"MODEL_RUNNING", "REPAIRING", "COMMITTING"}
    BY <1>4, <2>1, SubstateIs
  <2> QED
    BY <1>1, <1>3, <2>2, <2>3, LegalMoves, SubstatesExist, MoveIsAdvance
<1>5. CASE exec[x].pc = "answering"
  <2>1. e.pc = "lost" /\ exec[x].disposition \in Disposition /\ exec[x].verdict = "ACCEPT"
    BY <1>2, <1>3, <1>5 DEF IInv, Holds, KnowsRow
  <2>2. SubstateOf(e) = SubstateOf(exec[x])
    <3>1. CASE exec[x].disposition = "CONFLICT"
      BY <1>3, <1>5, <2>1, <3>1, SubstateIs
    <3>2. CASE exec[x].disposition \in {"INSERTED", "IDEMPOTENT_REPLAY"}
      BY <1>3, <1>5, <2>1, <3>2, SubstateIs
    <3> QED
      BY <2>1, <3>1, <3>2 DEF Disposition
  <2> QED
    BY <1>1, <1>3, <2>2, MoveIsAdvance
<1> QED
  BY <1>1, <1>4, <1>5

LEMMA InitMaps == Init => Finalization!Init
<1> SUFFICES ASSUME Init PROVE Finalization!Init
  OBVIOUS
<1>1. \A x \in Exec : exec[x] = Idle
  BY DEF Init
<1>2. SubstateOf(Idle) = "CREATED" /\ Idle.told = NoRow
  BY SubstateIs DEF Idle
<1> QED
  BY <1>1, <1>2 DEF Init, Finalization!Init

LEMMA StepMaps == IInv /\ [Next]_vars => [Finalization!Next]_(Finalization!vars)
<1> SUFFICES ASSUME IInv, [Next]_vars PROVE [Finalization!Next]_(Finalization!vars)
  OBVIOUS
<1>1. CASE UNCHANGED vars
  BY <1>1 DEF vars, Finalization!vars
<1> QED
  BY <1>1, FinalizeMaps, ModelAnswersMaps, InsertMaps, AnswersMaps, StopMaps DEF Next

\* However many executions finalize a task, with whatever materials and outputs, the
\* task has one result, and whoever reports a committed result reports that one
\* (insert_committed, finalize).
THEOREM SynthesisIsEpisode == Spec => ImplementsEpisode
BY IInvAlways, InitMaps, StepMaps, PTL DEF Spec, ImplementsEpisode, Finalization!Spec
=============================================================================
