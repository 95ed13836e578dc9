--------------------------- MODULE FinalSynthesis ---------------------------
(***************************************************************************)
(* The final synthesis of a task: the candidate a model writes, its        *)
(* validation with a bounded repair, the evaluation of the criteria, the   *)
(* decision how complete the result is, its citations and the rendered     *)
(* answer, and the commit of the one task_result row.                      *)
(*                                                                         *)
(* finalize awaits in two places, the call of the model and the commit:    *)
(* everything between them is one action.  The row is written in its own   *)
(* transaction, so an execution can be lost before it and after it, and    *)
(* another one be run for the same task.  Who runs them is not in the      *)
(* source; the materials are what that caller froze.                       *)
(*                                                                         *)
(* A candidate has the parts the validator and the renderer tell apart.    *)
(* Its texts are names: two texts are equal or they are not.  Digests are  *)
(* the records they cover.  In the state, materials and candidates are     *)
(* known by their index, and the row by the two it was built from.         *)
(*                                                                         *)
(* A definition Name_Fault is not part of the model: it is Name with a     *)
(* fault that a property of the runs must notice.                          *)
(***************************************************************************)
EXTENDS Integers, FiniteSets, SequencesExt, TLC

CONSTANTS Exec,          \* executions of finalize for one task
          Materials,     \* what START_FINAL_SYNTHESIS may have frozen, a sequence
          Outputs,       \* what the model may write, a sequence
          Catalog,       \* support catalog: catalog id -> entry
          Source,        \* evidence that has a citation source
          NoRow

VARIABLES exec,          \* the executions
          row            \* the task_result row of the task, or NoRow

vars == <<exec, row>>

-----------------------------------------------------------------------------
(* What the records must be *)

\* A verdict belongs to a verified claim, which has a text to be compared with.
WellFormedEntry(e) ==
  /\ e.verdict # "none" <=> e.kind = "VERIFIED_CLAIM"
  /\ e.kind \in {"VERIFIED_CLAIM", "CODE_SNIPPET"} => e.text # "none"

\* An output of another shape is given back to the model, and in the end refused.
WellFormedOutput(o) ==
  /\ o.blocks # <<>> \/ o.gaps # {}
  /\ IsInjective([i \in DOMAIN o.claims |-> o.claims[i].id])

\* The model does not name the snapshot: its output is bound to the one of the call.
assemble_final_candidate(o, m) ==
  [k \in DOMAIN o \union {"snapshot"} |-> IF k = "snapshot" THEN m.snapshot ELSE o[k]]

ASSUME FinalMaterialsAssumption ==
         /\ \A i \in DOMAIN Catalog : WellFormedEntry(Catalog[i])
         /\ \A i \in DOMAIN Materials : Materials[i].model_requests \in 1..2
         /\ \A i \in DOMAIN Outputs :
              /\ {"claims", "blocks"} \subseteq DOMAIN Outputs[i]
              /\ Outputs[i].claims \in Seq(ToSet(Outputs[i].claims))

-----------------------------------------------------------------------------
(* Criteria: how a draft is compiled, and how a criterion is evaluated *)

\* compile_predicate: what a target is checked by.
Predicate == [artifact |-> "ARTIFACT_CONTRACT", citation |-> "EVIDENCE_SUPPORT",
              state |-> "STATE_FACT", user |-> "CONSTRAINT"]

compile_criterion(d) ==
  [id |-> d.id, predicate |-> Predicate[d.target], subject |-> d.subject,
   role |-> IF d.target = "artifact" THEN "CORE_DELIVERABLE" ELSE "REQUIRED_AUXILIARY"]

Compiled(m) == {compile_criterion(d) : d \in m.criteria}
CriterionIds(m) == {d.id : d \in m.criteria}
Semantic(m) == {k.id : k \in {k \in Compiled(m) : k.predicate = "EVIDENCE_SUPPORT"}}

\* An assessment is what the model says of a semantic criterion.
SemanticStatus == [SUPPORTED |-> "SATISFIED", PARTIALLY_SUPPORTED |-> "PARTIAL",
                   UNSUPPORTED |-> "UNSATISFIED", UNKNOWN |-> "UNKNOWN"]

deterministic_status(k, m) ==
  CASE k.predicate = "ARTIFACT_CONTRACT" ->
         IF k.subject \in m.adopted_outputs THEN "SATISFIED" ELSE "UNSATISFIED"
    [] k.predicate = "STATE_FACT" ->
         IF k.subject \in m.completed_items THEN "SATISFIED" ELSE "UNSATISFIED"
    [] k.predicate = "CONSTRAINT" -> m.constraint_checks[k.subject]

\* evaluate_all_criteria raises when an assessment or a constraint check is missing.
Evaluable(m, c) ==
  /\ DOMAIN c.assessments = Semantic(m)
  /\ \A k \in Compiled(m) : k.predicate = "CONSTRAINT" => k.subject \in DOMAIN m.constraint_checks

evaluate_all_criteria(m, c) ==
  [i \in CriterionIds(m) |->
     LET k == CHOOSE k \in Compiled(m) : k.id = i
     IN  IF i \in Semantic(m) THEN SemanticStatus[c.assessments[i].assessment]
                              ELSE deterministic_status(k, m)]

-----------------------------------------------------------------------------
(* The support of a claim, and the citations that come out of it *)

FactKind == {"SOURCE_FACT", "DERIVED_CONCLUSION"}
IsFact(claim) == claim.kind \in FactKind

Referenced(claim) == {Catalog[i] : i \in claim.support \intersect DOMAIN Catalog}
Verified(claim) == {e \in Referenced(claim) : e.kind = "VERIFIED_CLAIM"}
Supporting(claim) == {e \in Verified(claim) : e.verdict = "SUPPORTED"}

\* What conflicts with the claim is not looked at.
claim_support_verdict_Fault(claim) ==
  IF IsFact(claim) => \E e \in Supporting(claim) : e.text = claim.text
  THEN "SUPPORTED" ELSE "CANONICAL_TEXT_MISMATCH"

claim_support_verdict(claim) ==
  LET verdicts == {e.verdict : e \in Verified(claim)}
  IN  IF ~(claim.support \subseteq DOMAIN Catalog) THEN "CLAIM_SUPPORT_REF_MISSING"
      ELSE IF ~IsFact(claim)
      THEN IF \/ claim.criteria # {} \/ claim.conflicts # {}
              \/ \E e \in Referenced(claim) : e.kind \in {"TASK_FACT", "USER_FACT"}
           THEN "SUPPORTED" ELSE "UNANCHORED_NON_FACTUAL_CLAIM"
      ELSE IF "CONFLICTING" \in verdicts THEN "CONFLICTING_USED_AS_FACT"
      ELSE IF Supporting(claim) = {}
      THEN IF verdicts # {} THEN "UNSUPPORTED_FACT_USAGE" ELSE "MISSING_SUPPORTING_CITATION"
      ELSE IF \E e \in Supporting(claim) : e.text = claim.text
      THEN "SUPPORTED" ELSE "CANONICAL_TEXT_MISMATCH"

code_block_support_verdict(block) ==
  IF ~(block.support \subseteq DOMAIN Catalog) THEN "CODE_SUPPORT_REF_MISSING"
  ELSE IF \E i \in block.support : Catalog[i].kind = "CODE_SNIPPET" /\ Catalog[i].text = block.code
  THEN "SUPPORTED" ELSE "UNVERIFIED_CODE"

\* An entry may carry no evidence.
claim_evidence(claim) == UNION {e.evidence : e \in Supporting(claim)}

Facts(c) == {claim \in ToSet(c.claims) : IsFact(claim)}
resolve_citations(c) == UNION {claim_evidence(claim) : claim \in Facts(c)}
claim_citation_ids(claim, c) == claim_evidence(claim) \intersect resolve_citations(c)

-----------------------------------------------------------------------------
(* The validation of a candidate *)

Blocks(c, kind) == {b \in ToSet(c.blocks) : b.kind = kind}
Linked(c) == {b.artifact : b \in Blocks(c, "ARTIFACT_LINK")}
ClaimIds(c) == {claim.id : claim \in ToSet(c.claims)}

\* The first element that is not as it should be decides the verdict.
FirstOther(s, good) == LET i == SelectInSeq(s, LAMBDA v : v # good)
                       IN  IF i = 0 THEN good ELSE s[i]

check_local_graph(m, c) ==
  LET ids == CriterionIds(m)
  IN  /\ \A b \in Blocks(c, "CLAIMS") : b.claims \subseteq ClaimIds(c)
      /\ \A claim \in ToSet(c.claims) : /\ claim.criteria \subseteq ids
                                        /\ claim.conflicts \subseteq m.conflicts
      /\ \A i \in DOMAIN c.assessments : /\ i \in ids
                                         /\ c.assessments[i].claims \subseteq ClaimIds(c)
                                         /\ c.assessments[i].catalog \subseteq DOMAIN Catalog
      /\ \A g \in c.gaps : g.criteria \subseteq ids /\ g.sources \subseteq DOMAIN Catalog

Support(verdicts) ==
  LET v == FirstOther(verdicts, "SUPPORTED")
  IN  CASE v = "SUPPORTED" -> "ACCEPT"
        [] v \in {"CLAIM_SUPPORT_REF_MISSING", "CODE_SUPPORT_REF_MISSING"} ->
             "UNRECOVERABLE_INVALID"
        [] OTHER -> "REPAIRABLE_INVALID"

\* Fact by fact: one that has no evidence, or one whose evidence has no source.
CitationVerdict(claim) ==
  CASE claim_evidence(claim) = {} -> "REPAIRABLE_INVALID"
    [] ~(claim_evidence(claim) \subseteq Source) -> "UNRECOVERABLE_INVALID"
    [] OTHER -> "ACCEPT"

select_result_artifacts(c) ==
  CASE \E i \in c.selected : i \notin DOMAIN Catalog \/ Catalog[i].kind # "ADOPTED_ARTIFACT" ->
         "UNRECOVERABLE_INVALID"
    [] Linked(c) # c.selected -> "REPAIRABLE_INVALID"
    [] OTHER -> "ACCEPT"

ContractAllows(m, c) == /\ m.citations = "REQUIRED" => resolve_citations(c) # {}
                        /\ m.citations = "FORBIDDEN" => resolve_citations(c) = {}

Unless(holds, verdict) == IF holds THEN "ACCEPT" ELSE verdict

Checks(m, c) ==
  <<Unless(~c.too_large, "UNRECOVERABLE_INVALID"),
    Unless(c.snapshot = m.snapshot, "SNAPSHOT_STALE"),
    Unless(~m.authorization_revoked, "SNAPSHOT_STALE"),
    Unless(check_local_graph(m, c), "UNRECOVERABLE_INVALID"),
    Unless(~c.unsafe, "UNSAFE"),
    Support([i \in DOMAIN c.claims |-> claim_support_verdict(c.claims[i])]),
    Support([i \in DOMAIN c.blocks |-> IF c.blocks[i].kind = "CODE"
                                       THEN code_block_support_verdict(c.blocks[i])
                                       ELSE "SUPPORTED"]),
    Unless(Evaluable(m, c), "UNRECOVERABLE_INVALID"),
    FirstOther([i \in DOMAIN c.claims |-> IF IsFact(c.claims[i])
                                          THEN CitationVerdict(c.claims[i]) ELSE "ACCEPT"],
               "ACCEPT"),
    select_result_artifacts(c),
    Unless(ContractAllows(m, c), "REPAIRABLE_INVALID")>>

validate_final_candidate(m, c) == FirstOther(Checks(m, c), "ACCEPT")

-----------------------------------------------------------------------------
(* The decision, the answer and the commit *)

Core(m) == {k.id : k \in {k \in Compiled(m) : k.role = "CORE_DELIVERABLE"}}
Unmet(f) == {i \in DOMAIN f : f[i] # "SATISFIED"}
Substantive(c) == Facts(c) # {}

\* The criteria decide alone.
FullySatisfied_Fault(m, c) == Unmet(evaluate_all_criteria(m, c)) = {} /\ Substantive(c)

FullySatisfied(m, c) ==
  /\ Unmet(evaluate_all_criteria(m, c)) = {} /\ Unmet(m.constraint_checks) = {}
  /\ m.output_contract_complete /\ Substantive(c) /\ ~m.degraded

SomeDelivered(m, c) ==
  \E i \in Core(m) : evaluate_all_criteria(m, c)[i] \in {"SATISFIED", "PARTIAL"}

decide_completion(m, c) ==
  IF FullySatisfied(m, c) THEN "COMPLETE"
  ELSE IF Substantive(c) /\ SomeDelivered(m, c) THEN "PARTIAL" ELSE "INSUFFICIENT_EVIDENCE"

\* A claim is shown with the markers of its citations, a code block as it is.
render_final_answer(m, c) ==
  [claims |-> {[claim |-> claim, markers |-> claim_citation_ids(claim, c)] :
                 claim \in {claim \in ToSet(c.claims) :
                              \E b \in Blocks(c, "CLAIMS") : claim.id \in b.claims}},
   code |-> {b.code : b \in Blocks(c, "CODE")},
   artifacts |-> c.selected,
   limitations |-> decide_completion(m, c) # "COMPLETE",
   gaps |-> IF decide_completion(m, c) = "COMPLETE" THEN {} ELSE c.gaps]

\* The citations a criterion is published with.
criterion_citation_ids(m, c, i) ==
  IF i \in Semantic(m)
  THEN UNION {claim_citation_ids(claim, c) :
                claim \in {k \in ToSet(c.claims) : k.id \in c.assessments[i].claims}}
  ELSE {}

build_criterion_checks(m, c) ==
  [i \in CriterionIds(m) |-> [status |-> evaluate_all_criteria(m, c)[i],
                              core |-> i \in Core(m),
                              citations |-> criterion_citation_ids(m, c, i)]]

\* The commit digest covers these, and what they determine.
compute_commit_digest(m, c) ==
  [snapshot |-> m.snapshot, degraded |-> m.degraded, generated_at |-> m.generated_at,
   candidate |-> c.name, evaluations |-> evaluate_all_criteria(m, c),
   constraints |-> m.constraint_checks, decision |-> decide_completion(m, c),
   flags |-> m.degradation_flags]

build_task_result_commit(m, c) ==
  [answer_status |-> decide_completion(m, c),
   answer |-> render_final_answer(m, c),
   citations |-> resolve_citations(c),
   criterion_checks |-> build_criterion_checks(m, c),
   constraint_checks |-> m.constraint_checks,
   degraded |-> m.degraded,
   result_commit_digest |-> compute_commit_digest(m, c)]

\* An accepted candidate can still fail to become a result.
Raises(m, c) == \/ Core(m) = {}                       \* COMPLETION_NO_APPLICABLE_CORE
                \/ m.format # "MARKDOWN"              \* FINAL_ANSWER_RENDER_UNSUPPORTED_FORMAT
                \/ c.renders_large                    \* ANSWER_SIZE_LIMIT_EXCEEDED

-----------------------------------------------------------------------------
(* State *)

Outcome == {"FINAL_COMMITTED", "FINAL_CANDIDATE_REJECTED", "FINAL_COMMIT_CONFLICT"}
Disposition == {"INSERTED", "IDEMPOTENT_REPLAY", "CONFLICT"}
Verdict == {"ACCEPT", "REPAIRABLE_INVALID", "SNAPSHOT_STALE", "UNSAFE", "UNRECOVERABLE_INVALID"}

CandidateOf(m, o) == assemble_final_candidate(Outputs[o], Materials[m])

\* What every output is worth with every materials, and the commits there can be.
Validation == [m \in DOMAIN Materials |-> [o \in DOMAIN Outputs |->
                 validate_final_candidate(Materials[m], CandidateOf(m, o))]]

AnswerStatus == {"COMPLETE", "PARTIAL", "INSUFFICIENT_EVIDENCE"}

Commits == {k \in [materials : DOMAIN Materials, candidate : DOMAIN Outputs] :
              /\ Validation[k.materials][k.candidate] = "ACCEPT"
              /\ WellFormedOutput(Outputs[k.candidate])
              /\ ~Raises(Materials[k.materials], CandidateOf(k.materials, k.candidate))}
Built(k) == build_task_result_commit(Materials[k.materials], CandidateOf(k.materials, k.candidate))
Decision == [k \in Commits |-> decide_completion(Materials[k.materials], CandidateOf(k.materials, k.candidate))]

Told == [answer_status : AnswerStatus, commit : Commits]

ASSUME FinalSynthesisAssumption ==
         /\ Validation \in [DOMAIN Materials -> [DOMAIN Outputs -> Verdict]]
         /\ Decision \in [Commits -> AnswerStatus]
         /\ NoRow \notin Commits \union Told

MaxAttempts == 3       \* bounds the counter of requests: no budget is above 2

\* A lost execution was started and will not answer.
Idle == [pc |-> "idle", materials |-> 0, attempts |-> 0, candidate |-> 0, verdict |-> "none",
         disposition |-> "none", outcome |-> "none", told |-> NoRow]

Execution ==
  [pc : {"idle", "generating", "committing", "answering", "done", "raised", "lost"},
   materials : DOMAIN Materials \union {0}, attempts : 0..MaxAttempts,
   candidate : DOMAIN Outputs \union {0}, verdict : Verdict \union {"none"},
   disposition : Disposition \union {"none"}, outcome : Outcome \union {"none"},
   told : Told \union {NoRow}]

TypeOK == exec \in [Exec -> Execution] /\ row \in Commits \union {NoRow}

Init == exec = [x \in Exec |-> Idle] /\ row = NoRow

-----------------------------------------------------------------------------
(* finalize *)

\* finalize is called: the first candidate is asked for.
Finalize(x) ==
  /\ exec[x].pc = "idle"
  /\ \E m \in DOMAIN Materials :
       exec' = [exec EXCEPT ![x].pc = "generating", ![x].materials = m, ![x].attempts = 1]
  /\ UNCHANGED row

MayRepair_Fault(e, v) == v = "REPAIRABLE_INVALID"

MayRepair(e, v) == v = "REPAIRABLE_INVALID" /\ e.attempts < Materials[e.materials].model_requests

\* After a repairable candidate the model is asked again, with the hints of the validation.
Repair(e) == [e EXCEPT !.attempts = IF @ < MaxAttempts THEN @ + 1 ELSE @ - 1]

\* What an execution held is gone when it ends.
Ends(e, pc) == [e EXCEPT !.pc = pc, !.materials = 0, !.attempts = 0, !.candidate = 0]

Reject(e, v) == [Ends(e, "done") EXCEPT !.verdict = v, !.outcome = "FINAL_CANDIDATE_REJECTED"]

\* The result is assembled, and its transaction is about to begin.
Assemble(e, c) ==
  IF Raises(Materials[e.materials], CandidateOf(e.materials, c)) THEN Ends(e, "raised")
  ELSE [e EXCEPT !.pc = "committing", !.candidate = c, !.verdict = "ACCEPT"]

\* The model answers: generate_candidate returns and all that needs no further await is done.
ModelAnswers(x, c) ==
  /\ exec[x].pc = "generating" /\ WellFormedOutput(Outputs[c])
  /\ LET e == exec[x]
         v == Validation[e.materials][c]
     IN  exec' = [exec EXCEPT ![x] = IF v = "ACCEPT" THEN Assemble(e, c)
                                     ELSE IF MayRepair(e, v) THEN Repair(e)
                                     ELSE Reject(e, v)]
  /\ UNCHANGED row

\* insert_committed: the row is there now, or was, with this digest or another one.
disposition_Fault(commit) == IF row = NoRow THEN "INSERTED" ELSE "IDEMPOTENT_REPLAY"

disposition(commit) ==
  CASE row = NoRow -> "INSERTED"
    [] row # NoRow /\ Built(row).result_commit_digest = Built(commit).result_commit_digest ->
         "IDEMPOTENT_REPLAY"
    [] OTHER -> "CONFLICT"

CommitOf(e) == [materials |-> e.materials, candidate |-> e.candidate]

insert_committed(x) ==
  /\ exec[x].pc = "committing"
  /\ row' = IF row = NoRow THEN CommitOf(exec[x]) ELSE row
  /\ exec' = [exec EXCEPT ![x].pc = "answering", ![x].disposition = disposition(CommitOf(exec[x]))]

\* finalize answers its own decision with the version and the digest of the row.
Answers(x) ==
  /\ exec[x].pc = "answering"
  /\ LET e == exec[x]
         told == [answer_status |-> Decision[CommitOf(e)], commit |-> row]
     IN  exec' = [exec EXCEPT ![x] =
           IF e.disposition = "CONFLICT"
           THEN [Ends(e, "done") EXCEPT !.outcome = "FINAL_COMMIT_CONFLICT"]
           ELSE [Ends(e, "done") EXCEPT !.outcome = "FINAL_COMMITTED", !.told = told]]
  /\ UNCHANGED row

\* The model call or the transaction raises: nothing is written.
Raise(x) ==
  /\ exec[x].pc \in {"generating", "committing"}
  /\ exec' = [exec EXCEPT ![x] = Ends(@, "raised")]
  /\ UNCHANGED row

\* The process ends, or the transaction commits and its answer is lost.
Lose(x) ==
  /\ exec[x].pc \in {"generating", "committing", "answering"}
  /\ exec' = [exec EXCEPT ![x] = Ends(@, "lost")]
  /\ UNCHANGED row

Next == \E x \in Exec : \/ Finalize(x)
                        \/ \E c \in DOMAIN Outputs : ModelAnswers(x, c)
                        \/ insert_committed(x) \/ Answers(x) \/ Raise(x) \/ Lose(x)

Spec == Init /\ [][Next]_vars

\* A model call ends, with an answer or an error, and a process that is not lost goes on.
Work(x) == Raise(x) \/ insert_committed(x) \/ Answers(x) \/ \E c \in DOMAIN Outputs : ModelAnswers(x, c)

FairSpec == Spec /\ \A x \in Exec : WF_vars(Work(x))

-----------------------------------------------------------------------------
(* Properties *)

\* Whatever the result is worth, every fact it shows has a verified entry of the
\* catalog with the very same text, none that conflicts with it, and a marker that
\* leads to a citation of the result (claim_support_verdict, resolve_citations).
NothingUnsupported ==
  row # NoRow =>
    \A s \in Built(row).answer.claims : IsFact(s.claim) =>
      /\ \E e \in Supporting(s.claim) : e.text = s.claim.text
      /\ ~ \E e \in Verified(s.claim) : e.verdict = "CONFLICTING"
      /\ s.markers # {} /\ s.markers \subseteq Built(row).citations \intersect Source

\* A result that calls itself complete publishes a deliverable, no criterion and no
\* constraint that is not met and no limitation, and was not made from a degraded
\* snapshot; any other result names its limitations (decide_completion, render).
CompleteIsEarned ==
  row # NoRow =>
    LET r == Built(row)
    IN  /\ r.answer.limitations <=> r.answer_status # "COMPLETE"
        /\ r.answer_status = "COMPLETE" =>
             /\ \E i \in DOMAIN r.criterion_checks : r.criterion_checks[i].core
             /\ \A i \in DOMAIN r.criterion_checks : r.criterion_checks[i].status = "SATISFIED"
             /\ \A k \in DOMAIN r.constraint_checks : r.constraint_checks[k] = "SATISFIED"
             /\ ~r.degraded

\* Every execution that is not lost ends: the repairs are bounded by the budget of
\* the final attempt (finalize's loop).
EverySynthesisEnds ==
  \A x \in Exec : exec[x].pc = "generating" ~> exec[x].pc \in {"done", "raised", "lost"}

\* The substate of the episode an execution is in.
SubstateOf(e) ==
  CASE e.pc = "idle" -> "CREATED"
    [] e.pc = "generating" /\ e.attempts = 1 -> "MODEL_RUNNING"
    [] e.pc = "generating" /\ e.attempts > 1 -> "REPAIRING"
    [] e.pc = "committing" -> "COMMITTING"
    [] e.pc \in {"answering", "done", "lost"} /\ e.disposition \in {"INSERTED", "IDEMPOTENT_REPLAY"} ->
         "COMMITTED"
    [] e.pc = "done" /\ e.verdict = "SNAPSHOT_STALE" -> "INVALIDATED_STALE"
    [] OTHER -> "FAILED"

Finalization ==
  INSTANCE FinalEpisode WITH
    Episode <- Exec, NoResult <- NoRow, Result <- Told,
    substate <- [x \in Exec |-> SubstateOf(exec[x])],
    result <- IF row = NoRow THEN NoRow ELSE [answer_status |-> Decision[row], commit |-> row],
    told <- [x \in Exec |-> exec[x].told]

\* However often the synthesis is executed, one after the other or at once, the task
\* has one result, it never changes, and whoever reports a committed result reports
\* that one, status and digest (insert_committed); the episode only moves forward.
ImplementsEpisode == Finalization!Spec
=============================================================================
