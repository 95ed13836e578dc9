-------------------------- MODULE MCFinalSynthesis --------------------------
(* Model-checking instance of FinalSynthesis: two executions of one task, a   *)
(* catalog with an entry of every sort, candidates that are right or wrong in *)
(* one way each, and materials that differ from the best in one way each.     *)
EXTENDS FinalSynthesis

CONSTANTS x1, x2

Graded(text, verdict, evidence) ==
  [kind |-> "VERIFIED_CLAIM", text |-> text, verdict |-> verdict, evidence |-> evidence]
Plain(kind, text) == [kind |-> kind, text |-> text, verdict |-> "none", evidence |-> {}]

MCCatalog ==
  [supported |-> Graded("t1", "SUPPORTED", {"e1"}),
   second |-> Graded("t2", "SUPPORTED", {"e1", "e2"}),
   unsourced |-> Graded("t3", "SUPPORTED", {"e3"}),
   bare |-> Graded("t4", "SUPPORTED", {}),
   contested |-> Graded("t1", "CONFLICTING", {"e2"}),
   weak |-> Graded("t1", "PARTIALLY_SUPPORTED", {"e1"}),
   snippet |-> Plain("CODE_SNIPPET", "code1"),
   artifact |-> Plain("ADOPTED_ARTIFACT", "none"),
   fact |-> Plain("TASK_FACT", "none")]

MCSource == {"e1", "e2"}

MCCriteria == {[id |-> "deliverable", target |-> "artifact", subject |-> "i1"],
               [id |-> "grounded", target |-> "citation", subject |-> "i1"],
               [id |-> "finished", target |-> "state", subject |-> "i2"],
               [id |-> "wished", target |-> "user", subject |-> "u1"]}

Best == [criteria |-> MCCriteria, adopted_outputs |-> {"i1"}, completed_items |-> {"i1", "i2"},
         constraint_checks |-> [k \in {"u1", "u2"} |-> "SATISFIED"], conflicts |-> {"s1"},
         citations |-> "REQUIRED", format |-> "MARKDOWN", output_contract_complete |-> TRUE,
         authorization_revoked |-> FALSE, degraded |-> FALSE, degradation_flags |-> {},
         model_requests |-> 2, snapshot |-> "n1", generated_at |-> 1]

\* Materials with one snapshot differ in what the snapshot does not hold.
MCMaterials ==
  <<Best,
   [Best EXCEPT !.model_requests = 1, !.snapshot = "n2", !.generated_at = 2],
   [Best EXCEPT !.snapshot = "n3", !.degraded = TRUE, !.degradation_flags = {"DEGRADED"}],
   [Best EXCEPT !.constraint_checks["u2"] = "UNKNOWN"],
   [Best EXCEPT !.completed_items = {"i1"}],
   [Best EXCEPT !.adopted_outputs = {}],
   [Best EXCEPT !.output_contract_complete = FALSE],
   [Best EXCEPT !.snapshot = "n4", !.authorization_revoked = TRUE],
   [Best EXCEPT !.snapshot = "n5", !.citations = "FORBIDDEN"],
   [Best EXCEPT !.snapshot = "n6", !.format = "JSON"],
   [Best EXCEPT !.snapshot = "n7", !.criteria = {d \in MCCriteria : d.target # "artifact"}],
   [Best EXCEPT !.constraint_checks = [k \in {"u2"} |-> "SATISFIED"]]>>

Claim(id, kind, text, support) ==
  [id |-> id, kind |-> kind, text |-> text, support |-> support, criteria |-> {}, conflicts |-> {}]
Fact == Claim("f1", "SOURCE_FACT", "t1", {"supported"})
Shows(ids) == [kind |-> "CLAIMS", claims |-> ids]
Code(text, support) == [kind |-> "CODE", code |-> text, support |-> support]
Link(id) == [kind |-> "ARTIFACT_LINK", artifact |-> id]
Assessed(a) == [grounded |-> [assessment |-> a, claims |-> {"f1"}, catalog |-> {"supported"}]]

Good == [name |-> "good", too_large |-> FALSE, renders_large |-> FALSE, unsafe |-> FALSE,
         claims |-> <<Fact>>, blocks |-> <<Shows({"f1"}), Link("artifact")>>,
         assessments |-> Assessed("SUPPORTED"), gaps |-> {}, selected |-> {"artifact"}]

Gap == [criteria |-> {"grounded"}, sources |-> {"fact"}]
Advice == [Claim("f1", "RECOMMENDATION", "t5", {"fact"}) EXCEPT !.conflicts = {"s1"}]

MCOutputs ==
  <<Good,
   [Good EXCEPT !.name = "empty", !.blocks = <<>>, !.selected = {}],
   [Good EXCEPT !.name = "partly", !.assessments = Assessed("PARTIALLY_SUPPORTED"), !.gaps = {Gap}],
   [Good EXCEPT !.name = "two_facts", !.claims = <<Fact, Claim("f2", "DERIVED_CONCLUSION", "t2", {"second"})>>,
                !.blocks = <<Shows({"f1", "f2"}), Link("artifact"), Code("code1", {"snippet"})>>],
   [Good EXCEPT !.name = "advice", !.claims = <<Advice>>, !.gaps = {Gap}],
   [Good EXCEPT !.name = "loose_end", !.claims = <<Fact, Claim("f2", "LIMITATION", "t5", {})>>],
   [Good EXCEPT !.name = "contested", !.claims[1].support = {"supported", "contested"}],
   [Good EXCEPT !.name = "weak", !.claims[1].support = {"weak"}],
   [Good EXCEPT !.name = "reworded", !.claims[1].text = "t6"],
   [Good EXCEPT !.name = "dangling", !.claims[1].support = {"nowhere"}],
   [Good EXCEPT !.name = "bare", !.claims = <<Claim("f1", "SOURCE_FACT", "t4", {"bare"})>>],
   [Good EXCEPT !.name = "unsourced", !.claims = <<Claim("f1", "SOURCE_FACT", "t3", {"unsourced"})>>],
   [Good EXCEPT !.name = "lost_claim", !.blocks = <<Shows({"f1", "f9"}), Link("artifact")>>],
   [Good EXCEPT !.name = "unlinked", !.blocks = <<Shows({"f1"})>>],
   [Good EXCEPT !.name = "invented_code", !.blocks = <<Shows({"f1"}), Link("artifact"), Code("code2", {"snippet"})>>],
   [Good EXCEPT !.name = "not_adopted", !.selected = {"fact"}],
   [Good EXCEPT !.name = "unassessed", !.assessments = <<>>],
   [Good EXCEPT !.name = "too_large", !.too_large = TRUE],
   [Good EXCEPT !.name = "renders_large", !.renders_large = TRUE],
   [Good EXCEPT !.name = "unsafe", !.unsafe = TRUE]>>
=============================================================================
