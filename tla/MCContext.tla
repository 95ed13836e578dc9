------------------------------ MODULE MCContext ------------------------------
(* Instances for TLC of what a prompt is made from: MCChunking and MCMemoryStore, the *)
(* answers of two channels that Retrieval ranks, and the requests for context packs.  *)
EXTENDS ContextPack, MCMemoryStore, MCChunking, Retrieval

CONSTANTS c1, c2, c3

-----------------------------------------------------------------------------
(* Two channels that answer up to three chunks each, in every order. *)

Hit(chunk, lexical, vector, text) ==
  [chunk_id |-> chunk, lexical_score |-> lexical, vector_score |-> vector, fusion_score |-> Absent,
   rerank_score |-> Absent, text_hash |-> text]

Texts == {<<"x", "y", "z">>, <<"x", "x", "z">>, <<"x", "y", "x">>, <<"x", "x", "x">>, <<Absent, "y", "y">>}
Lexical == {<<Absent, Absent, Absent>>, <<1, 3, 2>>, <<20, 1, 20>>}
Answers == {s \in UNION {[1..n -> 1..3] : n \in 0..3} : \A i, j \in DOMAIN s : s[i] = s[j] => i = j}

Heard ==
  {<<[r \in DOMAIN a |-> Hit(a[r], score[a[r]], Absent, text[a[r]])],
     [r \in DOMAIN b |-> Hit(b[r], Absent, b[r], text[b[r]])]>> :
     a \in Answers, b \in Answers, text \in Texts, score \in Lexical}
MCRecalled == Heard

-----------------------------------------------------------------------------
Offered(id, type, hash, tokens, priority, rank) ==
  [item_id |-> id, item_type |-> type, content_hash |-> hash, token_count |-> tokens,
   priority |-> priority, rank_score |-> rank, source_is_uuid |-> TRUE]

System == Offered(1, "SYSTEM_POLICY", "h1", 10, 9, -1)
Question == Offered(2, "CURRENT_MESSAGE", "h2", 10, 9, -1)
\* Forty elastic tokens of a hundred in the first: 4 for memories, 26 for evidence.
Candidates ==
  <<Offered(3, "EVIDENCE", "h3", 20, 5, 1), Offered(4, "EVIDENCE", "h4", 20, 5, 2),
    Offered(5, "EVIDENCE", "h5", 5, 5, -1), Offered(6, "MEMORY", "h6", 4, 5, -1),
    Offered(7, "MEMORY", "h7", 4, 5, -1), Offered(8, "RECENT_MESSAGE", "h2", 1, 9, -1),
    Offered(9, "TASK_ARTIFACT", "h8", 3, 1, 5), Offered(10, "OBSERVATION", "h9", 2, 1, 7),
    Offered(11, "SUMMARY", "h10", 1, 9, 9), Offered(12, "SUMMARY", "h11", 0, 1, -1)>>

Asked == [id |-> "p1", task |-> "t1", attempt |-> "a1", policy |-> "1", identity |-> "v1", body |-> "b1",
          max_context |-> 100, reserved_output |-> 20, protocol_overhead |-> 10, safety_margin |-> 10,
          profile |-> "KNOWLEDGE_RESEARCH", mandatory_items |-> <<System, Question>>,
          elastic_candidates |-> Candidates]

Requested ==
  <<Asked,
    [Asked EXCEPT !.elastic_candidates = <<Candidates[1]>>],                 \* the same id again
    [Asked EXCEPT !.id = "p2", !.max_context = 80],                          \* the same input
    [Asked EXCEPT !.identity = "v2"],                                        \* another input, the same id
    [Asked EXCEPT !.id = "p3", !.identity = "v3", !.max_context = 55],       \* too small
    [Asked EXCEPT !.id = "p4", !.identity = "v4", !.profile = "FACT_VERIFICATION"],
    [Asked EXCEPT !.id = "p5", !.identity = "v5", !.elastic_candidates[4].source_is_uuid = FALSE]>>
MCRequests == Requested
=============================================================================
