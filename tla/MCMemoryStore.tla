--------------------------- MODULE MCMemoryStore ---------------------------
(* Instances of MemoryStore for TLC: what may be proposed, corrected and     *)
(* recalled.  In MCContext it stands beside the other sources of a prompt.   *)
(* A value has a name besides that of its CONSTANT (MCProposals == Proposed): *)
(* TLC computes what a CONSTANT stands for at each use, the other name once.  *)
EXTENDS MemoryStore

CONSTANTS w1, w2

Said == [owner |-> "o1", scope |-> "TASK", kind |-> "GOAL", key |-> <<"k">>, text |-> <<"a">>,
         trust |-> "USER_DERIVED", explicit |-> FALSE, importance |-> 4, valid_until |-> -1,
         source |-> "EVIDENCE", sensitive |-> FALSE, correction_of |-> 0, now |-> 0]

\* Of another kind, and more important than the others.
Decided == [Said EXCEPT !.kind = "DECISION", !.text = <<"c">>, !.trust = "USER_EXPLICIT", !.explicit = TRUE,
                        !.now = 1]

Proposed ==
  <<Said,
    [Said EXCEPT !.text = <<"b">>, !.trust = "ASSISTANT_DERIVED", !.now = 1],
    Decided,
    [Said EXCEPT !.kind = "DECISION", !.source = "MESSAGE"],                 \* merged by its key
    [Said EXCEPT !.key = <<>>, !.text = <<"k", "a">>], \* the hash of the first
    [Said EXCEPT !.key = <<>>, !.kind = "SUPPORTED_FINDING", !.trust = "EVIDENCE_SUPPORTED",
                 !.valid_until = 1],
    [Said EXCEPT !.key = <<>>, !.kind = "SUPPORTED_FINDING", !.valid_until = 1, !.now = 1], \* too late
    [Said EXCEPT !.owner = "nobody"],
    [Said EXCEPT !.scope = "USER_PRIVATE"]>>                                 \* refused
MCProposals == Proposed

MCCorrections == {[text |-> <<"b">>, trust |-> "USER_EXPLICIT", now |-> 1]}

\* The first reads all the memories of a scope.  The second reads two and drops those of
\* another kind: when Decided is one of them, two memories in conflict meet only through
\* their group.
Recollected ==
  {[owner |-> "o1", scopes |-> {"TASK", "USER_PRIVATE"}, canonical_keys |-> {<<"k">>},
    required_kinds |-> {}, max_candidates |-> 2, now |-> 0],
   [owner |-> "o1", scopes |-> {"TASK"}, canonical_keys |-> {}, required_kinds |-> {"GOAL"},
    max_candidates |-> 1, now |-> 1]}
MCRecalls == Recollected

\* Two goals that contradict each other, and a decision about something else.
MCConflict == <<Said, [Said EXCEPT !.text = <<"b">>, !.trust = "ASSISTANT_DERIVED", !.now = 1],
                [Decided EXCEPT !.key = <<>>]>>
=============================================================================
