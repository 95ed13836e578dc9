----------------------------- MODULE ContextPack -----------------------------
(***************************************************************************)
(* Context packs: the immutable input of a model call.  A caller obtains a *)
(* pack, by reuse or by assembling it within the window of the model, and  *)
(* the gateway consumes it when it accepts the call.                       *)
(*                                                                         *)
(* obtain reads twice before it inserts, and consumption reads the row     *)
(* without a lock and writes it at its commit: each is an action, and what *)
(* another transaction commits in between is not seen.  Nobody in the      *)
(* source calls obtain or invalidates a pack; the gateway consumes.        *)
(*                                                                         *)
(* Digests and hashes are the records they cover.  A stored pack and a     *)
(* pack in the hands of a caller are known by the index of the request     *)
(* they were assembled from.                                               *)
(*                                                                         *)
(* A definition Name_Fault is not part of the model: it is Name with a     *)
(* fault that a property of the runs must notice.                          *)
(***************************************************************************)
EXTENDS Integers, FiniteSets, SequencesExt, TLC

CONSTANTS Caller,         \* who obtains packs and makes calls with them
          Invalidator,    \* who invalidates packs
          Requests,       \* what may be asked for: a sequence of assembly inputs
          ContentHash,
          NoPack

VARIABLES packs,          \* context_pack rows, by id
          user,           \* the callers
          voider          \* the invalidations

packVars == <<packs, user, voider>>

-----------------------------------------------------------------------------
(* The budget of a pack and the selection of its items *)

MandatoryItemType == {"SYSTEM_POLICY", "TOOL_SCHEMA", "OUTPUT_SCHEMA", "CURRENT_MESSAGE"}

bucket_for_item_type == [RECENT_MESSAGE |-> "RECENT", MEMORY |-> "MEMORY",
                         TASK_ARTIFACT |-> "TASK_ARTIFACT", OBSERVATION |-> "TASK_ARTIFACT",
                         EVIDENCE |-> "EVIDENCE", SUMMARY |-> "SUMMARY"]
Bucket == {bucket_for_item_type[t] : t \in DOMAIN bucket_for_item_type}

Shares(recent, memory, artifact, evidence) ==
  [RECENT |-> recent, MEMORY |-> memory, TASK_ARTIFACT |-> artifact, EVIDENCE |-> evidence,
   SUMMARY |-> 0]

\* Percentages of the elastic tokens; the other profiles have a budget of their own.
ElasticRatio == [KNOWLEDGE_RESEARCH |-> Shares(15, 10, 10, 65),
                 MULTI_MATERIAL_ANALYSIS |-> Shares(10, 10, 35, 45),
                 SYNTHESIS_ACTION |-> Shares(10, 10, 40, 40),
                 FINAL_SYNTHESIS |-> Shares(0, 0, 50, 50),
                 GOVERNANCE_EXPLANATION |-> Shares(5, 5, 40, 50),
                 SUPERVISOR_PLANNING |-> Shares(15, 10, 60, 15)]

allocate_elastic_budget(profile, elastic) ==
  [b \in Bucket |-> (elastic * ElasticRatio[profile][b]) \div 100]

\* The tokens of the items at some places, and of all.
TokensAt(items, places) ==
  LET sum[n \in 0..Len(items)] ==
        IF n = 0 THEN 0 ELSE sum[n - 1] + IF n \in places THEN items[n].token_count ELSE 0
  IN  sum[Len(items)]
Tokens(items) == TokensAt(items, DOMAIN items)

AvailableInput(r) == r.max_context - r.reserved_output - r.protocol_overhead - r.safety_margin
ElasticTokens(r) == AvailableInput(r) - Tokens(r.mandatory_items)

\* The mandatory items are never cut: if they do not fit, nothing is assembled.
Assembles(r) == /\ AvailableInput(r) >= 0 /\ ElasticTokens(r) >= 0
                /\ r.profile \in DOMAIN ElasticRatio

\* Of items with one content the first is kept.
KeepFirst(kept, item) ==
  IF \E i \in DOMAIN kept : kept[i].content_hash = item.content_hash THEN kept ELSE Append(kept, item)

Deduped(items) ==
  LET kept[n \in 0..Len(items)] == IF n = 0 THEN <<>> ELSE KeepFirst(kept[n - 1], items[n])
  IN  kept[Len(items)]

Mandatory(item) == item.item_type \in MandatoryItemType
Elastic(item) == ~Mandatory(item)

MandatoryItems(items) ==
  LET found[n \in 0..Len(items)] ==
        IF n = 0 THEN <<>> ELSE IF Mandatory(items[n]) THEN Append(found[n - 1], items[n]) ELSE found[n - 1]
  IN  found[Len(items)]

\* A missing rank_score is the lowest: it is -1 here.
RanksBefore(a, b) ==
  \/ a.priority > b.priority
  \/ a.priority = b.priority /\ a.rank_score > b.rank_score
  \/ a.priority = b.priority /\ a.rank_score = b.rank_score /\ a.item_id < b.item_id

\* The sort is stable: the place of an item is how many come before it.
RankedElastic(items) ==
  LET elastic == {i \in DOMAIN items : Elastic(items[i])}
      Before(i, j) == RanksBefore(items[i], items[j]) \/ (~RanksBefore(items[j], items[i]) /\ i < j)
      place == [i \in elastic |-> Cardinality({j \in elastic : Before(j, i)}) + 1]
  IN  [n \in 1..Cardinality(elastic) |-> items[CHOOSE i \in elastic : place[i] = n]]

\* An item that no longer fits its bucket is left out, and a smaller one may follow.
Take_Fault(chosen, item) ==
  IF item.token_count <= chosen.remaining[bucket_for_item_type[item.item_type]]
  THEN [chosen EXCEPT !.items = Append(@, item)] ELSE chosen

Take(chosen, item) ==
  LET bucket == bucket_for_item_type[item.item_type]
  IN  IF item.token_count <= chosen.remaining[bucket]
      THEN [items |-> Append(chosen.items, item),
            remaining |-> [chosen.remaining EXCEPT ![bucket] = @ - item.token_count]]
      ELSE chosen

select_context_items(r) ==
  LET deduped == Deduped(r.mandatory_items \o r.elastic_candidates)
      ranked == RankedElastic(deduped)
      chosen[n \in 0..Len(ranked)] ==
        IF n = 0 THEN [items |-> MandatoryItems(deduped),
                       remaining |-> allocate_elastic_budget(r.profile, ElasticTokens(r))]
        ELSE Take(chosen[n - 1], ranked[n])
  IN  chosen[Len(ranked)].items

compute_input_digest(r) == [task |-> r.task, attempt |-> r.attempt, policy |-> r.policy,
                            identity |-> r.identity, body |-> r.body]

compute_pack_hash(r) ==
  [items |-> select_context_items(r),
   budget |-> <<r.max_context, r.reserved_output, r.protocol_overhead, r.safety_margin>>,
   input_tokens |-> Tokens(select_context_items(r))]

NotAssembled == [items |-> <<>>, budget |-> <<0, 0, 0, 0>>, input_tokens |-> 0]

\* What assemble_context_pack makes of each request.
assemble_context_pack ==
  [q \in DOMAIN Requests |-> IF Assembles(Requests[q]) THEN compute_pack_hash(Requests[q])
                                                       ELSE NotAssembled]

ContextItem == [item_id : Nat, item_type : MandatoryItemType \union DOMAIN bucket_for_item_type,
                content_hash : ContentHash, token_count : Nat, priority : Int, rank_score : Int,
                source_is_uuid : BOOLEAN]

\* mandatory_items are of the mandatory types and the candidates are not.
ASSUME ContextPackAssumption ==
  \A q \in DOMAIN Requests :
    /\ Requests[q].mandatory_items \in Seq(ContextItem) /\ Requests[q].elastic_candidates \in Seq(ContextItem)
    /\ \A i \in DOMAIN Requests[q].mandatory_items : Mandatory(Requests[q].mandatory_items[i])
    /\ \A i \in DOMAIN Requests[q].elastic_candidates : Elastic(Requests[q].elastic_candidates[i])
    /\ {Requests[q].max_context, Requests[q].reserved_output, Requests[q].protocol_overhead,
        Requests[q].safety_margin} \subseteq Nat

-----------------------------------------------------------------------------
(* State *)

PackId == {Requests[q].id : q \in DOMAIN Requests}
IdOf(q) == Requests[q].id
DigestOf(q) == compute_input_digest(Requests[q])
HashOf(q) == assemble_context_pack[q]

ContextPackState == {"ASSEMBLING", "READY", "CONSUMED", "FAILED", "INVALIDATED_BEFORE_USE"}

is_legal_context_pack_transition_Fault(current, next) ==
  current \in {"READY", "CONSUMED"} /\ next \in {"CONSUMED", "INVALIDATED_BEFORE_USE"}

is_legal_context_pack_transition(current, next) ==
  \/ current = "ASSEMBLING" /\ next \in {"READY", "FAILED"}
  \/ current = "READY" /\ next \in {"CONSUMED", "INVALIDATED_BEFORE_USE"}

Unused == [pc |-> "idle", request |-> 0, held |-> 0, via |-> "none", loaded |-> "none"]
Resting == [pack |-> NoPack, loaded |-> "none"]

Row == [request : DOMAIN Requests, state : ContextPackState, consumed_at : BOOLEAN]

User == [pc : {"idle", "searched", "missing", "holding", "consuming", "accepted", "failed"},
         request : DOMAIN Requests \union {0}, held : DOMAIN Requests \union {0},
         via : {"none", "REUSED", "INSERTED", "IDEMPOTENT_REPLAY"},
         loaded : ContextPackState \union {"none"}]

Voider == [pack : PackId \union {NoPack}, loaded : ContextPackState \union {"none"}]

\* The absent pack is neither a row nor an id, and 0 is no request.
ASSUME NoPackAssumption == NoPack \notin Row /\ NoPack \notin PackId /\ 0 \notin DOMAIN Requests

PackTypeOK == /\ packs \in [PackId -> Row \union {NoPack}]
              /\ user \in [Caller -> User]
              /\ voider \in [Invalidator -> Voider]

PackInit == /\ packs = [id \in PackId |-> NoPack]
            /\ user = [c \in Caller |-> Unused]
            /\ voider = [v \in Invalidator |-> Resting]

-----------------------------------------------------------------------------
(* obtain *)

CallerFails(c) == user' = [user EXCEPT ![c].pc = "failed"]

Reusable(id, digest) == /\ packs[id] # NoPack
                        /\ DigestOf(packs[id].request) = digest
                        /\ packs[id].state \in {"READY", "CONSUMED"}

\* find_reusable_by_input_digest: a hit ends obtain, and what it answers is the row's.
Reuse(c) ==
  /\ user[c].pc = "idle"
  /\ \E q \in DOMAIN Requests, id \in PackId :
       /\ Reusable(id, DigestOf(q))
       /\ user' = [user EXCEPT ![c].pc = "holding", ![c].request = q,
                               ![c].held = packs[id].request, ![c].via = "REUSED"]
  /\ UNCHANGED <<packs, voider>>

\* No hit: the pack is assembled in memory, or the budget refuses it.
Assemble(c) ==
  /\ user[c].pc = "idle"
  /\ \E q \in DOMAIN Requests :
       /\ \A id \in PackId : ~Reusable(id, DigestOf(q))
       /\ IF Assembles(Requests[q])
          THEN user' = [user EXCEPT ![c].pc = "searched", ![c].request = q, ![c].held = q]
          ELSE user' = [user EXCEPT ![c].pc = "failed", ![c].request = q]
  /\ UNCHANGED <<packs, voider>>

\* save_pack: a row with this id, whatever it holds, is taken for a replay.
LookForId(c) ==
  /\ user[c].pc = "searched"
  /\ user' = IF packs[IdOf(user[c].held)] = NoPack
             THEN [user EXCEPT ![c].pc = "missing"]
             ELSE [user EXCEPT ![c].pc = "holding", ![c].via = "IDEMPOTENT_REPLAY"]
  /\ UNCHANGED <<packs, voider>>

\* The primary key, and the unique constraint on task, attempt, digest and policy.
Collides(q) == \/ packs[IdOf(q)] # NoPack
               \/ \E id \in PackId : packs[id] # NoPack /\ DigestOf(packs[id].request) = DigestOf(q)

\* An item whose source is not an UUID cannot be stored.
Storable(q) == \A i \in DOMAIN HashOf(q).items : HashOf(q).items[i].source_is_uuid

\* save_pack and the commit of its caller: the head row and its items, or an error.
Insert(c) ==
  /\ user[c].pc = "missing"
  /\ LET q == user[c].held
     IN  IF Collides(q) \/ ~Storable(q)
         THEN CallerFails(c) /\ UNCHANGED packs
         ELSE /\ packs' = [packs EXCEPT ![IdOf(q)] =
                             [request |-> q, state |-> "READY", consumed_at |-> FALSE]]
              /\ user' = [user EXCEPT ![c].pc = "holding", ![c].via = "INSERTED"]
  /\ UNCHANGED voider

-----------------------------------------------------------------------------
(* Consumption and invalidation *)

\* The hash the caller declares is not compared.
Accepts_Fault(q, row) == row # NoPack /\ row.state \in {"READY", "CONSUMED"}

\* What the caller declares against the stored head.
Accepts(q, row) == /\ row # NoPack
                   /\ HashOf(row.request) = HashOf(q)
                   /\ DigestOf(row.request) = DigestOf(q)
                   /\ row.state \in {"READY", "CONSUMED"}

\* consume_context_pack reads the head; mark_consumed finds it in its session.
LoadForConsumption(c) ==
  /\ user[c].pc = "holding"
  /\ LET row == packs[IdOf(user[c].held)]
     IN  IF Accepts(user[c].held, row)
         THEN user' = [user EXCEPT ![c].pc = "consuming", ![c].loaded = row.state]
         ELSE CallerFails(c)
  /\ UNCHANGED <<packs, voider>>

\* Its commit: a row that was read as CONSUMED is not written.
Consume(c) ==
  /\ user[c].pc = "consuming"
  /\ LET id == IdOf(user[c].held)
     IN  packs' = IF is_legal_context_pack_transition(user[c].loaded, "CONSUMED")
                  THEN [packs EXCEPT ![id].state = "CONSUMED", ![id].consumed_at = TRUE]
                  ELSE packs
  /\ user' = [user EXCEPT ![c].pc = "accepted", ![c].loaded = "none"]
  /\ UNCHANGED voider

\* The call is made again with the same pack.
CallAgain(c) ==
  /\ user[c].pc = "accepted"
  /\ user' = [user EXCEPT ![c].pc = "holding"]
  /\ UNCHANGED <<packs, voider>>

\* The process of the caller ends, or its transaction is rolled back.
Lose(c) ==
  /\ user[c].pc \in {"searched", "missing", "consuming"}
  /\ CallerFails(c)
  /\ UNCHANGED <<packs, voider>>

\* invalidate_before_use reads the row; a state it may not leave is an error.
LoadForInvalidation(v, id) ==
  /\ voider[v] = Resting /\ packs[id] # NoPack
  /\ is_legal_context_pack_transition(packs[id].state, "INVALIDATED_BEFORE_USE")
  /\ voider' = [voider EXCEPT ![v] = [pack |-> id, loaded |-> packs[id].state]]
  /\ UNCHANGED <<packs, user>>

Invalidate(v) ==
  /\ voider[v] # Resting
  /\ packs' = [packs EXCEPT ![voider[v].pack].state = "INVALIDATED_BEFORE_USE"]
  /\ voider' = [voider EXCEPT ![v] = Resting]
  /\ UNCHANGED user

PackNext == \/ \E c \in Caller : \/ Reuse(c) \/ Assemble(c) \/ LookForId(c) \/ Insert(c)
                                 \/ LoadForConsumption(c) \/ Consume(c) \/ CallAgain(c) \/ Lose(c)
            \/ \E v \in Invalidator : \/ \E id \in PackId : LoadForInvalidation(v, id)
                                      \/ Invalidate(v)

PackSpec == PackInit /\ [][PackNext]_packVars

-----------------------------------------------------------------------------
(* Properties *)

\* A call is accepted with the stored pack and no other: not with one that a replay
\* of the same id left in the hands of its caller (consume_context_pack).
ConsumedIsStored ==
  \A c \in Caller : user[c].pc = "accepted" =>
    LET row == packs[IdOf(user[c].held)]
    IN  row # NoPack /\ row.consumed_at /\ HashOf(row.request) = HashOf(user[c].held)

InBucket(items, b) == {i \in DOMAIN items : Elastic(items[i]) /\ bucket_for_item_type[items[i].item_type] = b}

\* The tokens of the items of one bucket that were looked at before an item: it ranks
\* before none of them.
TakenBefore(items, item) ==
  TokensAt(items, {i \in InBucket(items, bucket_for_item_type[item.item_type]) : ~RanksBefore(item, items[i])})

\* A stored pack fits the window it was assembled for, bucket by bucket; it has every
\* mandatory content and no content twice, and a content it lacks did not fit, in the
\* first candidate that has it, after those that rank before this candidate
\* (compute_context_budget, select_context_items).
PackIsWithinBudget ==
  \A id \in PackId : packs[id] # NoPack =>
    LET r == Requests[packs[id].request]
        items == HashOf(packs[id].request).items
        limit == allocate_elastic_budget(r.profile, ElasticTokens(r))
        Hashes(s) == {s[i].content_hash : i \in DOMAIN s}
    IN  /\ Tokens(items) <= AvailableInput(r)
        /\ Hashes(r.mandatory_items) \subseteq Hashes(items)
        /\ Cardinality(Hashes(items)) = Len(items)
        /\ \A b \in Bucket : TokensAt(items, InBucket(items, b)) <= limit[b]
        /\ \A n \in DOMAIN r.elastic_candidates :
             LET c == r.elastic_candidates[n]
             IN  /\ c.content_hash \notin Hashes(items)
                 /\ \A m \in 1..n - 1 : r.elastic_candidates[m].content_hash # c.content_hash
                 => TakenBefore(items, c) + c.token_count > limit[bucket_for_item_type[c.item_type]]

\* A consumed pack stays consumed, and can be used again by a retry of its call, unless
\* an invalidation had read it while it was ready (mark_consumed, invalidate_before_use).
ConsumedStaysConsumed ==
  [][\A id \in PackId :
       /\ packs[id] # NoPack /\ packs[id].state = "CONSUMED"
       /\ ~ \E v \in Invalidator : voider[v].pack = id /\ voider[v].loaded = "READY"
       => packs'[id].state = "CONSUMED"]_packVars
=============================================================================
