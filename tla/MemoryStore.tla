----------------------------- MODULE MemoryStore -----------------------------
(***************************************************************************)
(* The memories of the owners: proposals pass a deterministic gate and are *)
(* rejected, merged into a memory, or written as ACTIVE or QUARANTINED;    *)
(* memories are revised, forgotten, pinned, and recalled.                  *)
(*                                                                         *)
(* validate_and_commit reads the store and writes when its caller commits: *)
(* each is an action, and what another writer commits in between is not    *)
(* seen.  A command and a recall are one step each.  A memory is known by  *)
(* its place in memory_record.  Keys and normalised statements are         *)
(* sequences of letters, importance is in tenths.                          *)
(*                                                                         *)
(* A definition Name_Fault is not part of the model: it is Name with a     *)
(* fault that a property of the runs must notice.                          *)
(***************************************************************************)
EXTENDS Integers, FiniteSets, SequencesExt, TLC

CONSTANTS Writer,        \* transactions that propose memories
          Proposals,     \* what may be proposed, and when: a sequence
          Corrections,   \* what revise may be told, and when: [text, trust, now]
          Recalls,       \* what may be recalled: a set of requests
          Accounts,      \* owners with an account
          MaxRecords,    \* bound: memory_record rows
          MaxEdited      \* bound: the memories that commands touch

VARIABLES memories,      \* memory_record
          tombstones,    \* memory_forget_tombstone: the memories it names
          writing        \* the transactions

memoryVars == <<memories, tombstones, writing>>

-----------------------------------------------------------------------------
(* The gate *)

Ids == DOMAIN memories
Prop(id) == Proposals[memories[id].proposal]

TrustRank == [USER_EXPLICIT |-> 4, USER_DERIVED |-> 3, EVIDENCE_SUPPORTED |-> 2,
              ASSISTANT_DERIVED |-> 1]
UserTrust == {"USER_EXPLICIT", "USER_DERIVED"}
NoKey == <<>>
Never == -1

\* The parts are joined without a separator.
compute_canonical_hash(scope, kind, key, text) == <<scope, kind, key \o text>>
ProposedHash(p) == compute_canonical_hash(p.scope, p.kind, p.key, p.text)

ImportanceRange(p) ==
  IF p.explicit THEN <<10, 10>>
  ELSE IF p.kind = "SUPPORTED_FINDING" THEN <<7, 10>>
  ELSE IF p.trust \in UserTrust /\ p.kind \in {"GOAL", "CONSTRAINT"} THEN <<7, 10>>
  ELSE IF p.trust \in UserTrust /\ p.kind \in {"DECISION", "PREFERENCE"} THEN <<5, 9>>
  ELSE <<3, 7>>
clamp_importance == [q \in DOMAIN Proposals |->
                      LET range == ImportanceRange(Proposals[q])
                      IN  Min({Max({Proposals[q].importance, range[1]}), range[2]})]

ASSUME MemoryStoreAssumption ==
         /\ clamp_importance \in [DOMAIN Proposals -> 0..10]
         /\ \A q \in DOMAIN Proposals : /\ Proposals[q].trust \in DOMAIN TrustRank
                                        /\ Proposals[q].now \in Nat
         /\ \A c \in Corrections : c.trust \in DOMAIN TrustRank /\ c.now \in Nat
         /\ \A r \in Recalls : r.max_candidates \in Nat
         /\ MaxRecords \in Nat /\ MaxEdited \in Nat

assess_proposal_legality(p) ==
  /\ p.scope = "USER_PRIVATE" => p.explicit
  /\ p.trust = "ASSISTANT_DERIVED" => p.scope = "TASK"
  /\ p.kind = "SUPPORTED_FINDING" => p.source = "EVIDENCE"

\* An answer of the conflict planner: what becomes of a proposal beside a memory.
Plan(disposition, supersedes, group) ==
  [disposition |-> disposition, supersedes |-> supersedes, group |-> group]
Nil == 0       \* no memory, no group
Fresh == -1     \* a group of its own, made when the plan has none

plan_correction_or_conflict(p, id) ==
  LET memory == memories[id]
      correction == p.correction_of = id
      same_key == p.key # NoKey /\ p.key = Prop(id).key
      user_rewrite == same_key /\ p.trust = "USER_EXPLICIT" /\ p.text # memory.text
  IN  IF ~correction /\ ~same_key THEN Plan("NEW", Nil, Nil)
      ELSE IF correction \/ user_rewrite
           THEN IF TrustRank[p.trust] >= TrustRank[memory.trust] THEN Plan("CORRECT", id, Nil)
                ELSE Plan("CONFLICT", Nil, memory.group)
      ELSE IF p.text = memory.text THEN Plan("MERGE", Nil, Nil)
      ELSE Plan("CONFLICT", Nil, memory.group)

ResolveActivationState(p) ==
  IF \/ p.explicit \/ p.trust \in UserTrust
     \/ p.trust = "EVIDENCE_SUPPORTED" /\ p.kind = "SUPPORTED_FINDING"
  THEN "ACTIVE" ELSE "QUARANTINED"

MemoryState == {"PROPOSED", "ACTIVE", "SUPERSEDED", "RETRACTED", "EXPIRED", "INVALIDATED", "QUARANTINED"}

-----------------------------------------------------------------------------
(* The store *)

Active(id) == memories[id].state = "ACTIVE"
Owned(owner, scope) == {id \in Ids : Prop(id).owner = owner /\ Prop(id).scope = scope /\ Active(id)}
CanonicalHash(id) == compute_canonical_hash(Prop(id).scope, Prop(id).kind, Prop(id).key, memories[id].text)

find_active_by_hash(p) == {id \in Owned(p.owner, p.scope) : CanonicalHash(id) = ProposedHash(p)}
find_active_by_key(owner, scope, key) == {id \in Owned(owner, scope) : Prop(id).key = key}

NotWriting == [pc |-> "idle", proposal |-> 0, target |-> 0, state |-> "", supersedes |-> 0, group |-> 0,
            provenance |-> {}, saw |-> 0]

MemoryTypeOK ==
  /\ Len(memories) <= MaxRecords /\ tombstones \subseteq Ids
  /\ \A id \in Ids : LET m == memories[id]
                     IN  /\ m.state \in MemoryState \ {"PROPOSED", "EXPIRED", "INVALIDATED"}
                         /\ m.trust \in DOMAIN TrustRank /\ m.pinned \in BOOLEAN
                         /\ m.proposal \in DOMAIN Proposals
                         /\ m.supersedes \in 0..(id - 1) /\ m.group \in 0..id
                         /\ m.revision \in 1..MaxRecords /\ m.valid_from \in Nat
                         /\ m.provenance # {}
  /\ \A w \in Writer : /\ writing[w].pc \in {"idle", "merging", "inserting"}
                       /\ writing[w].target \in Ids \union {Nil}

MemoryInit == /\ memories = <<>> /\ tombstones = {}
              /\ writing = [w \in Writer |-> NotWriting]

-----------------------------------------------------------------------------
(* validate_and_commit *)

Rejected(p) == ~assess_proposal_legality(p) \/ p.sensitive
Past(p) == p.valid_until # Never /\ p.valid_until <= p.now

\* The provenance is read here and written, with the addition, at the commit.
Merges(w, q, id) ==
  writing' = [writing EXCEPT ![w] = [NotWriting EXCEPT !.pc = "merging", !.proposal = q, !.target = id,
                                       !.provenance = memories[id].provenance]]

\* A past valid_until is noticed only here, after the merges.
Inserts(w, q, plan) ==
  writing' =
    IF Past(Proposals[q]) \/ Proposals[q].owner \notin Accounts THEN writing
    ELSE [writing EXCEPT ![w] =
           [NotWriting EXCEPT !.pc = "inserting", !.proposal = q, !.supersedes = plan.supersedes,
              !.group = plan.group, !.saw = Len(memories),
              !.state = IF plan.disposition \in {"CORRECT", "CONFLICT"} THEN "ACTIVE"
                        ELSE ResolveActivationState(Proposals[q])]]

\* A conflict that found no group gets none.
WithGroup_Fault(plan) == plan
WithGroup(plan) == IF plan.disposition = "CONFLICT" /\ plan.group = Nil
                   THEN [plan EXCEPT !.group = Fresh] ELSE plan

Pending == {w \in Writer : writing[w].pc = "inserting"}

\* Everything validate_and_commit reads.  Of several memories under a key any may come first.
Begin(w, q) ==
  /\ writing[w].pc = "idle" /\ Len(memories) + Cardinality(Pending) < MaxRecords
  /\ LET p == Proposals[q]
         same == find_active_by_hash(p)
         keyed == IF p.key = NoKey THEN {} ELSE find_active_by_key(p.owner, p.scope, p.key)
     IN  /\ ~Rejected(p)
         /\ \/ \E id \in same : Merges(w, q, id)
            \/ same = {} /\ keyed = {} /\ Inserts(w, q, Plan("NEW", Nil, Nil))
            \/ /\ same = {}
               /\ \E id \in keyed :
                    LET plan == plan_correction_or_conflict(p, id)
                    IN  IF plan.disposition = "MERGE" THEN Merges(w, q, id)
                        ELSE Inserts(w, q, WithGroup(plan))
  /\ UNCHANGED <<memories, tombstones>>

\* append_provenance, at the commit of its caller.
append_provenance(w) ==
  /\ writing[w].pc = "merging"
  /\ memories' = [memories EXCEPT ![writing[w].target].provenance =
                    writing[w].provenance \union {Proposals[writing[w].proposal].source}]
  /\ writing' = [writing EXCEPT ![w] = NotWriting]
  /\ UNCHANGED <<tombstones>>

record_from_candidate(tx, id) ==
  [proposal |-> tx.proposal, text |-> Proposals[tx.proposal].text, trust |-> Proposals[tx.proposal].trust,
   state |-> tx.state, pinned |-> FALSE, supersedes |-> tx.supersedes,
   group |-> IF tx.group = Fresh THEN id ELSE tx.group, revision |-> 1, valid_from |-> Proposals[tx.proposal].now,
   provenance |-> {Proposals[tx.proposal].source}, saw |-> tx.saw]

\* commit_candidate, at the commit of its caller.
commit_candidate(w) ==
  /\ writing[w].pc = "inserting"
  /\ memories' = Append(memories, record_from_candidate(writing[w], Len(memories) + 1))
  /\ writing' = [writing EXCEPT ![w] = NotWriting]
  /\ UNCHANGED <<tombstones>>

RollBack(w) ==
  /\ writing[w].pc # "idle"
  /\ writing' = [writing EXCEPT ![w] = NotWriting]
  /\ UNCHANGED <<memories, tombstones>>

-----------------------------------------------------------------------------
(* Commands: none of them looks at the state of the memory *)

Edited == {id \in Ids : memories[id].pinned \/ id \in tombstones \/ memories[id].state = "SUPERSEDED"}
MayEdit(id) == Cardinality(Edited \union {id}) <= MaxEdited

revise(id, correction) ==
  /\ MayEdit(id) /\ Len(memories) + Cardinality(Pending) < MaxRecords
  /\ LET revised == [memories[id] EXCEPT !.text = correction.text, !.trust = correction.trust,
                       !.state = "ACTIVE", !.supersedes = id, !.revision = @ + 1, !.valid_from = correction.now,
                       !.provenance = {"MEMORY_COMMAND"}, !.saw = Len(memories)]
     IN  memories' = Append([memories EXCEPT ![id].state = "SUPERSEDED"], revised)
  /\ UNCHANGED <<tombstones, writing>>

forget(id) ==
  /\ MayEdit(id)
  /\ memories' = [memories EXCEPT ![id].state = "RETRACTED"]
  /\ tombstones' = tombstones \union {id}
  /\ UNCHANGED <<writing>>

pin(id, pinned) ==
  /\ MayEdit(id)
  /\ memories' = [memories EXCEPT ![id].pinned = pinned]
  /\ UNCHANGED <<tombstones, writing>>

MemoryNext == \/ \E w \in Writer : \/ \E q \in DOMAIN Proposals : Begin(w, q)
                                   \/ append_provenance(w) \/ commit_candidate(w) \/ RollBack(w)
              \/ \E id \in Ids : \/ \E correction \in Corrections : revise(id, correction)
                                 \/ forget(id)
                                 \/ \E pinned \in BOOLEAN : pin(id, pinned)

MemorySpec == MemoryInit /\ [][MemoryNext]_memoryVars

-----------------------------------------------------------------------------
(* recall *)

Importance(id) == clamp_importance[memories[id].proposal]

\* importance and valid_from descending, id ascending: ORDER BY, and the sort of the hits.
Before(a, b) ==
  \/ Importance(a) > Importance(b)
  \/ Importance(a) = Importance(b) /\ memories[a].valid_from > memories[b].valid_from
  \/ Importance(a) = Importance(b) /\ memories[a].valid_from = memories[b].valid_from /\ a < b

Top(ids, limit) == {id \in ids : Cardinality({other \in ids : Before(other, id)}) < limit}

\* Both channels read one more than will be answered.
Limit(r) == r.max_candidates + 1

find_recent_active(r, scope) == Top(Owned(r.owner, scope), Limit(r))
find_pinned(r, scope) == Top({id \in Owned(r.owner, scope) : memories[id].pinned}, Limit(r))
find_active_by_conflict_group(owner, group) ==
  {id \in Ids : Prop(id).owner = owner /\ Active(id) /\ memories[id].group = group}

revalidate_record(r, id) ==
  /\ Prop(id).owner = r.owner /\ Prop(id).scope \in r.scopes /\ Active(id)
  /\ memories[id].valid_from <= r.now
  /\ Prop(id).valid_until # Never => r.now < Prop(id).valid_until

OfKind(r, id) == r.required_kinds # {} => Prop(id).kind \in r.required_kinds
Valid(r, id) == revalidate_record(r, id) /\ OfKind(r, id)

\* One memory for each key and scope that has one, whichever the database finds first.
ExactKeyPicks(r) ==
  LET places == {place \in r.canonical_keys \X r.scopes :
                   find_active_by_key(r.owner, place[2], place[1]) # {}}
  IN  {picks \in [places -> Ids] :
         \A place \in places : picks[place] \in find_active_by_key(r.owner, place[2], place[1])}

\* The ACTIVE memories that share the conflict group of a hit, wherever they rank.
Siblings_Fault(r, ids) == {}
Siblings(r, ids) == {id \in UNION {find_active_by_conflict_group(r.owner, memories[hit].group) :
                                     hit \in {i \in ids : memories[i].group # Nil}} : Valid(r, id)}

\* What recall may answer: the hits it keeps and whether it says that it left some out.
recall(r) ==
  {LET found == (UNION {find_pinned(r, scope) \union find_recent_active(r, scope) : scope \in r.scopes})
                  \union {picks[place] : place \in DOMAIN picks}
       validated == {id \in found : Valid(r, id)}
       expanded == validated \union Siblings(r, validated)
   IN  [hits |-> Top(expanded, r.max_candidates),
        truncated |-> Cardinality(expanded) > r.max_candidates] : picks \in ExactKeyPicks(r)}

-----------------------------------------------------------------------------
(* Properties *)

SameSubject(a, b) == /\ Prop(a).owner = Prop(b).owner /\ Prop(a).scope = Prop(b).scope
                     /\ Prop(a).key = Prop(b).key /\ Prop(a).key # NoKey

\* Of two ACTIVE memories that say different things under one key the later one is marked:
\* it supersedes a memory, or is in a conflict group, unless their writers overlapped; and a
\* proposal never supersedes a memory of higher trust (validate_and_commit, revise).
ContradictionIsMarked ==
  \A a, b \in Ids :
    /\ Active(a) /\ Active(b) /\ a < b /\ SameSubject(a, b) /\ memories[a].text # memories[b].text
    /\ a <= memories[b].saw
    => \/ memories[b].group # Nil
       \/ /\ memories[b].supersedes # Nil
          /\ memories[b].revision = 1 =>
               LET old == memories[memories[b].supersedes]
               IN  TrustRank[memories[b].trust] >= TrustRank[old.trust]

\* recall answers valid memories of the request only; of the memories that share a
\* conflict group it keeps all or says that it left some out, also of those its channels
\* did not read; and while no scope has more memories than it reads, it answers the best
\* of all that match and says exactly when there are more (recall, find_recent_active,
\* find_active_by_conflict_group).  A group holds the later memories of a conflict only;
\* of the first one see ConflictIsShown.
RecallIsAsDefined ==
  \A r \in Recalls :
    LET matching == {id \in Ids : Valid(r, id)}
    IN  \A answer \in recall(r) :
          /\ answer.hits \subseteq matching /\ Cardinality(answer.hits) <= r.max_candidates
          /\ ~answer.truncated =>
               \A a \in answer.hits, b \in matching :
                 memories[a].group # Nil /\ memories[a].group = memories[b].group => b \in answer.hits
          /\ (\A scope \in r.scopes : Cardinality(Owned(r.owner, scope)) <= r.max_candidates + 1)
               => answer = [hits |-> Top(matching, r.max_candidates),
                            truncated |-> Cardinality(matching) > r.max_candidates]

\* b was stored ACTIVE and marked because it says something else than a under one key.
Conflict(a, b) ==
  /\ Active(a) /\ Active(b) /\ SameSubject(a, b) /\ memories[a].text # memories[b].text
  /\ a <= memories[b].saw /\ memories[b].group # Nil

\* "冲突组兄弟展开（不静默丢弃冲突双方）": siblings are added so that neither side of a conflict
\* is silently dropped, says the docstring of memory_recall_service.py:4-5.  Of two memories
\* in conflict that both match, recall answers both, or says that it left some out.
ConflictIsShown ==
  \A r \in Recalls : \A answer \in recall(r) :
    ~answer.truncated =>
      \A a, b \in Ids : Conflict(a, b) /\ Valid(r, a) /\ Valid(r, b) => (a \in answer.hits <=> b \in answer.hits)
=============================================================================
