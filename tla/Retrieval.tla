------------------------------ MODULE Retrieval ------------------------------
(***************************************************************************)
(* What becomes of the candidates of the retrieval channels                *)
(* (modules/knowledge/domain/retrieval.py): fusion by reciprocal rank and  *)
(* removal of duplicates.                                                  *)
(*                                                                         *)
(* Scores are natural numbers: a share 1 / (k + rank) is counted in parts  *)
(* of Unit, a common multiple, so that no rounding of floats breaks a tie. *)
(***************************************************************************)
EXTENDS Integers, FiniteSets, SequencesExt

CONSTANTS Chunk, TextHash,
          Recalled,      \* the answers of the channels, each a sequence of result lists
          rrf_k, Unit,
          Absent         \* no score, no text hash

Score == Nat \union {Absent}
Candidate == [chunk_id : Chunk, text_hash : TextHash \union {Absent},
              rerank_score : Score, fusion_score : Score, lexical_score : Score, vector_score : Score]

ASSUME RankConstants ==
  rrf_k \in Nat \ {0} /\ Unit \in Nat \ {0} /\ Recalled \subseteq Seq(Seq(Candidate))

VARIABLES lists,      \* what the channels answered
          ranking     \* the candidates as far as they are ranked

rankVars == <<lists, ranking>>

-----------------------------------------------------------------------------
(* Fusion *)

FirstOf(a, b) == IF a = Absent THEN b ELSE a

\* A candidate met again adds its share, and what the first lacked.
Combined(old, c) ==
  [old EXCEPT !.fusion_score = @ + c.fusion_score,
              !.lexical_score = FirstOf(@, c.lexical_score),
              !.vector_score = FirstOf(@, c.vector_score),
              !.text_hash = FirstOf(@, c.text_hash)]

PlaceOf(chunk, candidates) == {i \in DOMAIN candidates : candidates[i].chunk_id = chunk}

Fuse(candidates, c) ==
  IF PlaceOf(c.chunk_id, candidates) = {} THEN Append(candidates, c)
  ELSE [candidates EXCEPT ![CHOOSE i \in PlaceOf(c.chunk_id, candidates) : TRUE] = Combined(@, c)]

Weighted(list) ==
  [r \in DOMAIN list |-> [list[r] EXCEPT !.fusion_score = Unit \div (rrf_k + r), !.rerank_score = Absent]]

\* Descending, and stable: the place of a candidate is how many come before it.
ByFusion(candidates) ==
  LET Before(i, j) == \/ candidates[i].fusion_score > candidates[j].fusion_score
                      \/ candidates[i].fusion_score = candidates[j].fusion_score /\ i < j
      place == [i \in DOMAIN candidates |-> Cardinality({j \in DOMAIN candidates : Before(j, i)}) + 1]
  IN  [n \in DOMAIN candidates |-> candidates[CHOOSE i \in DOMAIN candidates : place[i] = n]]

rrf(results) ==
  LET all == FlattenSeq([l \in DOMAIN results |-> Weighted(results[l])])
      fused[n \in 0..Len(all)] == IF n = 0 THEN <<>> ELSE Fuse(fused[n - 1], all[n])
  IN  ByFusion(fused[Len(all)])

-----------------------------------------------------------------------------
(* Duplicates *)

Scores(c) == {c.rerank_score, c.fusion_score, c.lexical_score, c.vector_score} \ {Absent}

\* -1 stands for minus infinity.
dedup_score(c) == IF Scores(c) = {} THEN -1 ELSE Max(Scores(c))

\* Fault: the comparison is the other way round.
Better_Fault(c, d) == dedup_score(c) < dedup_score(d)
Better(c, d) == dedup_score(c) > dedup_score(d)

KeepOfChunk(kept, c) ==
  LET places == PlaceOf(c.chunk_id, kept)
      i == CHOOSE n \in places : TRUE
  IN  IF places = {} THEN Append(kept, c)
      ELSE IF Better(c, kept[i]) THEN [kept EXCEPT ![i] = c] ELSE kept

\* The best of every chunk, in the place of the first.
UniqueChunks(candidates) ==
  LET kept[n \in 0..Len(candidates)] ==
        IF n = 0 THEN <<>> ELSE KeepOfChunk(kept[n - 1], candidates[n])
  IN  kept[Len(candidates)]

KeepOfText(best, c) ==
  IF c.text_hash = Absent \/ (c.text_hash \in DOMAIN best /\ ~ Better(c, best[c.text_hash])) THEN best
  ELSE [t \in DOMAIN best \union {c.text_hash} |-> IF t = c.text_hash THEN c ELSE best[t]]

\* The best of every text.
BestOfText(candidates) ==
  LET best[n \in 0..Len(candidates)] ==
        IF n = 0 THEN <<>> ELSE KeepOfText(best[n - 1], candidates[n])
  IN  best[Len(candidates)]

dedup_candidates(candidates) ==
  LET unique == UniqueChunks(candidates)
      best == BestOfText(unique)
      kept_ids == {best[t].chunk_id : t \in DOMAIN best}
      kept[n \in 0..Len(unique)] ==
        IF n = 0 THEN <<>>
        ELSE IF unique[n].text_hash = Absent \/ unique[n].chunk_id \in kept_ids
             THEN Append(kept[n - 1], unique[n]) ELSE kept[n - 1]
  IN  kept[Len(unique)]

-----------------------------------------------------------------------------
(* A query: the channels answer, their answers are fused or only pooled, and the
   duplicates are removed. *)

RankInit == lists = <<>> /\ ranking = [step |-> "none"]

Recall ==
  /\ lists = <<>>
  /\ lists' \in Recalled
  /\ UNCHANGED ranking

FuseLists ==
  /\ lists # <<>> /\ ranking.step = "none"
  /\ ranking' = [step |-> "fused", candidates |-> rrf(lists)]
  /\ UNCHANGED lists

\* The candidates of every channel as they came, a chunk more than once.
Pool ==
  /\ lists # <<>> /\ ranking.step = "none"
  /\ ranking' = [step |-> "pooled", candidates |-> FlattenSeq(lists)]
  /\ UNCHANGED lists

RemoveDuplicates ==
  /\ ranking.step \in {"fused", "pooled"}
  /\ ranking' = [step |-> "unique", candidates |-> ranking.candidates, kept |-> dedup_candidates(ranking.candidates)]
  /\ UNCHANGED lists

RankNext == Recall \/ FuseLists \/ Pool \/ RemoveDuplicates
RankSpec == RankInit /\ [][RankNext]_rankVars

-----------------------------------------------------------------------------
(* Properties *)

\* No duplicate is left, and none that was better is lost: whoever goes gives way to one
\* of the same chunk, or of the text of that chunk, with at least its score; the rest
\* keep the order in which their chunks were first met (dedup_candidates).
BestIsKept ==
  ranking.step = "unique" =>
    LET all == ranking.candidates
        kept == ranking.kept
        FirstMet(c) == Min(PlaceOf(c.chunk_id, all))
    IN  /\ \A i, j \in DOMAIN kept : i < j =>
             /\ FirstMet(kept[i]) < FirstMet(kept[j])
             /\ kept[i].text_hash = kept[j].text_hash => kept[i].text_hash = Absent
        /\ \A c \in ToSet(all) : \E k \in ToSet(kept) :
             /\ dedup_score(k) >= dedup_score(c)
             /\ \E d \in ToSet(all) :
                  /\ d.chunk_id = c.chunk_id
                  /\ k = d \/ (k.text_hash = d.text_hash /\ k.text_hash # Absent)
=============================================================================
