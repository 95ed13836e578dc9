----------------------------- MODULE MCSideBySide -----------------------------
(* The components that are neither servers nor loops, side by side for TLC: the       *)
(* creation of tasks, the planning of one, and what its prompts are made from.        *)
(* A behaviour is of one of the six, which share no state; the others stay as they    *)
(* begin.                                                                             *)
EXTENDS MCTaskCreation, MCGoalPlanning, MCContext

VARIABLE part

allVars == <<creationVars, vars, packVars, memoryVars, chunkVars, rankVars, part>>

\* Each part is symmetric by itself, so that one permutation serves several: the model
\* values of k1, s1 and w1 are one, so are those of e1, a1 and c1, and of q1 and p1, and so
\* on for the second of each.
MCSymmetry == Permutations({k1, k2}) \union Permutations({e1, e2}) \union Permutations({q1, q2})

\* No request was made.  (One that stands still would have a key, and break the symmetry.)
NoRequest ==
  /\ asked = <<>> /\ tasks = {} /\ idem = {} /\ messages = {} /\ losses = 0
  /\ creation = [e \in Exec |-> [pc |-> "waiting", sequence |-> 0, answer |-> Unset, named |-> Unset]]

PartsInit ==
  /\ \/ part = "creation" /\ CreationInit
     \/ part \in {"planning", "memories", "packs", "chunks", "ranking"} /\ NoRequest
  /\ Init /\ (part # "planning" => clock = "ample")
  /\ MemoryInit /\ PackInit /\ ChunkInit /\ RankInit

PartsNext ==
  /\ \/ part = "creation" /\ CreationNext /\ UNCHANGED <<vars, packVars, memoryVars, chunkVars, rankVars>>
     \/ part = "planning" /\ Next /\ UNCHANGED <<creationVars, packVars, memoryVars, chunkVars, rankVars>>
     \/ part = "packs" /\ PackNext /\ UNCHANGED <<creationVars, vars, memoryVars, chunkVars, rankVars>>
     \/ part = "memories" /\ MemoryNext /\ UNCHANGED <<creationVars, vars, packVars, chunkVars, rankVars>>
     \/ part = "chunks" /\ ChunkNext /\ UNCHANGED <<creationVars, vars, packVars, memoryVars, rankVars>>
     \/ part = "ranking" /\ RankNext /\ UNCHANGED <<creationVars, vars, packVars, memoryVars, chunkVars>>
  /\ UNCHANGED part

PartsSpec == PartsInit /\ [][PartsNext]_allVars
=============================================================================
