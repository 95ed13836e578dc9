--------------------------- MODULE MCGoalPlanning ---------------------------
(***************************************************************************)
(* Instances of GoalPlanning for TLC.  g1 is a goal a plan can be made for,*)
(* g2 one that asks the user.  The drafts: a chain, the same items the     *)
(* other way round, and two items that need each other.                    *)
(***************************************************************************)
EXTENDS GoalPlanning, TLC

CONSTANTS s1, s2, a1, a2, p1, p2, g1, g2, i1, i2, i3

MCDraft(needs, ready) ==
  [items |-> Item, needs |-> needs, ready |-> ready, covers |-> {g1}, resolved |-> TRUE]

Drafted ==
  {MCDraft((i1 :> {}) @@ (i2 :> {i1}) @@ (i3 :> {i2}), {i1}),
   MCDraft((i1 :> {}) @@ (i2 :> {}) @@ (i3 :> {i1, i2}), {i1, i2}),
   MCDraft((i1 :> {}) @@ (i2 :> {i3}) @@ (i3 :> {i2}), {i1})}
MCDrafts == Drafted
=============================================================================
