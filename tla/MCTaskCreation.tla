--------------------------- MODULE MCTaskCreation ---------------------------
(* Model-checking instance of TaskCreation: three requests, of a user with    *)
(* two conversations and another user with one.                               *)
EXTENDS TaskCreation, TLC

CONSTANTS e1, e2, e3, u1, u2, k1, k2, v1, v2, v3, q1, q2, q3

Owners == v1 :> u1 @@ v2 :> u1 @@ v3 :> u2
MCOwnerOf == Owners
=============================================================================
