-------------------------- MODULE MCControlledCall --------------------------
(* Model-checking instances of ControlledCall: two executions, which may use  *)
(* the same model_call_id, and two requests that reach the bridge.            *)
EXTENDS ControlledCall, TLC

CONSTANTS r1, r2, c1, c2, h1, h2

Symmetry == Permutations({r1, r2}) \union Permutations({c1, c2}) \union Permutations({h1, h2})
=============================================================================
