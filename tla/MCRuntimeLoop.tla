--------------------------- MODULE MCRuntimeLoop ---------------------------
(* Model-checking instances of RuntimeLoop: one or two drivers, with smaller *)
(* thresholds in the order the code has them.                                *)
EXTENDS RuntimeLoop

CONSTANTS d1, d2
=============================================================================
