---------------------------- MODULE MCEventStream ----------------------------
(***************************************************************************)
(* Instances of EventStream for TLC: one task, one page.                   *)
(***************************************************************************)
EXTENDS EventStream
=============================================================================
