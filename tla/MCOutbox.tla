------------------------------ MODULE MCOutbox ------------------------------
(* Model-checking instances of Outbox: two or three rows, one of which can be *)
(* undispatchable, and two publishers that may crash or overrun their leases. *)
EXTENDS Outbox

CONSTANTS m1, m2, m3, p1, p2
=============================================================================
