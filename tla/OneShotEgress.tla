---------------------------- MODULE OneShotEgress ----------------------------
(***************************************************************************)
(* What the egress permit and the budget promise about model calls.  A     *)
(* call is paid for before anything is sent and is sent to the provider at *)
(* most once.  It is settled once: for what the provider reported, or for  *)
(* the whole reservation.  Nothing is promised about the order of sending  *)
(* and settling: a late request may go out after its call was given up,    *)
(* and has then been paid for in full.                                     *)
(***************************************************************************)
EXTENDS Naturals

CONSTANTS Call,       \* model calls
          Reserved    \* what is reserved for a call

VARIABLES paid,       \* NEW, RESERVED or SETTLED
          charge,     \* what the call was settled for
          sent        \* calls sent to the provider

vars == <<paid, charge, sent>>

TypeOK == /\ paid \in [Call -> {"NEW", "RESERVED", "SETTLED"}]
          /\ charge \in [Call -> 0..Reserved]
          /\ sent \subseteq Call

Init == /\ paid = [c \in Call |-> "NEW"]
        /\ charge = [c \in Call |-> 0]
        /\ sent = {}

Reserve(c) == /\ paid[c] = "NEW" /\ paid' = [paid EXCEPT ![c] = "RESERVED"]
              /\ UNCHANGED <<charge, sent>>

Send(c) == /\ paid[c] # "NEW" /\ c \notin sent
           /\ sent' = sent \union {c}
           /\ UNCHANGED <<paid, charge>>

\* A part of the reservation is returned only on the report of a provider
\* that the call was sent to.
Settle(c, amount) == /\ paid[c] = "RESERVED" /\ amount \in 0..Reserved
                     /\ (amount < Reserved => c \in sent)
                     /\ paid' = [paid EXCEPT ![c] = "SETTLED"]
                     /\ charge' = [charge EXCEPT ![c] = amount]
                     /\ UNCHANGED sent

Next == \E c \in Call : Reserve(c) \/ Send(c) \/ \E amount \in 0..Reserved : Settle(c, amount)

Spec == Init /\ [][Next]_vars
=============================================================================
