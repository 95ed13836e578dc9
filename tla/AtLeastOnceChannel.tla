------------------------- MODULE AtLeastOnceChannel -------------------------
(***************************************************************************)
(* What the transactional outbox promises to the code that writes rows     *)
(* into it: a written message is eventually settled, a message settled as  *)
(* PUBLISHED has reached the receiver at least once, and a message is      *)
(* given up (DEAD) only when it can never be sent or when it has used up   *)
(* its attempts.  Nothing is promised about duplicates: the receiver may   *)
(* be reached again, even after the message was settled.                   *)
(***************************************************************************)
EXTENDS Naturals

CONSTANTS Message,      \* the messages ever written to the outbox
          Invalid,      \* those whose payload can never be dispatched
          MaxAttempts   \* attempts after which a failing message is given up

VARIABLES outcome,      \* what the outbox has decided about each message
          tries,        \* attempts made for each message
          delivered     \* messages the receiver has accepted at least once

vars == <<outcome, tries, delivered>>

TypeOK == /\ outcome \in [Message -> {"UNSENT", "WAITING", "PUBLISHED", "DEAD"}]
          /\ tries \in [Message -> Nat]
          /\ delivered \subseteq Message

Init == /\ outcome = [m \in Message |-> "UNSENT"]
        /\ tries = [m \in Message |-> 0]
        /\ delivered = {}

Write(m) == /\ outcome[m] = "UNSENT"
            /\ outcome' = [outcome EXCEPT ![m] = "WAITING"]
            /\ UNCHANGED <<tries, delivered>>

\* A publisher starts one more attempt for every message of a batch.
Attempt(batch) == /\ \A m \in batch : outcome[m] = "WAITING"
                  /\ tries' = [m \in Message |->
                                 IF m \in batch THEN tries[m] + 1 ELSE tries[m]]
                  /\ UNCHANGED <<outcome, delivered>>

\* The receiver accepts the message; a slow publisher may do this late.
Deliver(m) == /\ outcome[m] # "UNSENT"
              /\ m \notin Invalid
              /\ delivered' = delivered \union {m}
              /\ UNCHANGED <<outcome, tries>>

Publish(m) == /\ outcome[m] = "WAITING"
              /\ m \in delivered
              /\ outcome' = [outcome EXCEPT ![m] = "PUBLISHED"]
              /\ UNCHANGED <<tries, delivered>>

Abandon(m) == /\ outcome[m] = "WAITING"
              /\ m \in Invalid \/ tries[m] >= MaxAttempts
              /\ outcome' = [outcome EXCEPT ![m] = "DEAD"]
              /\ UNCHANGED <<tries, delivered>>

Next == \/ \E m \in Message : Write(m) \/ Deliver(m) \/ Publish(m) \/ Abandon(m)
        \/ \E batch \in SUBSET Message : Attempt(batch)

Spec == Init /\ [][Next]_vars
=============================================================================
