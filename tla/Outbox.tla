------------------------------- MODULE Outbox -------------------------------
(***************************************************************************)
(* The transactional outbox and its publishers: claim_batch, mark_published*)
(* and _mark_failed of infrastructure/persistence/outbox.py, driven by     *)
(* OutboxPublisher / OutboxSignalPublisher.poll_once and OutboxPoller.     *)
(*                                                                         *)
(* A publisher claims a batch in one transaction, dispatches its messages  *)
(* one after the other outside any transaction, and writes each result     *)
(* back in a transaction of its own.  It may crash, and it may be so slow  *)
(* that its lease runs out and another publisher claims its rows.          *)
(*                                                                         *)
(* Time is abstracted to two facts about a row: "due" (available_at has    *)
(* been reached) and "stale" (claimed_at is older than the lease).  A      *)
(* publisher's claim_id is a fresh uuid per poll; here it is the publisher *)
(* itself, which runs one poll at a time.                                  *)
(*                                                                         *)
(* A definition Name_Fault is not part of the model: it is Name with a     *)
(* plausible fault, kept to confirm that a property notices it.            *)
(***************************************************************************)
EXTENDS Naturals, FiniteSets

CONSTANTS Message,       \* outbox rows (ids)
          Invalid,       \* rows whose payload or start context is rejected
          Publisher,     \* pollers, in one or several processes
          MaxAttempts,   \* max_attempts of the publishers (8 in the code)
          BatchSize,     \* batch_size of claim_batch (32 in the code)
          MaxFaults,     \* bound: crashes, and leases overrun by a live publisher
          NoOne          \* claimed_by IS NULL / no message at hand

ASSUME OutboxAssumption == /\ Invalid \subseteq Message
                           /\ MaxAttempts \in Nat \ {0}
                           /\ BatchSize \in Nat \ {0}
                           /\ MaxFaults \in Nat
                           /\ NoOne \notin Publisher
                           /\ NoOne \notin Message

VARIABLES row,        \* the outbox_message table
          poll,       \* each publisher's poll_once in progress
          delivered,  \* messages Temporal has accepted at least once
          faults      \* faults so far (bounds the model)

vars == <<row, poll, delivered, faults>>

-----------------------------------------------------------------------------
(* State *)

RowStatus == {"ABSENT", "PENDING", "PUBLISHING", "PUBLISHED", "DEAD"}

\* outbox_message: publish_status, claimed_by, attempt_count and the two clocks.
Row == [status : RowStatus, claimedBy : Publisher \union {NoOne},
        attempts : Nat, due : BOOLEAN, stale : BOOLEAN]

\* poll_once: the claimed messages not yet dealt with, the attempt_count each
\* was claimed with, the message being dispatched and how that went.
Poll == [step : {"idle", "next", "sent", "failed", "invalid"},
         todo : SUBSET Message, cur : Message \union {NoOne},
         seen : [Message -> Nat]]

IdlePoll == [step |-> "idle", todo |-> {}, cur |-> NoOne,
             seen |-> [m \in Message |-> 0]]

Settled(m) == row[m].status \in {"PUBLISHED", "DEAD"}

TypeOK == /\ row \in [Message -> Row]
          /\ poll \in [Publisher -> Poll]
          /\ delivered \subseteq Message
          /\ faults \in 0..MaxFaults

Init == /\ row = [m \in Message |-> [status |-> "ABSENT", claimedBy |-> NoOne,
                                     attempts |-> 0, due |-> FALSE, stale |-> FALSE]]
        /\ poll = [p \in Publisher |-> IdlePoll]
        /\ delivered = {}
        /\ faults = 0

-----------------------------------------------------------------------------
(* Producers and clocks *)

\* The business transaction inserts the row as PENDING with available_at = now.
Enqueue(m) ==
  /\ row[m].status = "ABSENT"
  /\ row' = [row EXCEPT ![m] = [@ EXCEPT !.status = "PENDING", !.due = TRUE]]

\* available_at of a row put back by mark_retry is reached.
BackoffElapses(m) ==
  /\ row[m].status = "PENDING" /\ ~ row[m].due
  /\ row' = [row EXCEPT ![m] = [@ EXCEPT !.due = TRUE]]
  /\ UNCHANGED <<poll, delivered, faults>>

Abandoned(m) == \A p \in Publisher : p = row[m].claimedBy => m \notin poll[p].todo

\* claimed_at falls behind the lease.  If the claimer is still at work on the
\* row it has overrun its lease, which counts as a fault.
LeaseLapses(m) ==
  /\ row[m].status = "PUBLISHING" /\ ~ row[m].stale
  /\ \/ Abandoned(m) /\ UNCHANGED faults
     \/ ~ Abandoned(m) /\ faults < MaxFaults /\ faults' = faults + 1
  /\ row' = [row EXCEPT ![m] = [@ EXCEPT !.stale = TRUE]]
  /\ UNCHANGED <<poll, delivered>>

-----------------------------------------------------------------------------
(* Publishers *)

\* Fault: claims of dead publishers are never taken over.
Claimable_PendingOnly(m) == row[m].status = "PENDING" /\ row[m].due

Claimable(m) == \/ row[m].status = "PENDING" /\ row[m].due
                \/ row[m].status = "PUBLISHING" /\ row[m].stale

\* claim_batch: rows locked by another transaction are skipped, so any part of
\* the claimable rows may be the batch.  attempt_count grows on every claim.
ClaimBatch(p, batch) ==
  /\ poll[p].step = "idle"
  /\ batch # {} /\ Cardinality(batch) <= BatchSize
  /\ \A m \in batch : Claimable(m)
  /\ row' = [m \in Message |->
               IF m \in batch
               THEN [status |-> "PUBLISHING", claimedBy |-> p,
                     attempts |-> row[m].attempts + 1, due |-> TRUE, stale |-> FALSE]
               ELSE row[m]]
  /\ poll' = [poll EXCEPT ![p] =
                [step |-> "next", todo |-> batch, cur |-> NoOne,
                 seen |-> [m \in Message |->
                             IF m \in batch THEN row[m].attempts + 1 ELSE 0]]]
  /\ UNCHANGED <<delivered, faults>>

\* _dispatch: the payload is rejected, or the start context is missing.
RejectPayload(p, m) ==
  /\ poll[p].step = "next" /\ m \in poll[p].todo /\ m \in Invalid
  /\ poll' = [poll EXCEPT ![p] = [@ EXCEPT !.step = "invalid", !.cur = m]]
  /\ UNCHANGED <<row, delivered, faults>>

\* Fault: an exception of the call is taken for a success.
Send_ErrorsSwallowed(p, m, accepted, acked) ==
  /\ poll[p].step = "next" /\ m \in poll[p].todo /\ m \notin Invalid
  /\ acked => accepted
  /\ delivered' = IF accepted THEN delivered \union {m} ELSE delivered
  /\ poll' = [poll EXCEPT ![p] = [@ EXCEPT !.step = "sent", !.cur = m]]
  /\ UNCHANGED <<row, faults>>

\* _dispatch: the call to Temporal.  It may be accepted and yet end in an
\* exception (the answer is lost); any exception is treated as a failure.
Send(p, m, accepted, acked) ==
  /\ poll[p].step = "next" /\ m \in poll[p].todo /\ m \notin Invalid
  /\ acked => accepted
  /\ delivered' = IF accepted THEN delivered \union {m} ELSE delivered
  /\ poll' = [poll EXCEPT ![p] = [@ EXCEPT !.step = IF acked THEN "sent" ELSE "failed", !.cur = m]]
  /\ UNCHANGED <<row, faults>>

\* The row is still PUBLISHING under this publisher's claim: the WHERE clause
\* of mark_published and _mark_failed.
HoldsClaim(p, m) == row[m].status = "PUBLISHING" /\ row[m].claimedBy = p

\* mark_retry gives up at max_attempts, judged by the count at claim time.
FailedStatus(p, m) ==
  IF poll[p].step = "invalid" \/ poll[p].seen[m] >= MaxAttempts THEN "DEAD" ELSE "PENDING"

NextMessage(p) ==
  LET rest == poll[p].todo \ {poll[p].cur}
  IN  poll' = [poll EXCEPT ![p] = IF rest = {} THEN IdlePoll
                                  ELSE [@ EXCEPT !.step = "next", !.todo = rest, !.cur = NoOne]]

MarkPublished(p) ==
  LET m == poll[p].cur IN
  /\ poll[p].step = "sent"
  /\ row' = IF HoldsClaim(p, m)
            THEN [row EXCEPT ![m] = [@ EXCEPT !.status = "PUBLISHED", !.claimedBy = NoOne,
                                            !.stale = FALSE]]
            ELSE row
  /\ NextMessage(p)
  /\ UNCHANGED <<delivered, faults>>

MarkFailed(p) ==
  LET m == poll[p].cur IN
  /\ poll[p].step \in {"failed", "invalid"}
  /\ row' = IF HoldsClaim(p, m)
            THEN [row EXCEPT ![m] = [@ EXCEPT !.status = FailedStatus(p, m), !.claimedBy = NoOne,
                                            !.due = FALSE, !.stale = FALSE]]
            ELSE row
  /\ NextMessage(p)
  /\ UNCHANGED <<delivered, faults>>

\* The process dies, or the write-back raises and OutboxPoller swallows it:
\* the rest of the batch stays PUBLISHING until its lease has run out.
Crash(p) ==
  /\ poll[p].step # "idle"
  /\ faults < MaxFaults
  /\ faults' = faults + 1
  /\ poll' = [poll EXCEPT ![p] = IdlePoll]
  /\ UNCHANGED <<row, delivered>>

\* Every row is settled and every poller finds nothing to claim.
Quiescent == /\ \A m \in Message : Settled(m)
             /\ \A p \in Publisher : poll[p].step = "idle"
             /\ UNCHANGED vars

Dispatch(p) == \E m \in Message :
                 \/ RejectPayload(p, m)
                 \/ \E accepted, acked \in BOOLEAN : Send(p, m, accepted, acked)

Next == \/ \E m \in Message : Enqueue(m) /\ UNCHANGED <<poll, delivered, faults>>
        \/ \E m \in Message : BackoffElapses(m) \/ LeaseLapses(m)
        \/ \E p \in Publisher : \E batch \in SUBSET Message : ClaimBatch(p, batch)
        \/ \E p \in Publisher : Dispatch(p) \/ MarkPublished(p) \/ MarkFailed(p) \/ Crash(p)
        \/ Quiescent

\* OutboxPoller runs for ever and swallows what poll_once raises; clocks advance.
\* Nothing obliges a publisher to claim one particular row.
Fairness == /\ \A m \in Message : WF_vars(BackoffElapses(m)) /\ WF_vars(LeaseLapses(m))
            /\ \A p \in Publisher :
                 /\ WF_vars(\E batch \in SUBSET Message : ClaimBatch(p, batch))
                 /\ WF_vars(Dispatch(p) \/ MarkPublished(p) \/ MarkFailed(p))

Spec == Init /\ [][Next]_vars
FairSpec == Spec /\ Fairness

-----------------------------------------------------------------------------
(* Properties *)

\* A row is PUBLISHED only if Temporal accepted the message: no crash, lapsed
\* lease or stale write-back turns a message that was never sent into a success.
PublishedWasDelivered == \A m \in Message : row[m].status = "PUBLISHED" => m \in delivered

\* A row is given up only if it can never be sent or has used all its attempts,
\* although mark_retry decides on the count read when the batch was claimed.
DeadWasExhausted ==
  \A m \in Message : row[m].status = "DEAD" => m \in Invalid \/ row[m].attempts >= MaxAttempts

\* A settled row is never reopened, whatever a superseded publisher writes late.
SettledForGood == [][\A m \in Message : Settled(m) => row'[m] = row[m]]_vars

\* The claimer of m has just dealt with it.
ResolvedByClaimer(m) == \E p \in Publisher : /\ row[m].claimedBy = p /\ poll[p].cur = m
                                             /\ m \notin poll'[p].todo

\* Only the publisher that holds the claim takes a row out of PUBLISHING, as the
\* message it is dealing with; a publisher whose lease was taken over cannot.
OnlyClaimerResolves ==
  [][\A m \in Message :
       row[m].status = "PUBLISHING" /\ row'[m].status # "PUBLISHING" => ResolvedByClaimer(m)]_vars

\* Every written row is eventually PUBLISHED or DEAD: no row is stranded by a
\* publisher that died with it.
EverythingSettles == \A m \in Message : (row[m].status = "PENDING") ~> Settled(m)

\* How a row looks from outside: under claim it is a message still waiting.
ChannelOutcome(m) == IF row[m].status = "ABSENT" THEN "UNSENT"
                     ELSE IF row[m].status \in {"PENDING", "PUBLISHING"} THEN "WAITING"
                     ELSE row[m].status

Channel == INSTANCE AtLeastOnceChannel WITH
             outcome <- [m \in Message |-> ChannelOutcome(m)],
             tries <- [m \in Message |-> row[m].attempts]

\* The outbox implements the abstract at-least-once channel: what crashes, lost
\* answers and superseded publishers do to the table is one of the channel's steps.
ImplementsChannel == Channel!Spec
=============================================================================
