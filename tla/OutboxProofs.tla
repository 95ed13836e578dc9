---------------------------- MODULE OutboxProofs ----------------------------
(***************************************************************************)
(* Proofs about module Outbox, for any number of rows and publishers, any  *)
(* batch size, attempt limit and number of faults.                         *)
(*                                                                         *)
(* The safety invariants are not inductive: what makes a PUBLISHED row     *)
(* truthful is what the publisher knows between the call and the write-    *)
(* back, and what makes a DEAD row justified is that the attempt_count a   *)
(* publisher read at claim time never exceeds the one in the table.        *)
(***************************************************************************)
EXTENDS Outbox, TLAPS

\* What a publisher knows of the message it has just dispatched.
DispatchKnown ==
  \A p \in Publisher :
    /\ poll[p].step = "sent" => poll[p].cur \in delivered
    /\ poll[p].step = "failed" => poll[p].cur \in Message
    /\ poll[p].step = "invalid" => poll[p].cur \in Invalid

\* An attempt_count read at claim time is never ahead of the table.
SnapshotBehind ==
  \A p \in Publisher, m \in Message : poll[p].seen[m] <= row[m].attempts

\* Only rows that were written are ever claimed.
ClaimedWasWritten ==
  \A p \in Publisher : \A m \in poll[p].todo : row[m].status # "ABSENT"

IInv == /\ TypeOK /\ DispatchKnown /\ SnapshotBehind /\ ClaimedWasWritten
        /\ PublishedWasDelivered /\ DeadWasExhausted

-----------------------------------------------------------------------------
LEMMA IdlePollType == IdlePoll \in Poll
  BY DEF IdlePoll, Poll

LEMMA InitType == Init => TypeOK
  BY OutboxAssumption, IdlePollType DEF Init, TypeOK, Row, RowStatus

\* Going on to the next message of the batch keeps the poll well-formed.
LEMMA NextMessageType ==
  ASSUME TypeOK, NEW p \in Publisher, NextMessage(p)
  PROVE  poll' \in [Publisher -> Poll]
  <1> DEFINE rest == poll[p].todo \ {poll[p].cur}
  <1>1. CASE rest = {}
    BY <1>1, IdlePollType DEF TypeOK, NextMessage
  <1>2. CASE rest # {}
    <2>1. [poll[p] EXCEPT !.step = "next", !.todo = rest, !.cur = NoOne] \in Poll
      BY DEF TypeOK, Poll
    <2>. QED BY <1>2, <2>1 DEF TypeOK, NextMessage
  <1>. QED BY <1>1, <1>2

\* Every field update a publisher or a clock makes leaves a well-formed row.
LEMMA RowUpdates ==
  ASSUME NEW r \in Row, NEW s \in RowStatus
  PROVE  /\ [r EXCEPT !.status = s, !.due = TRUE] \in Row
         /\ [r EXCEPT !.due = TRUE] \in Row
         /\ [r EXCEPT !.stale = TRUE] \in Row
         /\ [r EXCEPT !.status = s, !.claimedBy = NoOne, !.stale = FALSE] \in Row
         /\ [r EXCEPT !.status = s, !.claimedBy = NoOne, !.due = FALSE, !.stale = FALSE] \in Row
  <1>1. [r EXCEPT !.status = s, !.due = TRUE] \in Row
    BY Zenon DEF Row
  <1>2. [r EXCEPT !.due = TRUE] \in Row
    BY Zenon DEF Row
  <1>3. [r EXCEPT !.stale = TRUE] \in Row
    BY Zenon DEF Row
  <1>4. [r EXCEPT !.status = s, !.claimedBy = NoOne, !.stale = FALSE] \in Row
    BY Zenon DEF Row
  <1>5. [r EXCEPT !.status = s, !.claimedBy = NoOne, !.due = FALSE, !.stale = FALSE] \in Row
    BY Zenon DEF Row
  <1>. QED BY <1>1, <1>2, <1>3, <1>4, <1>5

\* So does every step of a dispatch in a poll.
LEMMA PollUpdates ==
  ASSUME NEW q \in Poll, NEW m \in Message, NEW s \in {"sent", "failed", "invalid"}
  PROVE  [q EXCEPT !.step = s, !.cur = m] \in Poll
  BY Zenon DEF Poll

LEMMA StepType ==
  ASSUME TypeOK, [Next]_vars PROVE TypeOK'
  <1>1. ASSUME NEW m \in Message, Enqueue(m) \/ BackoffElapses(m) \/ LeaseLapses(m)
        PROVE  row' \in [Message -> Row]
    <2>1. "PENDING" \in RowStatus /\ row[m] \in Row
      BY DEF RowStatus, TypeOK
    <2>. QED BY <1>1, <2>1, RowUpdates, Zenon DEF TypeOK, Enqueue, BackoffElapses, LeaseLapses
  <1>2. ASSUME NEW p \in Publisher, NEW batch \in SUBSET Message, ClaimBatch(p, batch)
        PROVE  row' \in [Message -> Row] /\ poll' \in [Publisher -> Poll]
    <2>1. \A m \in Message : row[m].attempts + 1 \in Nat
      BY DEF TypeOK, Row
    <2>2. \A m \in Message : row'[m] \in Row
      BY <1>2, <2>1 DEF ClaimBatch, TypeOK, Row, RowStatus
    <2>3. [step |-> "next", todo |-> batch, cur |-> NoOne,
           seen |-> [m \in Message |->
                       IF m \in batch THEN row[m].attempts + 1 ELSE 0]] \in Poll
      BY <2>1 DEF Poll
    <2>. QED BY <1>2, <2>2, <2>3 DEF ClaimBatch, TypeOK
  <1>3. ASSUME NEW p \in Publisher, NEW m \in Message,
               RejectPayload(p, m) \/ \E accepted, acked \in BOOLEAN : Send(p, m, accepted, acked)
        PROVE  poll' \in [Publisher -> Poll] /\ delivered' \subseteq Message
    <2>1. CASE RejectPayload(p, m)
      BY <2>1, PollUpdates DEF RejectPayload, TypeOK
    <2>2. CASE \E accepted, acked \in BOOLEAN : Send(p, m, accepted, acked)
      <3>. PICK accepted \in BOOLEAN, acked \in BOOLEAN : Send(p, m, accepted, acked)
        BY <2>2
      <3>1. (IF acked THEN "sent" ELSE "failed") \in {"sent", "failed", "invalid"}
        OBVIOUS
      <3>2. poll' \in [Publisher -> Poll]
        BY <3>1, PollUpdates DEF Send, TypeOK
      <3>. QED BY <3>2 DEF Send, TypeOK
    <2>. QED BY <1>3, <2>1, <2>2
  <1>4. ASSUME NEW p \in Publisher, MarkPublished(p) \/ MarkFailed(p)
        PROVE  row' \in [Message -> Row] /\ poll' \in [Publisher -> Poll]
    <2> DEFINE m == poll[p].cur
    <2>1. poll' \in [Publisher -> Poll]
      BY <1>4, NextMessageType DEF MarkPublished, MarkFailed
    <2>2. CASE m \notin Message
      BY <1>4, <2>1, <2>2 DEF MarkPublished, MarkFailed, TypeOK
    <2>3. CASE m \in Message
      <3>1. row[m] \in Row /\ "PUBLISHED" \in RowStatus /\ FailedStatus(p, m) \in RowStatus
        BY <2>3 DEF TypeOK, FailedStatus, RowStatus
      <3>. QED BY <1>4, <2>1, <2>3, <3>1, RowUpdates DEF MarkPublished, MarkFailed, TypeOK
    <2>. QED BY <2>2, <2>3
  <1>5. ASSUME NEW p \in Publisher, Crash(p)
        PROVE  poll' \in [Publisher -> Poll] /\ faults' \in 0..MaxFaults
    BY <1>5, IdlePollType, OutboxAssumption DEF Crash, TypeOK
  <1>6. ASSUME NEW m \in Message, LeaseLapses(m)
        PROVE  faults' \in 0..MaxFaults
    BY <1>6, OutboxAssumption DEF LeaseLapses, TypeOK
  <1>7. CASE \E m \in Message : Enqueue(m) /\ UNCHANGED <<poll, delivered, faults>>
    BY <1>1, <1>7 DEF TypeOK
  <1>8. CASE \E m \in Message : BackoffElapses(m) \/ LeaseLapses(m)
    BY <1>1, <1>6, <1>8 DEF TypeOK, BackoffElapses, LeaseLapses
  <1>9. CASE \E p \in Publisher : \E batch \in SUBSET Message : ClaimBatch(p, batch)
    BY <1>2, <1>9 DEF TypeOK, ClaimBatch
  <1>10. CASE \E p \in Publisher : Dispatch(p)
    BY <1>3, <1>10, Zenon DEF TypeOK, Dispatch, RejectPayload, Send
  <1>11. CASE \E p \in Publisher : MarkPublished(p) \/ MarkFailed(p)
    BY <1>4, <1>11, Zenon DEF TypeOK, MarkPublished, MarkFailed
  <1>12. CASE \E p \in Publisher : Crash(p)
    BY <1>5, <1>12 DEF TypeOK, Crash
  <1>13. CASE UNCHANGED vars
    BY <1>13 DEF TypeOK, vars
  <1>. QED BY <1>7, <1>8, <1>9, <1>10, <1>11, <1>12, <1>13 DEF Next, Quiescent

\* The table, the polls in progress and the fault count keep their types.
THEOREM TypeCorrect == Spec => []TypeOK
  <1>1. Init => TypeOK
    BY InitType
  <1>2. TypeOK /\ [Next]_vars => TypeOK'
    BY StepType
  <1>. QED BY <1>1, <1>2, PTL DEF Spec

-----------------------------------------------------------------------------
(* What one step does, row by row and publisher by publisher. *)

\* The publisher is done with the message at hand; nothing else of its poll that
\* matters has changed, and the other publishers are not concerned.
LEMMA NextMessageEffect ==
  ASSUME TypeOK, NEW p \in Publisher, NextMessage(p)
  PROVE  /\ \A q \in Publisher \ {p} : poll'[q] = poll[q]
         /\ poll'[p].step \in {"idle", "next"}
         /\ poll'[p].todo \subseteq poll[p].todo \ {poll[p].cur}
         /\ \A m \in Message : poll'[p].seen[m] \in {0, poll[p].seen[m]}
  <1> DEFINE rest == poll[p].todo \ {poll[p].cur}
  <1>1. CASE rest = {}
    BY <1>1 DEF TypeOK, NextMessage, IdlePoll
  <1>2. CASE rest # {}
    <2>1. poll' = [poll EXCEPT ![p] = [@ EXCEPT !.step = "next", !.todo = rest, !.cur = NoOne]]
      BY <1>2 DEF NextMessage
    <2>2. poll[p] \in Poll
      BY DEF TypeOK
    <2>3. /\ poll'[p].step = "next" /\ poll'[p].todo = rest
          /\ poll'[p].seen = poll[p].seen
      BY <2>1, <2>2 DEF TypeOK, Poll
    <2>. QED BY <2>1, <2>3 DEF TypeOK
  <1>. QED BY <1>1, <1>2

\* A write-back settles the row, or puts it back, if the claim still holds; it
\* leaves every other row and every attempt_count alone.
LEMMA WriteBackEffect ==
  ASSUME TypeOK, NEW p \in Publisher, MarkPublished(p) \/ MarkFailed(p)
  PROVE  /\ NextMessage(p) /\ UNCHANGED <<delivered, faults>>
         /\ \A m \in Message : row'[m].attempts = row[m].attempts
         /\ \A m \in Message :
              \/ row'[m] = row[m]
              \/ /\ m = poll[p].cur /\ HoldsClaim(p, m)
                 /\ \/ poll[p].step = "sent" /\ row'[m].status = "PUBLISHED"
                    \/ /\ poll[p].step \in {"failed", "invalid"}
                       /\ row'[m].status = FailedStatus(p, m)
  <1> DEFINE c == poll[p].cur
  <1>1. CASE c \in Message /\ HoldsClaim(p, c)
    <2>1. row[c] \in Row
      BY <1>1 DEF TypeOK
    <2>2. CASE MarkPublished(p)
      <3>1. row' = [row EXCEPT ![c] = [@ EXCEPT !.status = "PUBLISHED", !.claimedBy = NoOne,
                                               !.stale = FALSE]]
        BY <1>1, <2>2 DEF MarkPublished
      <3>2. row'[c].status = "PUBLISHED" /\ row'[c].attempts = row[c].attempts
        BY <1>1, <2>1, <3>1 DEF TypeOK, Row
      <3>. QED BY <1>1, <2>2, <3>1, <3>2 DEF MarkPublished, TypeOK
    <2>3. CASE MarkFailed(p)
      <3>1. row' = [row EXCEPT ![c] = [@ EXCEPT !.status = FailedStatus(p, c),
                                               !.claimedBy = NoOne,
                                               !.due = FALSE, !.stale = FALSE]]
        BY <1>1, <2>3 DEF MarkFailed
      <3>2. row'[c].status = FailedStatus(p, c) /\ row'[c].attempts = row[c].attempts
        BY <1>1, <2>1, <3>1 DEF TypeOK, Row
      <3>. QED BY <1>1, <2>3, <3>1, <3>2 DEF MarkFailed, TypeOK
    <2>. QED BY <2>2, <2>3
  <1>2. CASE ~ (c \in Message /\ HoldsClaim(p, c))
    <2>1. \A m \in Message : row'[m] = row[m]
      BY <1>2 DEF MarkPublished, MarkFailed, TypeOK
    <2>. QED BY <2>1 DEF MarkPublished, MarkFailed
  <1>. QED BY <1>1, <1>2

\* Producers and clocks: a row is written, or keeps its status and its count.
LEMMA ClockEffect ==
  ASSUME TypeOK, NEW m \in Message, Enqueue(m) \/ BackoffElapses(m) \/ LeaseLapses(m)
  PROVE  /\ \A n \in Message \ {m} : row'[n] = row[n]
         /\ row'[m].attempts = row[m].attempts
         /\ \/ row'[m].status = row[m].status
            \/ row[m].status = "ABSENT" /\ row'[m].status = "PENDING"
  <1>1. row[m] \in Row
    BY DEF TypeOK
  <1>. QED BY <1>1, Zenon DEF TypeOK, Row, Enqueue, BackoffElapses, LeaseLapses

\* A claim takes over the rows of the batch and counts an attempt for each.
LEMMA ClaimEffect ==
  ASSUME TypeOK, NEW p \in Publisher, NEW batch \in SUBSET Message, ClaimBatch(p, batch)
  PROVE  /\ UNCHANGED <<delivered, faults>>
         /\ \A q \in Publisher \ {p} : poll'[q] = poll[q]
         /\ poll'[p].step = "next" /\ poll'[p].todo = batch
         /\ \A m \in Message \ batch : row'[m] = row[m] /\ poll'[p].seen[m] = 0
         /\ \A m \in batch : /\ row[m].status \in {"PENDING", "PUBLISHING"}
                             /\ row'[m].status = "PUBLISHING"
                             /\ row'[m].attempts = row[m].attempts + 1
                             /\ poll'[p].seen[m] = row'[m].attempts
  BY DEF ClaimBatch, Claimable, TypeOK

\* A dispatch leaves the table alone and records how it went.
LEMMA DispatchEffect ==
  ASSUME TypeOK, NEW p \in Publisher, Dispatch(p)
  PROVE  /\ UNCHANGED <<row, faults>> /\ delivered \subseteq delivered'
         /\ \A q \in Publisher \ {p} : poll'[q] = poll[q]
         /\ poll'[p].todo = poll[p].todo /\ poll'[p].seen = poll[p].seen
         /\ poll'[p].cur \in Message
         /\ \/ poll'[p].step = "invalid" /\ poll'[p].cur \in Invalid
            \/ poll'[p].step = "failed"
            \/ poll'[p].step = "sent" /\ poll'[p].cur \in delivered'
  <1>1. poll[p] \in Poll
    BY DEF TypeOK
  <1>2. CASE \E m \in Message : RejectPayload(p, m)
    BY <1>1, <1>2 DEF RejectPayload, TypeOK, Poll
  <1>3. CASE \E m \in Message : \E accepted, acked \in BOOLEAN : Send(p, m, accepted, acked)
    <2>. PICK m \in Message, accepted \in BOOLEAN, acked \in BOOLEAN : Send(p, m, accepted, acked)
      BY <1>3
    <2>1. /\ poll'[p].todo = poll[p].todo /\ poll'[p].seen = poll[p].seen
          /\ poll'[p].cur = m /\ poll'[p].step = IF acked THEN "sent" ELSE "failed"
      BY <1>1 DEF Send, TypeOK, Poll
    <2>2. /\ UNCHANGED <<row, faults>> /\ delivered \subseteq delivered'
          /\ \A q \in Publisher \ {p} : poll'[q] = poll[q]
          /\ acked => m \in delivered'
      BY DEF Send, TypeOK
    <2>. QED BY <2>1, <2>2
  <1>. QED BY <1>2, <1>3 DEF Dispatch

LEMMA TodoType ==
  ASSUME TypeOK PROVE \A p \in Publisher : poll[p].todo \subseteq Message
  BY DEF TypeOK, Poll

-----------------------------------------------------------------------------
(* The inductive invariant *)

LEMMA InitInv == Init => IInv
  <1>1. Init => TypeOK
    BY InitType
  <1>. QED BY <1>1 DEF Init, IInv, DispatchKnown, SnapshotBehind, ClaimedWasWritten,
                       PublishedWasDelivered, DeadWasExhausted, IdlePoll

LEMMA ClockInv ==
  ASSUME IInv, TypeOK', NEW m \in Message,
         Enqueue(m) \/ BackoffElapses(m) \/ LeaseLapses(m), UNCHANGED <<poll, delivered>>
  PROVE  IInv'
  <1>1. TypeOK
    BY DEF IInv
  <1>2. DispatchKnown'
    BY DEF IInv, DispatchKnown
  <1>3. \A n \in Message : /\ row'[n].attempts = row[n].attempts
                           /\ row'[n].status # row[n].status => row'[n].status = "PENDING"
    BY <1>1, ClockEffect
  <1>4. SnapshotBehind'
    BY <1>3 DEF IInv, SnapshotBehind
  <1>5. ClaimedWasWritten'
    BY <1>1, <1>3, TodoType DEF IInv, ClaimedWasWritten
  <1>6. PublishedWasDelivered'
    BY <1>3 DEF IInv, PublishedWasDelivered
  <1>7. DeadWasExhausted'
    <2>1. \A n \in Message : row'[n].status = "DEAD" => row[n].status = "DEAD"
      BY <1>3
    <2>. QED BY <1>3, <2>1 DEF IInv, DeadWasExhausted
  <1>. QED BY <1>2, <1>4, <1>5, <1>6, <1>7 DEF IInv

LEMMA ClaimInv ==
  ASSUME IInv, TypeOK', NEW p \in Publisher, NEW batch \in SUBSET Message, ClaimBatch(p, batch)
  PROVE  IInv'
  <1>1. TypeOK
    BY DEF IInv
  <1>2. DispatchKnown'
    BY <1>1, ClaimEffect DEF IInv, DispatchKnown
  <1>3. \A m \in Message : row[m].attempts \in Nat /\ row[m].attempts <= row'[m].attempts
    BY <1>1, ClaimEffect DEF TypeOK, Row
  <1>4. SnapshotBehind'
    <2>. SUFFICES ASSUME NEW q \in Publisher, NEW m \in Message
                  PROVE  poll'[q].seen[m] <= row'[m].attempts
      BY DEF SnapshotBehind
    <2>1. /\ poll[q].seen[m] \in Nat /\ poll[q].seen[m] <= row[m].attempts
          /\ row'[m].attempts \in Nat
      BY <1>1 DEF IInv, SnapshotBehind, TypeOK, Poll, Row
    <2>2. CASE q # p
      BY <1>1, <1>3, <2>1, <2>2, ClaimEffect
    <2>3. CASE q = p
      BY <1>1, <2>1, <2>3, ClaimEffect
    <2>. QED BY <2>2, <2>3
  <1>5. ClaimedWasWritten'
    <2>1. \A m \in Message : row[m].status # "ABSENT" => row'[m].status # "ABSENT"
      BY <1>1, ClaimEffect
    <2>2. \A m \in poll'[p].todo : row'[m].status # "ABSENT"
      BY <1>1, ClaimEffect
    <2>3. \A q \in Publisher \ {p} : \A m \in poll'[q].todo : row'[m].status # "ABSENT"
      BY <1>1, <2>1, TodoType, ClaimEffect DEF IInv, ClaimedWasWritten
    <2>. QED BY <2>2, <2>3 DEF ClaimedWasWritten
  <1>6. PublishedWasDelivered' /\ DeadWasExhausted'
    BY <1>1, ClaimEffect DEF IInv, PublishedWasDelivered, DeadWasExhausted
  <1>. QED BY <1>2, <1>4, <1>5, <1>6 DEF IInv

LEMMA DispatchInv ==
  ASSUME IInv, TypeOK', NEW p \in Publisher, Dispatch(p)
  PROVE  IInv'
  <1>1. TypeOK
    BY DEF IInv
  <1>2. DispatchKnown'
    BY <1>1, DispatchEffect DEF IInv, DispatchKnown
  <1>3. SnapshotBehind' /\ ClaimedWasWritten'
    BY <1>1, DispatchEffect DEF IInv, SnapshotBehind, ClaimedWasWritten
  <1>4. PublishedWasDelivered' /\ DeadWasExhausted'
    BY <1>1, DispatchEffect DEF IInv, PublishedWasDelivered, DeadWasExhausted
  <1>. QED BY <1>2, <1>3, <1>4 DEF IInv

LEMMA WriteBackInv ==
  ASSUME IInv, TypeOK', NEW p \in Publisher, MarkPublished(p) \/ MarkFailed(p)
  PROVE  IInv'
  <1>1. TypeOK /\ NextMessage(p)
    BY WriteBackEffect DEF IInv
  <1>2. DispatchKnown'
    BY <1>1, NextMessageEffect, WriteBackEffect DEF IInv, DispatchKnown
  <1>3. SnapshotBehind'
    <2>. SUFFICES ASSUME NEW q \in Publisher, NEW m \in Message
                  PROVE  poll'[q].seen[m] <= row'[m].attempts
      BY DEF SnapshotBehind
    <2>1. /\ row[m].attempts \in Nat /\ poll[q].seen[m] <= row[m].attempts
          /\ row'[m].attempts = row[m].attempts
      BY <1>1, WriteBackEffect DEF IInv, SnapshotBehind, TypeOK, Row
    <2>2. poll'[q].seen[m] \in {0, poll[q].seen[m]}
      BY <1>1, NextMessageEffect
    <2>. QED BY <2>1, <2>2
  <1>4. \A m \in Message : row[m].status # "ABSENT" => row'[m].status # "ABSENT"
    BY <1>1, WriteBackEffect DEF FailedStatus
  <1>5. ClaimedWasWritten'
    <2>1. \A q \in Publisher : poll'[q].todo \subseteq poll[q].todo
      BY <1>1, NextMessageEffect
    <2>. QED BY <1>1, <1>4, <2>1, TodoType DEF IInv, ClaimedWasWritten
  <1>6. PublishedWasDelivered'
    BY <1>1, WriteBackEffect DEF IInv, PublishedWasDelivered, DispatchKnown, FailedStatus
  <1>7. DeadWasExhausted'
    <2>. SUFFICES ASSUME NEW m \in Message, row'[m].status = "DEAD"
                  PROVE  m \in Invalid \/ row'[m].attempts >= MaxAttempts
      BY DEF DeadWasExhausted
    <2>1. CASE row'[m] = row[m]
      BY <2>1 DEF IInv, DeadWasExhausted
    <2>2. CASE m = poll[p].cur /\ row'[m].status = FailedStatus(p, m)
      <3>1. poll[p].step = "invalid" => m \in Invalid
        BY <2>2 DEF IInv, DispatchKnown
      <3>2. /\ poll[p].seen[m] \in Nat /\ row[m].attempts \in Nat
            /\ poll[p].seen[m] <= row[m].attempts /\ row'[m].attempts = row[m].attempts
        BY <1>1, WriteBackEffect DEF IInv, SnapshotBehind, TypeOK, Poll, Row
      <3>3. poll[p].step = "invalid" \/ poll[p].seen[m] >= MaxAttempts
        BY <2>2 DEF FailedStatus
      <3>. QED BY <3>1, <3>2, <3>3, OutboxAssumption
    <2>. QED BY <1>1, <2>1, <2>2, WriteBackEffect
  <1>. QED BY <1>2, <1>3, <1>5, <1>6, <1>7 DEF IInv

LEMMA CrashInv ==
  ASSUME IInv, TypeOK', NEW p \in Publisher, Crash(p)
  PROVE  IInv'
  <1>1. /\ UNCHANGED <<row, delivered>>
        /\ \A q \in Publisher : poll'[q] \in {poll[q], IdlePoll}
    BY DEF IInv, Crash, TypeOK
  <1>2. \A m \in Message : row[m].attempts \in Nat
    BY DEF IInv, TypeOK, Row
  <1>3. DispatchKnown' /\ ClaimedWasWritten'
    BY <1>1 DEF IInv, DispatchKnown, ClaimedWasWritten, IdlePoll
  <1>4. SnapshotBehind'
    BY <1>1, <1>2 DEF IInv, SnapshotBehind, IdlePoll
  <1>5. PublishedWasDelivered' /\ DeadWasExhausted'
    BY <1>1 DEF IInv, PublishedWasDelivered, DeadWasExhausted
  <1>. QED BY <1>3, <1>4, <1>5 DEF IInv

LEMMA StepInv ==
  ASSUME IInv, [Next]_vars PROVE IInv'
  <1>1. TypeOK'
    BY StepType DEF IInv
  <1>2. CASE \E m \in Message : Enqueue(m) /\ UNCHANGED <<poll, delivered, faults>>
    BY <1>1, <1>2, ClockInv
  <1>3. CASE \E m \in Message : BackoffElapses(m) \/ LeaseLapses(m)
    BY <1>1, <1>3, ClockInv DEF BackoffElapses, LeaseLapses
  <1>4. CASE \E p \in Publisher : \E batch \in SUBSET Message : ClaimBatch(p, batch)
    BY <1>1, <1>4, ClaimInv
  <1>5. CASE \E p \in Publisher : Dispatch(p)
    BY <1>1, <1>5, DispatchInv
  <1>6. CASE \E p \in Publisher : MarkPublished(p) \/ MarkFailed(p)
    BY <1>1, <1>6, WriteBackInv
  <1>7. CASE \E p \in Publisher : Crash(p)
    BY <1>1, <1>7, CrashInv
  <1>8. CASE UNCHANGED vars
    BY <1>8 DEF vars, IInv, TypeOK, DispatchKnown, SnapshotBehind, ClaimedWasWritten,
                PublishedWasDelivered, DeadWasExhausted
  <1>. QED BY <1>2, <1>3, <1>4, <1>5, <1>6, <1>7, <1>8 DEF Next, Quiescent

LEMMA InvHolds == Spec => []IInv
  BY InitInv, StepInv, PTL DEF Spec

-----------------------------------------------------------------------------
(* Theorems *)

\* A PUBLISHED row was accepted by Temporal, whatever crashes and lapsed leases.
THEOREM PublishedTruthful == Spec => []PublishedWasDelivered
  <1>1. IInv => PublishedWasDelivered
    BY DEF IInv
  <1>. QED BY <1>1, InvHolds, PTL

\* A DEAD row was undispatchable or had used up its attempts.
THEOREM DeadJustified == Spec => []DeadWasExhausted
  <1>1. IInv => DeadWasExhausted
    BY DEF IInv
  <1>. QED BY <1>1, InvHolds, PTL

\* No step, of whichever publisher, changes a row that is PUBLISHED or DEAD.
THEOREM SettledIsFinal == Spec => SettledForGood
  <1>1. ASSUME IInv, [Next]_vars PROVE \A m \in Message : Settled(m) => row'[m] = row[m]
    <2>1. TypeOK
      BY <1>1 DEF IInv
    <2>2. CASE \E m \in Message : Enqueue(m) \/ BackoffElapses(m) \/ LeaseLapses(m)
      BY <2>1, <2>2 DEF Enqueue, BackoffElapses, LeaseLapses, Settled, TypeOK
    <2>3. CASE \E p \in Publisher : \E batch \in SUBSET Message : ClaimBatch(p, batch)
      BY <2>1, <2>3, ClaimEffect DEF Settled
    <2>4. CASE \E p \in Publisher : MarkPublished(p) \/ MarkFailed(p)
      BY <2>1, <2>4, WriteBackEffect DEF Settled, HoldsClaim
    <2>5. CASE UNCHANGED row
      BY <2>5
    <2>6. CASE \E p \in Publisher : Dispatch(p) \/ Crash(p)
      BY <2>1, <2>6, DispatchEffect DEF Crash
    <2>. QED BY <1>1, <2>2, <2>3, <2>4, <2>5, <2>6 DEF Next, Quiescent, vars
  <1>. QED BY <1>1, InvHolds, PTL DEF Spec, SettledForGood

\* A row leaves PUBLISHING only in the write-back of the publisher that holds it.
THEOREM ClaimExclusive == Spec => OnlyClaimerResolves
  <1>1. ASSUME IInv, [Next]_vars, NEW m \in Message,
               row[m].status = "PUBLISHING", row'[m].status # "PUBLISHING"
        PROVE  ResolvedByClaimer(m)
    <2>1. TypeOK
      BY <1>1 DEF IInv
    <2>2. CASE \E n \in Message : Enqueue(n) \/ BackoffElapses(n) \/ LeaseLapses(n)
      BY <1>1, <2>1, <2>2, ClockEffect
    <2>3. CASE \E p \in Publisher : \E batch \in SUBSET Message : ClaimBatch(p, batch)
      BY <1>1, <2>1, <2>3, ClaimEffect
    <2>4. CASE \E p \in Publisher : MarkPublished(p) \/ MarkFailed(p)
      <3>. PICK p \in Publisher : MarkPublished(p) \/ MarkFailed(p)
        BY <2>4
      <3>1. m = poll[p].cur /\ HoldsClaim(p, m) /\ NextMessage(p)
        BY <1>1, <2>1, WriteBackEffect
      <3>2. m \notin poll'[p].todo
        BY <2>1, <3>1, NextMessageEffect
      <3>. QED BY <3>1, <3>2 DEF HoldsClaim, ResolvedByClaimer
    <2>5. CASE UNCHANGED row
      BY <1>1, <2>5
    <2>6. CASE \E p \in Publisher : Dispatch(p) \/ Crash(p)
      BY <1>1, <2>1, <2>6, DispatchEffect DEF Crash
    <2>. QED BY <1>1, <2>2, <2>3, <2>4, <2>5, <2>6 DEF Next, Quiescent, vars
  <1>2. IInv /\ [Next]_vars =>
          \A m \in Message : row[m].status = "PUBLISHING" /\ row'[m].status # "PUBLISHING"
                             => ResolvedByClaimer(m)
    BY <1>1
  <1>. QED BY <1>2, InvHolds, PTL DEF Spec, OnlyClaimerResolves

-----------------------------------------------------------------------------
(* The outbox implements the at-least-once channel *)

\* The channel's view of the table, and when a step leaves it unchanged.
Outcomes == [m \in Message |-> ChannelOutcome(m)]
Tries == [m \in Message |-> row[m].attempts]

LEMMA ViewUnchanged ==
  ASSUME \A m \in Message :
           /\ row'[m].attempts = row[m].attempts
           /\ \/ row'[m].status = row[m].status
              \/ {row[m].status, row'[m].status} \subseteq {"PENDING", "PUBLISHING"}
  PROVE  Outcomes' = Outcomes /\ Tries' = Tries
  <1>1. \A m \in Message : ChannelOutcome(m)' = ChannelOutcome(m)
    BY DEF ChannelOutcome
  <1>. QED BY <1>1 DEF Outcomes, Tries

\* One row moves on, from one state of a message to another.
LEMMA ViewOfOneRow ==
  ASSUME NEW m \in Message, \A n \in Message \ {m} : row'[n].status = row[n].status,
         \A n \in Message : row'[n].attempts = row[n].attempts
  PROVE  Outcomes' = [Outcomes EXCEPT ![m] = ChannelOutcome(m)'] /\ Tries' = Tries
  <1>1. \A n \in Message \ {m} : ChannelOutcome(n)' = ChannelOutcome(n)
    BY DEF ChannelOutcome
  <1>. QED BY <1>1 DEF Outcomes, Tries

LEMMA ChannelStutter ==
  ASSUME Outcomes' = Outcomes, Tries' = Tries, delivered' = delivered
  PROVE  UNCHANGED Channel!vars
  BY DEF Channel!vars, Outcomes, Tries

LEMMA RefineInit == Init => Channel!Init
  BY DEF Init, Channel!Init, ChannelOutcome

LEMMA RefineClock ==
  ASSUME TypeOK, NEW m \in Message, Enqueue(m) \/ BackoffElapses(m) \/ LeaseLapses(m),
         UNCHANGED delivered
  PROVE  Channel!Write(m) \/ UNCHANGED Channel!vars
  <1>1. /\ \A n \in Message \ {m} : row'[n].status = row[n].status
        /\ \A n \in Message : row'[n].attempts = row[n].attempts
    BY ClockEffect
  <1>2. CASE row'[m].status = row[m].status
    BY <1>1, <1>2, ViewUnchanged, ChannelStutter
  <1>3. CASE row[m].status = "ABSENT" /\ row'[m].status = "PENDING"
    <2>1. ChannelOutcome(m) = "UNSENT" /\ ChannelOutcome(m)' = "WAITING"
      BY <1>3 DEF ChannelOutcome
    <2>2. Outcomes' = [Outcomes EXCEPT ![m] = "WAITING"] /\ Tries' = Tries
      BY <1>1, <2>1, ViewOfOneRow
    <2>. QED BY <2>1, <2>2 DEF Channel!Write, Outcomes, Tries
  <1>. QED BY <1>2, <1>3, ClockEffect

LEMMA RefineClaim ==
  ASSUME TypeOK, NEW p \in Publisher, NEW batch \in SUBSET Message, ClaimBatch(p, batch)
  PROVE  Channel!Attempt(batch)
  <1>1. \A m \in batch : ChannelOutcome(m) = "WAITING"
    BY ClaimEffect DEF ChannelOutcome
  <1>2. \A m \in Message : ChannelOutcome(m)' = ChannelOutcome(m)
    BY ClaimEffect DEF ChannelOutcome
  <1>3. Outcomes' = Outcomes
    BY <1>2 DEF Outcomes
  <1>4. Tries' = [m \in Message |-> IF m \in batch THEN Tries[m] + 1 ELSE Tries[m]]
    BY ClaimEffect DEF Tries
  <1>. QED BY <1>1, <1>3, <1>4, ClaimEffect DEF Channel!Attempt, Outcomes, Tries

LEMMA RefineDispatch ==
  ASSUME IInv, NEW p \in Publisher, Dispatch(p)
  PROVE  (\E m \in Message : Channel!Deliver(m)) \/ UNCHANGED Channel!vars
  <1>1. TypeOK /\ UNCHANGED row
    BY DispatchEffect DEF IInv
  <1>2. Outcomes' = Outcomes /\ Tries' = Tries
    BY <1>1, ViewUnchanged
  <1>3. CASE delivered' = delivered
    BY <1>2, <1>3, ChannelStutter
  <1>4. CASE delivered' # delivered
    <2>. PICK m \in Message, accepted \in BOOLEAN, acked \in BOOLEAN : Send(p, m, accepted, acked)
      BY <1>4 DEF Dispatch, RejectPayload
    <2>1. m \in poll[p].todo /\ m \notin Invalid /\ delivered' = delivered \union {m}
      BY <1>4 DEF Send
    <2>2. Outcomes[m] # "UNSENT"
      BY <1>1, <2>1 DEF IInv, ClaimedWasWritten, Outcomes, ChannelOutcome, TypeOK, Row, RowStatus
    <2>3. Channel!Deliver(m)
      BY <1>2, <2>1, <2>2 DEF Channel!Deliver, Outcomes, Tries
    <2>. QED BY <2>3
  <1>. QED BY <1>3, <1>4

LEMMA RefineWriteBack ==
  ASSUME IInv, NEW p \in Publisher, MarkPublished(p) \/ MarkFailed(p)
  PROVE  \/ \E m \in Message : Channel!Publish(m) \/ Channel!Abandon(m)
         \/ UNCHANGED Channel!vars
  <1>1. TypeOK /\ UNCHANGED delivered /\ \A m \in Message : row'[m].attempts = row[m].attempts
    BY WriteBackEffect DEF IInv
  <1>2. CASE \A m \in Message : row'[m] = row[m]
    BY <1>1, <1>2, ViewUnchanged, ChannelStutter
  <1>3. ASSUME NEW c \in Message, row'[c] # row[c]
        PROVE  \/ Channel!Publish(c) \/ Channel!Abandon(c)
               \/ UNCHANGED Channel!vars
    <2>0. c = poll[p].cur
      BY <1>1, <1>3, WriteBackEffect
    <2>1. \A n \in Message \ {c} : row'[n].status = row[n].status
      BY <1>1, <2>0, WriteBackEffect
    <2>2. Outcomes' = [Outcomes EXCEPT ![c] = ChannelOutcome(c)'] /\ Tries' = Tries
      BY <1>1, <1>3, <2>1, ViewOfOneRow
    <2>3. Outcomes[c] = "WAITING" /\ row[c].status = "PUBLISHING"
      BY <1>1, <1>3, WriteBackEffect DEF HoldsClaim, Outcomes, ChannelOutcome
    <2>4. CASE poll[p].step = "sent" /\ row'[c].status = "PUBLISHED"
      <3>1. ChannelOutcome(c)' = "PUBLISHED" /\ c \in delivered
        BY <2>0, <2>4 DEF IInv, DispatchKnown, ChannelOutcome
      <3>2. Channel!Publish(c)
        BY <1>1, <2>2, <2>3, <3>1 DEF Channel!Publish, Outcomes, Tries
      <3>. QED BY <3>2
    <2>5. CASE poll[p].step \in {"failed", "invalid"} /\ row'[c].status = "PENDING"
      <3>1. \A m \in Message : \/ row'[m].status = row[m].status
                               \/ {row[m].status, row'[m].status} \subseteq {"PENDING", "PUBLISHING"}
        BY <2>1, <2>3, <2>5
      <3>. QED BY <1>1, <3>1, ViewUnchanged, ChannelStutter
    <2>6. CASE poll[p].step \in {"failed", "invalid"} /\ row'[c].status = "DEAD"
      <3>1. ChannelOutcome(c)' = "DEAD"
        BY <2>6 DEF ChannelOutcome
      <3>2. c \in Invalid \/ row[c].attempts >= MaxAttempts
        BY <1>1, <1>3, <2>6, StepInv DEF IInv, DeadWasExhausted, Next
      <3>3. Channel!Abandon(c)
        BY <1>1, <1>3, <2>2, <2>3, <3>1, <3>2 DEF Channel!Abandon, Outcomes, Tries
      <3>. QED BY <3>3
    <2>. QED BY <1>1, <1>3, <2>0, <2>4, <2>5, <2>6, WriteBackEffect DEF FailedStatus
  <1>. QED BY <1>1, <1>2, <1>3, WriteBackEffect

LEMMA RefineStep ==
  ASSUME IInv, [Next]_vars PROVE [Channel!Next]_(Channel!vars)
  <1>1. TypeOK
    BY DEF IInv
  <1>2. CASE \E m \in Message : Enqueue(m) /\ UNCHANGED <<poll, delivered, faults>>
    BY <1>1, <1>2, RefineClock DEF Channel!Next
  <1>3. CASE \E m \in Message : BackoffElapses(m) \/ LeaseLapses(m)
    BY <1>1, <1>3, RefineClock DEF Channel!Next, BackoffElapses, LeaseLapses
  <1>4. CASE \E p \in Publisher : \E batch \in SUBSET Message : ClaimBatch(p, batch)
    BY <1>1, <1>4, RefineClaim DEF Channel!Next
  <1>5. CASE \E p \in Publisher : Dispatch(p)
    BY <1>5, RefineDispatch DEF Channel!Next
  <1>6. CASE \E p \in Publisher : MarkPublished(p) \/ MarkFailed(p)
    BY <1>6, RefineWriteBack DEF Channel!Next
  <1>7. CASE UNCHANGED <<row, delivered>>
    BY <1>7, ViewUnchanged, ChannelStutter
  <1>. QED BY <1>2, <1>3, <1>4, <1>5, <1>6, <1>7 DEF Next, Quiescent, vars, Crash

\* Whatever happens to its publishers, the outbox is an at-least-once channel.
THEOREM OutboxIsChannel == Spec => ImplementsChannel
  <1>1. Init => Channel!Init
    BY RefineInit
  <1>2. IInv /\ [Next]_vars => [Channel!Next]_(Channel!vars)
    BY RefineStep
  <1>. QED BY <1>1, <1>2, InvHolds, PTL DEF Spec, ImplementsChannel, Channel!Spec
=============================================================================
