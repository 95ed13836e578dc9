------------------------ MODULE ControlledCallProofs ------------------------
(***************************************************************************)
(* What holds of controlled model calls for every number of executions,    *)
(* calls, requests on the last hop, reservations and faults: a call is     *)
(* sent once at most and as it was approved, call and budget end together, *)
(* and calls implement one-shot, prepaid egress.  And what holds of what a *)
(* call's prompt is made from, for any callers, writers, items, proposals  *)
(* and recalls: ContextPack, the pack it is made with, and MemoryStore,    *)
(* what is remembered between calls.                                       *)
(*                                                                         *)
(*   IInv      links each call to the one execution that inserted it, and  *)
(*             each request that passed admission to the permit it used    *)
(*             up: a permit that was used never becomes READY again,       *)
(*             because only an execution that is still issuing makes one,  *)
(*             and it has none before.                                     *)
(*   LedgerInv lists the entries of a reservation; a total over at most    *)
(*             three entries is then unfolded.                             *)
(*   PackInv   what a caller may rely on between the checks of a           *)
(*             consumption and its commit: the row it read is still there, *)
(*             with the request it declared, and a row it read as consumed *)
(*             stays so                                                    *)
(*   StoreInv  what a transaction that has read the memories still holds   *)
(*             of them, though others have written since                   *)
(***************************************************************************)
EXTENDS ControlledCall, ContextPack, MemoryStore, FiniteSetTheorems, SequenceTheorems,
        WellFoundedInduction, TLAPS

\* Executions between their two transactions.
UnderWay == {"issuing", "streaming", "closing"}

\* Requests that were admitted, and what became of them.
Passed == {"admitted", "keyed"} \union Sent

\* A call belongs to the execution that inserted it; both halves end together.
CallInv(c) ==
  /\ call[c].status = "ABSENT" => call[c].by = NoOne /\ permit[c] = "ABSENT"
  /\ call[c].status # "ABSENT" =>
       /\ call[c].by \in Run /\ run[call[c].by].call = c
       /\ call[c].status = "SENDING" => resv[call[c].by].status = "CONSUMING"
       /\ call[c].status # "SENDING" => resv[call[c].by].status = "SETTLED"

\* What an execution holds: nothing before it starts, its call while it is active.
RunInv(r) ==
  /\ run[r].pc = "idle" => resv[r].status = "ABSENT" /\ ~ run[r].asked
  /\ run[r].pc # "idle" => run[r].call \in Call
  /\ run[r].pc \in UnderWay => call[run[r].call].status = "SENDING" /\ call[run[r].call].by = r
  /\ run[r].pc = "issuing" => permit[run[r].call] = "ABSENT"

\* A request that passed used up the permit of its call.
HopInv(h) ==
  /\ hop[h].pc # "none" => hop[h].call \in Call
  /\ hop[h].pc = "streaming" => hop[h].call \in executed
  /\ hop[h].pc \in Passed => /\ ~ hop[h].altered
                             /\ call[hop[h].call].status # "ABSENT"
                             /\ permit[hop[h].call] \notin {"ABSENT", "READY"}

\* No two requests of a call pass.
PassedOnce == \A h, k \in Hop : /\ hop[h].pc \in Passed /\ hop[k].pc \in Passed
                                /\ hop[h].call = hop[k].call
                                => h = k

\* A usage was reported by the provider that a request was sent to; a settlement
\* below the reservation is that usage.
UsageInv(r) ==
  /\ run[r].usage # Unreported =>
       /\ run[r].pc # "idle" /\ run[r].call \in executed
       /\ \E h \in Hop : hop[h].pc \in Sent /\ hop[h].call = run[r].call
  /\ resv[r].status # "SETTLED" => resv[r].settled = 0
  /\ resv[r].status = "SETTLED" /\ resv[r].settled < Reserved => run[r].usage = resv[r].settled

IInv == /\ TypeOK
        /\ \A c \in Call : CallInv(c)
        /\ \A r \in Run : RunInv(r) /\ UsageInv(r)
        /\ \A h \in Hop : HopInv(h)
        /\ PassedOnce

-----------------------------------------------------------------------------
(* Initial states *)

LEMMA UnreportedIsNoUsage == Unreported \notin Usage /\ Unreported \in Int
  BY ControlledCallAssumption DEF Unreported, Usage

LEMMA InitInv == Init => IInv
  <1>. SUFFICES ASSUME Init PROVE IInv
    OBVIOUS
  <1>1. TypeOK
    BY ControlledCallAssumption, UnreportedIsNoUsage
       DEF Init, TypeOK, ModelCall, Reservation, PermitStatus, Complete, Request
  <1>2. \A q \in Call : CallInv(q)
    BY DEF Init, CallInv
  <1>3. \A r \in Run : RunInv(r) /\ UsageInv(r)
    BY DEF Init, RunInv, UsageInv, UnderWay
  <1>4. (\A h \in Hop : HopInv(h)) /\ PassedOnce
    BY DEF Init, HopInv, PassedOnce, Passed, Sent
  <1>. QED BY <1>1, <1>2, <1>3, <1>4 DEF IInv

-----------------------------------------------------------------------------
(* Executions that hold a call: any step that keeps the call they hold *)

\* What such a step makes of the execution.
Continues(r, new) ==
  /\ new \in Complete /\ new.call = run[r].call
  /\ new.pc \notin {"idle", "issuing"}
  /\ new.usage = run[r].usage \/ (new.usage # Unreported /\ Answering(run[r].call))
  /\ run' = [run EXCEPT ![r] = new]

LEMMA HeldStep ==
  ASSUME IInv, NEW r \in Run, NEW new, Continues(r, new), run[r].pc \in UnderWay,
         \/ permit' = permit
         \/ run[r].pc = "issuing" /\ permit' = [permit EXCEPT ![run[r].call] = "READY"],
         faults' \in 0..MaxFaults,
         UNCHANGED <<pack, call, resv, ledger, overdue, hop, executed>>
  PROVE  IInv'
  <1>. DEFINE c == run[r].call
  <1>1. /\ c \in Call /\ call[c].status = "SENDING" /\ call[c].by = r
        /\ resv[r].status = "CONSUMING"
    BY DEF IInv, RunInv, CallInv, UnderWay
  <1>2. /\ run' \in [Run -> Complete] /\ run'[r] = new
        /\ \A s \in Run : s # r => run'[s] = run[s]
    BY DEF IInv, TypeOK, Continues
  <1>3. permit' \in [Call -> PermitStatus] /\ \A d \in Call : d # c => permit'[d] = permit[d]
    BY <1>1 DEF IInv, TypeOK, PermitStatus
  <1>4. new.call = c /\ new.pc \notin {"idle", "issuing"}
    BY DEF Continues
  <1>5. TypeOK'
    BY <1>2, <1>3 DEF IInv, TypeOK
  <1>6. ASSUME NEW d \in Call PROVE CallInv(d)'
    BY <1>1, <1>2, <1>3, <1>4 DEF IInv, CallInv
  <1>7. ASSUME NEW s \in Run PROVE RunInv(s)'
    <2>1. CASE s # r
      BY <2>1, <1>1, <1>2, <1>3 DEF IInv, RunInv, UnderWay
    <2>2. CASE s = r
      BY <2>2, <1>1, <1>2, <1>4 DEF RunInv
    <2>. QED BY <2>1, <2>2
  <1>8. ASSUME NEW h \in Hop PROVE HopInv(h)'
    <2>1. CASE hop[h].pc \in Passed
      <3>1. HopInv(h) /\ hop[h].call \in Call /\ permit[hop[h].call] \notin {"ABSENT", "READY"}
        BY <2>1 DEF IInv, HopInv, Passed, Sent
      <3>2. permit'[hop[h].call] = permit[hop[h].call]
        BY <3>1, <1>3 DEF IInv, RunInv
      <3>. QED BY <3>1, <3>2 DEF HopInv
    <2>2. CASE hop[h].pc \notin Passed
      BY <2>2 DEF IInv, HopInv
    <2>. QED BY <2>1, <2>2
  <1>9. ASSUME NEW s \in Run PROVE UsageInv(s)'
    <2>1. CASE s # r
      BY <2>1, <1>2 DEF IInv, UsageInv
    <2>2. CASE s = r
      <3>1. new.usage # Unreported =>
              /\ c \in executed
              /\ \E h \in Hop : hop[h].pc \in Sent /\ hop[h].call = c
        <4>1. CASE new.usage = run[r].usage
          BY <4>1 DEF IInv, UsageInv
        <4>2. CASE Answering(c)
          BY <4>2 DEF IInv, HopInv, Answering, Sent
        <4>. QED BY <4>1, <4>2 DEF Continues
      <3>. QED BY <2>2, <3>1, <1>1, <1>2, <1>4 DEF IInv, UsageInv
    <2>. QED BY <2>1, <2>2
  <1>10. PassedOnce'
    BY DEF IInv, PassedOnce
  <1>. QED BY <1>5, <1>6, <1>7, <1>8, <1>9, <1>10 DEF IInv

\* The actions that are such steps.
LEMMA StreamStepsContinue ==
  ASSUME TypeOK, NEW r \in Run,
         \/ TextFrame(r) \/ BadFrame(r) \/ \E u \in Usage : UsageFrame(r, u)
         \/ EndOfStream(r) \/ StatusError(r) \/ NetworkError(r)
  PROVE  \E new : Continues(r, new)
  <1>. USE UnreportedIsNoUsage
  <1>1. run[r] \in Complete /\ run[r].pc = "streaming"
    BY DEF TypeOK, TextFrame, BadFrame, UsageFrame, EndOfStream, StatusError, NetworkError,
           StreamStep
  <1>2. CASE TextFrame(r)
    <2>. WITNESS [run[r] EXCEPT !.started = TRUE]
    <2>. QED BY <1>1, <1>2 DEF TextFrame, Continues, Complete
  <1>3. CASE BadFrame(r)
    <2>. WITNESS [run[r] EXCEPT !.error = "stream"]
    <2>. QED BY <1>1, <1>3 DEF BadFrame, Continues, Complete
  <1>4. ASSUME NEW u \in Usage, UsageFrame(r, u) PROVE \E new : Continues(r, new)
    <2>. WITNESS [run[r] EXCEPT !.usage = u]
    <2>. QED BY <1>1, <1>4 DEF UsageFrame, Continues, Complete
  <1>5. CASE EndOfStream(r)
    <2>. WITNESS [run[r] EXCEPT !.pc = "closing"]
    <2>. QED BY <1>1, <1>5 DEF EndOfStream, RunMoves, Continues, Complete
  <1>6. CASE StatusError(r)
    <2>. WITNESS [run[r] EXCEPT !.pc = "closing", !.error = "status"]
    <2>. QED BY <1>1, <1>6 DEF StatusError, Continues, Complete
  <1>7. CASE NetworkError(r)
    <2>. WITNESS [run[r] EXCEPT !.pc = "closing",
                                !.error = IF run[r].started THEN "stream" ELSE "network"]
    <2>. QED BY <1>1, <1>7 DEF NetworkError, Continues, Complete
  <1>. QED BY <1>2, <1>3, <1>4, <1>5, <1>6, <1>7

LEMMA EndsContinue ==
  ASSUME TypeOK, NEW r \in Run, NEW pc \in {"streaming", "returned", "raised", "crashed"},
         NEW asked \in BOOLEAN, run' = [run EXCEPT ![r].pc = pc, ![r].asked = asked]
  PROVE  \E new : Continues(r, new)
  <1>. WITNESS [run[r] EXCEPT !.pc = pc, !.asked = asked]
  <1>. QED BY DEF TypeOK, Continues, Complete

LEMMA RunMovesOnly ==
  ASSUME TypeOK, NEW r \in Run, NEW pc, RunMoves(r, pc)
  PROVE  run' = [run EXCEPT ![r].pc = pc, ![r].asked = run[r].asked] /\ run[r].asked \in BOOLEAN
  BY DEF TypeOK, RunMoves, Complete

LEMMA StreamInv ==
  ASSUME IInv, NEW r \in Run,
         \/ TextFrame(r) \/ BadFrame(r) \/ \E u \in Usage : UsageFrame(r, u)
         \/ EndOfStream(r) \/ StatusError(r) \/ NetworkError(r)
  PROVE  IInv'
  <1>1. PICK new : Continues(r, new)
    BY StreamStepsContinue DEF IInv
  <1>2. run[r].pc = "streaming" /\ UNCHANGED <<pack, call, resv, ledger, permit, overdue, hop, executed, faults>>
    BY DEF TextFrame, BadFrame, UsageFrame, EndOfStream, StatusError, NetworkError, StreamStep
  <1>3. faults' \in 0..MaxFaults /\ run[r].pc \in UnderWay
    BY <1>2 DEF IInv, TypeOK, UnderWay
  <1>. QED BY <1>1, <1>2, <1>3, HeldStep

LEMMA IssuePermitInv == ASSUME IInv, NEW r \in Run, IssuePermit(r) PROVE IInv'
  <1>1. \E new : Continues(r, new)
    BY EndsContinue DEF IInv, IssuePermit
  <1>. QED BY <1>1, HeldStep DEF IssuePermit, IInv, TypeOK, UnderWay

LEMMA IssueFailsInv == ASSUME IInv, NEW r \in Run, IssueFails(r) PROVE IInv'
  <1>1. \E new : Continues(r, new)
    BY EndsContinue, RunMovesOnly DEF IInv, IssueFails
  <1>. QED BY <1>1, HeldStep DEF IssueFails, IInv, TypeOK, UnderWay

LEMMA OverrunInv == ASSUME IInv, NEW r \in Run, Overrun(r) PROVE IInv'
  <1>1. \E new : Continues(r, new)
    BY EndsContinue, RunMovesOnly DEF IInv, Overrun
  <1>. QED BY <1>1, HeldStep DEF Overrun, IInv, TypeOK, UnderWay

LEMMA CrashInv == ASSUME IInv, NEW r \in Run, Crash(r) PROVE IInv'
  <1>1. \E new : Continues(r, new)
    BY EndsContinue, RunMovesOnly DEF IInv, Crash
  <1>2. faults' \in 0..MaxFaults
    BY ControlledCallAssumption DEF Crash, IInv, TypeOK
  <1>. QED BY <1>1, <1>2, HeldStep DEF Crash, UnderWay

-----------------------------------------------------------------------------
(* The two transactions *)

LEMMA RefuseInv == ASSUME IInv, NEW r \in Run, NEW c \in Call, Refuse(r, c) PROVE IInv'
  <1>1. /\ run' \in [Run -> Complete] /\ run'[r].pc = "raised" /\ run'[r].call = c
        /\ run'[r].usage = run[r].usage
        /\ \A s \in Run : s # r => run'[s] = run[s]
    <2>. DEFINE new == [run[r] EXCEPT !.pc = "raised", !.call = c]
    <2>1. run' = [run EXCEPT ![r] = new]
      BY DEF IInv, TypeOK, Refuse
    <2>2. new \in Complete /\ new.pc = "raised" /\ new.call = c /\ new.usage = run[r].usage
      BY DEF IInv, TypeOK, Complete
    <2>. HIDE DEF new
    <2>. QED BY <2>1, <2>2 DEF IInv, TypeOK
  <1>2. run[r].pc = "idle" /\ UNCHANGED <<pack, call, resv, ledger, permit, overdue, hop, executed, faults>>
    BY DEF Refuse
  <1>3. TypeOK'
    BY <1>1, <1>2 DEF IInv, TypeOK
  <1>4. ASSUME NEW d \in Call PROVE CallInv(d)'
    BY <1>1, <1>2 DEF IInv, CallInv, RunInv
  <1>5. ASSUME NEW s \in Run PROVE RunInv(s)' /\ UsageInv(s)'
    BY <1>1, <1>2 DEF IInv, RunInv, UsageInv, UnderWay
  <1>6. (\A h \in Hop : HopInv(h)') /\ PassedOnce'
    BY <1>2 DEF IInv, HopInv, PassedOnce
  <1>. QED BY <1>3, <1>4, <1>5, <1>6 DEF IInv

\* What Accept writes.
AcceptWrites(r, c) ==
  /\ run' \in [Run -> Complete] /\ run'[r].pc = "issuing" /\ run'[r].call = c
  /\ run'[r].usage = run[r].usage
  /\ \A s \in Run : s # r => run'[s] = run[s]
  /\ call' \in [Call -> ModelCall] /\ call'[c] = [status |-> "SENDING", by |-> r]
  /\ \A d \in Call : d # c => call'[d] = call[d]
  /\ resv' \in [Run -> Reservation] /\ resv'[r].status = "CONSUMING"
  /\ resv'[r].settled = resv[r].settled
  /\ \A s \in Run : s # r => resv'[s] = resv[s]
  /\ ledger' \in [Run -> Seq(Entry)]

LEMMA AcceptFacts ==
  ASSUME TypeOK, NEW r \in Run, NEW c \in Call, Accept(r, c) PROVE AcceptWrites(r, c)
  <1>1. /\ run' \in [Run -> Complete] /\ run'[r].pc = "issuing" /\ run'[r].call = c
        /\ run'[r].usage = run[r].usage
        /\ \A s \in Run : s # r => run'[s] = run[s]
    <2>. DEFINE new == [run[r] EXCEPT !.pc = "issuing", !.call = c]
    <2>1. run' = [run EXCEPT ![r] = new]
      BY DEF TypeOK, Accept
    <2>2. new \in Complete /\ new.pc = "issuing" /\ new.call = c /\ new.usage = run[r].usage
      BY DEF TypeOK, Complete
    <2>. HIDE DEF new
    <2>. QED BY <2>1, <2>2 DEF TypeOK
  <1>2. /\ call' \in [Call -> ModelCall] /\ call'[c] = [status |-> "SENDING", by |-> r]
        /\ \A d \in Call : d # c => call'[d] = call[d]
    BY DEF TypeOK, Accept, InsertCall, ModelCall
  <1>3. /\ resv' \in [Run -> Reservation] /\ resv'[r].status = "CONSUMING"
        /\ resv'[r].settled = resv[r].settled
        /\ \A s \in Run : s # r => resv'[s] = resv[s]
    BY DEF TypeOK, Accept, Reserve, Reservation
  <1>4. ledger' \in [Run -> Seq(Entry)]
    <2>1. <<[kind |-> "RESERVE", delta |-> Reserved]>> \in Seq(Entry)
      BY ControlledCallAssumption DEF Entry
    <2>. QED BY <2>1 DEF TypeOK, Accept, AppendEntries
  <1>. QED BY <1>1, <1>2, <1>3, <1>4 DEF AcceptWrites

LEMMA AcceptInv == ASSUME IInv, NEW r \in Run, NEW c \in Call, Accept(r, c) PROVE IInv'
  <1>. USE DEF AcceptWrites
  <1>1. /\ run[r].pc = "idle" /\ call[c].status = "ABSENT" /\ resv[r].status = "ABSENT"
        /\ pack' = "CONSUMED" /\ UNCHANGED <<permit, overdue, hop, executed, faults>>
    BY DEF Accept, InsertCall, Reserve
  <1>2. AcceptWrites(r, c)
    BY AcceptFacts DEF IInv
  <1>3. TypeOK'
    BY <1>1, <1>2 DEF IInv, TypeOK
  <1>4. ASSUME NEW d \in Call PROVE CallInv(d)'
    <2>1. CASE d = c
      BY <2>1, <1>2 DEF CallInv
    <2>2. CASE d # c
      <3>1. call'[d] = call[d] /\ permit'[d] = permit[d] /\ CallInv(d)
        BY <2>2, <1>1, <1>2 DEF IInv
      <3>2. CASE call[d].status = "ABSENT"
        BY <3>1, <3>2 DEF CallInv
      <3>3. CASE call[d].status # "ABSENT"
        <4>1. call[d].by \in Run /\ call[d].by # r
          BY <3>1, <3>3, <1>1 DEF CallInv
        <4>2. run'[call[d].by] = run[call[d].by] /\ resv'[call[d].by] = resv[call[d].by]
          BY <4>1, <1>2
        <4>. QED BY <3>1, <3>3, <4>1, <4>2 DEF CallInv
      <3>. QED BY <3>2, <3>3
    <2>. QED BY <2>1, <2>2
  <1>5. ASSUME NEW s \in Run PROVE RunInv(s)' /\ UsageInv(s)'
    <2>1. RunInv(s) /\ UsageInv(s)
      BY DEF IInv
    <2>2. CASE s = r
      BY <2>1, <2>2, <1>1, <1>2 DEF IInv, RunInv, UsageInv, CallInv, UnderWay
    <2>3. CASE s # r
      <3>1. run'[s] = run[s] /\ resv'[s] = resv[s]
        BY <2>3, <1>2
      <3>2. run[s].pc \in UnderWay => call'[run[s].call] = call[run[s].call]
        BY <2>1, <1>1, <1>2 DEF RunInv, UnderWay
      <3>. QED BY <2>1, <3>1, <3>2, <1>1 DEF RunInv, UsageInv
    <2>. QED BY <2>2, <2>3
  <1>6. ASSUME NEW h \in Hop PROVE HopInv(h)'
    <2>1. HopInv(h) /\ (hop[h].pc \in Passed => hop[h].call \in Call)
      BY DEF IInv, HopInv, Passed, Sent
    <2>2. hop[h].pc \in Passed => call'[hop[h].call] = call[hop[h].call]
      BY <2>1, <1>1, <1>2 DEF HopInv
    <2>. QED BY <2>1, <2>2, <1>1 DEF HopInv
  <1>7. PassedOnce'
    BY <1>1 DEF IInv, PassedOnce
  <1>. QED BY <1>3, <1>4, <1>5, <1>6, <1>7 DEF IInv

\* What Settle writes.
SettleWrites(r) ==
  LET c == run[r].call IN
  /\ run' \in [Run -> Complete] /\ run'[r] = [run[r] EXCEPT !.pc = "returned"]
  /\ \A s \in Run : s # r => run'[s] = run[s]
  /\ call' \in [Call -> ModelCall] /\ call'[c] = [status |-> Terminal(r), by |-> r]
  /\ \A d \in Call : d # c => call'[d] = call[d]
  /\ resv' \in [Run -> Reservation] /\ resv'[r] = [status |-> "SETTLED", settled |-> Amount(r)]
  /\ \A s \in Run : s # r => resv'[s] = resv[s]
  /\ ledger' \in [Run -> Seq(Entry)]

LEMMA AmountRange ==
  ASSUME TypeOK, NEW r \in Run, WithinReservation(r)
  PROVE  /\ Amount(r) \in 0..Reserved
         /\ Amount(r) < Reserved => run[r].usage # Unreported /\ run[r].usage = Amount(r)
  <1>1. run[r].usage \in Usage \/ run[r].usage = Unreported
    BY DEF TypeOK, Complete
  <1>. QED BY <1>1, ControlledCallAssumption DEF Amount, WithinReservation, Usage

LEMMA SettlementEntries ==
  ASSUME NEW r, Amount(r) \in 0..Reserved PROVE Settlement(r) \in Seq(Entry)
  <1>1. Amount(r) \in Int /\ Amount(r) - Reserved \in Int
    BY ControlledCallAssumption
  <1>2. \A kind \in {"SETTLE", "WORST_CASE_SETTLE", "RETURN"}, delta \in Int :
          <<[kind |-> kind, delta |-> delta]>> \in Seq(Entry)
    BY DEF Entry
  <1>3. /\ <<[kind |-> "SETTLE", delta |-> Amount(r)]>> \in Seq(Entry)
        /\ <<[kind |-> "WORST_CASE_SETTLE", delta |-> Amount(r)]>> \in Seq(Entry)
        /\ <<[kind |-> "RETURN", delta |-> Amount(r) - Reserved]>> \in Seq(Entry)
        /\ <<>> \in Seq(Entry)
    BY <1>1, <1>2
  <1>4. \A s, t \in Seq(Entry) : s \o t \in Seq(Entry)
    OBVIOUS
  <1>5. CASE run[r].usage = Unreported
    BY <1>3, <1>4, <1>5 DEF Settlement
  <1>6. CASE run[r].usage # Unreported
    BY <1>3, <1>4, <1>6 DEF Settlement
  <1>. QED BY <1>5, <1>6

LEMMA SettleFacts == ASSUME IInv, NEW r \in Run, Settle(r) PROVE SettleWrites(r)
  <1>. DEFINE c == run[r].call
  <1>1. c \in Call /\ call[c].status = "SENDING" /\ call[c].by = r
    BY DEF IInv, RunInv, Settle, UnderWay
  <1>2. Terminal(r) \in TerminalCall /\ Amount(r) \in 0..Reserved
    BY AmountRange DEF IInv, Settle, Terminal, TerminalCall
  <1>3. /\ run' \in [Run -> Complete] /\ run'[r] = [run[r] EXCEPT !.pc = "returned"]
        /\ \A s \in Run : s # r => run'[s] = run[s]
    <2>. DEFINE new == [run[r] EXCEPT !.pc = "returned"]
    <2>1. new \in Complete /\ run' = [run EXCEPT ![r] = new]
      BY DEF IInv, TypeOK, Complete, Settle, RunMoves
    <2>. QED BY <2>1 DEF IInv, TypeOK
  <1>4. /\ call' \in [Call -> ModelCall] /\ call'[c] = [status |-> Terminal(r), by |-> r]
        /\ \A d \in Call : d # c => call'[d] = call[d]
    BY <1>1, <1>2 DEF IInv, TypeOK, Settle, EndCall, ModelCall
  <1>5. /\ resv' \in [Run -> Reservation]
        /\ resv'[r] = [status |-> "SETTLED", settled |-> Amount(r)]
        /\ \A s \in Run : s # r => resv'[s] = resv[s]
    BY <1>2 DEF IInv, TypeOK, Settle, EndReservation, SettledStatus, Reservation
  <1>6. ledger' \in [Run -> Seq(Entry)]
    BY <1>2, SettlementEntries DEF IInv, TypeOK, Settle, AppendEntries
  <1>. QED BY <1>3, <1>4, <1>5, <1>6 DEF SettleWrites

LEMMA SettleInv == ASSUME IInv, NEW r \in Run, Settle(r) PROVE IInv'
  <1>. DEFINE c == run[r].call
  <1>. USE DEF SettleWrites
  <1>1. /\ run[r].pc = "closing" /\ UNCHANGED <<pack, permit, overdue, hop, executed, faults>>
        /\ c \in Call /\ call[c].status = "SENDING" /\ call[c].by = r
        /\ run[r] \in Complete
    BY DEF IInv, TypeOK, RunInv, Settle, UnderWay
  <1>2. SettleWrites(r)
    BY SettleFacts
  <1>3. /\ run'[r].pc = "returned" /\ run'[r].call = c /\ run'[r].usage = run[r].usage
        /\ call'[c].by = r /\ call'[c].status \notin {"ABSENT", "SENDING"}
        /\ resv'[r].status = "SETTLED"
    <2>1. Terminal(r) \notin {"ABSENT", "SENDING"}
      BY DEF Terminal
    <2>. QED BY <2>1, <1>1, <1>2 DEF Complete
  <1>4. TypeOK'
    BY <1>1, <1>2 DEF IInv, TypeOK
  <1>5. ASSUME NEW d \in Call PROVE CallInv(d)'
    <2>1. CASE d = c
      BY <2>1, <1>1, <1>3 DEF CallInv
    <2>2. CASE d # c
      <3>1. call'[d] = call[d] /\ permit'[d] = permit[d] /\ CallInv(d)
        BY <2>2, <1>1, <1>2 DEF IInv
      <3>2. CASE call[d].status = "ABSENT"
        BY <3>1, <3>2 DEF CallInv
      <3>3. CASE call[d].status # "ABSENT"
        <4>1. call[d].by \in Run /\ call[d].by # r
          BY <2>2, <3>1, <3>3 DEF CallInv
        <4>2. run'[call[d].by] = run[call[d].by] /\ resv'[call[d].by] = resv[call[d].by]
          BY <4>1, <1>2
        <4>. QED BY <3>1, <3>3, <4>1, <4>2 DEF CallInv
      <3>. QED BY <3>2, <3>3
    <2>. QED BY <2>1, <2>2
  <1>6. ASSUME NEW s \in Run PROVE RunInv(s)' /\ UsageInv(s)'
    <2>1. RunInv(s) /\ UsageInv(s)
      BY DEF IInv
    <2>2. CASE s = r
      <3>1. resv'[r].status = "SETTLED" /\ resv'[r].settled = Amount(r)
        BY <1>2
      <3>2. Amount(r) < Reserved => run[r].usage = Amount(r)
        BY AmountRange DEF IInv, Settle
      <3>. QED BY <2>1, <2>2, <3>1, <3>2, <1>1, <1>3 DEF RunInv, UsageInv, UnderWay
    <2>3. CASE s # r
      <3>1. run'[s] = run[s] /\ resv'[s] = resv[s]
        BY <2>3, <1>2
      <3>2. run[s].pc \in UnderWay => call'[run[s].call] = call[run[s].call]
        BY <2>1, <2>3, <1>1, <1>2 DEF RunInv, UnderWay
      <3>. QED BY <2>1, <3>1, <3>2, <1>1 DEF RunInv, UsageInv
    <2>. QED BY <2>2, <2>3
  <1>7. ASSUME NEW h \in Hop PROVE HopInv(h)'
    <2>1. HopInv(h) /\ (hop[h].pc \in Passed => hop[h].call \in Call)
      BY DEF IInv, HopInv, Passed, Sent
    <2>2. hop[h].pc \in Passed => call'[hop[h].call].status # "ABSENT"
      <3>1. CASE hop[h].call = c
        BY <3>1, <1>3
      <3>2. CASE hop[h].call # c
        BY <3>2, <2>1, <1>2 DEF HopInv
      <3>. QED BY <3>1, <3>2
    <2>. QED BY <2>1, <2>2, <1>1 DEF HopInv
  <1>8. PassedOnce'
    BY <1>1 DEF IInv, PassedOnce
  <1>. QED BY <1>4, <1>5, <1>6, <1>7, <1>8 DEF IInv

-----------------------------------------------------------------------------
(* The permit and the last hop *)

\* A permit moves on, and never back to where a request may be admitted.
PermitMoves == /\ permit' \in [Call -> PermitStatus]
               /\ \A d \in Call : \/ permit'[d] = permit[d]
                                  \/ permit[d] # "ABSENT" /\ permit'[d] \notin {"ABSENT", "READY"}

LEMMA HopMovesInv ==
  ASSUME IInv, NEW h \in Hop, NEW new \in Request, hop' = [hop EXCEPT ![h] = new],
         hop[h].pc \in {"arrived", "admitted", "keyed"}, new.pc # "none",
         new.call = hop[h].call, new.altered = hop[h].altered, PermitMoves,
         new.pc \in Passed =>
            \/ hop[h].pc \in Passed
            \/ /\ permit[new.call] = "READY" /\ permit'[new.call] # "READY"
               /\ ~ new.altered /\ call[new.call].status = "SENDING",
         executed \subseteq executed', executed' \subseteq Call,
         new.pc = "streaming" => new.call \in executed',
         UNCHANGED <<gatewayVars, overdue, faults>>
  PROVE  IInv'
  <1>. USE DEF gatewayVars
  <1>1. /\ hop' \in [Hop -> Request] /\ hop'[h] = new
        /\ \A k \in Hop : k # h => hop'[k] = hop[k]
    BY DEF IInv, TypeOK
  <1>2. new.call \in Call
    BY DEF IInv, HopInv
  <1>3. TypeOK'
    BY <1>1 DEF IInv, TypeOK, PermitMoves
  <1>4. ASSUME NEW c \in Call PROVE CallInv(c)'
    BY DEF IInv, CallInv, PermitMoves
  <1>5. ASSUME NEW r \in Run PROVE RunInv(r)'
    BY DEF IInv, RunInv, PermitMoves
  <1>6. ASSUME NEW r \in Run PROVE UsageInv(r)'
    <2>1. \A k \in Hop : hop[k].pc \in Sent => hop'[k] = hop[k]
      BY <1>1 DEF Sent
    <2>. QED BY <2>1 DEF IInv, UsageInv
  <1>7. ASSUME NEW k \in Hop PROVE HopInv(k)'
    <2>1. HopInv(k) /\ (hop[k].pc \in Passed => hop[k].call \in Call)
      BY DEF IInv, HopInv, Passed, Sent
    <2>2. hop[k].pc \in Passed => permit'[hop[k].call] \notin {"ABSENT", "READY"}
      BY <2>1 DEF HopInv, PermitMoves
    <2>3. CASE k # h
      BY <2>1, <2>2, <2>3, <1>1 DEF HopInv
    <2>4. CASE k = h /\ hop[h].pc \in Passed
      BY <2>1, <2>2, <2>4, <1>1, <1>2 DEF HopInv
    <2>5. CASE k = h /\ hop[h].pc \notin Passed
      BY <2>5, <1>1, <1>2 DEF HopInv, PermitMoves, Passed, Sent
    <2>. QED BY <2>3, <2>4, <2>5
  <1>8. PassedOnce'
    <2>1. \A k \in Hop : k # h /\ hop[k].pc \in Passed /\ hop[k].call = new.call => new.pc \notin Passed
      BY <1>2 DEF IInv, HopInv, PassedOnce
    <2>. QED BY <2>1, <1>1 DEF IInv, PassedOnce
  <1>. QED BY <1>3, <1>4, <1>5, <1>6, <1>7, <1>8 DEF IInv

LEMMA AdmitInv ==
  ASSUME IInv, NEW h \in Hop, NEW answered \in BOOLEAN, Admit(h, answered) PROVE IInv'
  <1>. DEFINE c == hop[h].call
              granted == Approved(h) /\ c \notin overdue /\ permit[c] = "READY"
              pc == IF granted /\ answered THEN "admitted" ELSE "refused"
              new == [hop[h] EXCEPT !.pc = pc]
  <1>1. /\ hop[h].pc = "arrived" /\ hop[h] \in Request /\ c \in Call
        /\ permit[c] \in PermitStatus /\ permit \in [Call -> PermitStatus]
    BY DEF Admit, IInv, TypeOK, HopInv
  <1>2. /\ new \in Request /\ new.pc = pc /\ new.call = c /\ new.altered = hop[h].altered
        /\ hop' = [hop EXCEPT ![h] = new]
    BY <1>1 DEF Admit, HopMoves, Request
  <1>3. /\ \A d \in Call : d # c => permit'[d] = permit[d]
        /\ permit' \in [Call -> PermitStatus]
        /\ granted => permit'[c] = "ADMITTED"
        /\ ~ granted => permit'[c] \in {permit[c], Expired(c)}
    BY <1>1 DEF Admit, Expired, PermitStatus
  <1>4. PermitMoves
    BY <1>1, <1>3 DEF PermitMoves, Expired
  <1>5. new.pc \in Passed => granted
    BY <1>2 DEF Passed, Sent
  <1>6. granted => permit[c] = "READY" /\ ~ hop[h].altered /\ call[c].status = "SENDING"
    BY DEF Approved
  <1>7. UNCHANGED <<gatewayVars, overdue, executed, faults>> /\ executed \subseteq Call
        /\ new.pc \notin {"none", "streaming"}
    BY <1>2 DEF Admit, IInv, TypeOK
  <1>. HIDE DEF new, pc, granted
  <1>. QED BY <1>1, <1>2, <1>3, <1>4, <1>5, <1>6, <1>7, HopMovesInv

LEMMA AuthorizeInv ==
  ASSUME IInv, NEW h \in Hop, NEW answered \in BOOLEAN, Authorize(h, answered) PROVE IInv'
  <1>. DEFINE c == hop[h].call
              current == call[c].status = "SENDING"
              granted == current /\ c \notin overdue /\ permit[c] = "ADMITTED"
              pc == IF granted /\ answered THEN "keyed" ELSE "refused"
              new == [hop[h] EXCEPT !.pc = pc]
  <1>1. /\ hop[h].pc = "admitted" /\ hop[h] \in Request /\ c \in Call
        /\ permit[c] \in PermitStatus /\ permit \in [Call -> PermitStatus]
    BY DEF Authorize, IInv, TypeOK, HopInv
  <1>2. /\ new \in Request /\ new.pc = pc /\ new.call = c /\ new.altered = hop[h].altered
        /\ hop' = [hop EXCEPT ![h] = new]
    BY <1>1 DEF Authorize, HopMoves, Request
  <1>3. /\ \A d \in Call : d # c => permit'[d] = permit[d]
        /\ permit' \in [Call -> PermitStatus]
        /\ permit'[c] \in {"SECRET_READ", permit[c], Expired(c)}
        /\ permit'[c] = "SECRET_READ" => permit[c] \in {"ADMITTED", "SECRET_READ"}
    BY <1>1 DEF Authorize, Expired, PermitStatus
  <1>4. PermitMoves
    BY <1>1, <1>3 DEF PermitMoves, Expired
  <1>5. UNCHANGED <<gatewayVars, overdue, executed, faults>> /\ executed \subseteq Call
        /\ new.pc \notin {"none", "streaming"} /\ hop[h].pc \in Passed
    BY <1>1, <1>2 DEF Authorize, IInv, TypeOK, Passed
  <1>. HIDE DEF new, pc, granted, current
  <1>. QED BY <1>1, <1>2, <1>4, <1>5, HopMovesInv

LEMMA PostInv ==
  ASSUME IInv, NEW h \in Hop, NEW outcome \in Sent, Post(h, outcome) PROVE IInv'
  <1>. DEFINE c == hop[h].call
              new == [hop[h] EXCEPT !.pc = outcome]
  <1>1. hop[h].pc = "keyed" /\ hop[h] \in Request /\ c \in Call /\ hop[h].pc \in Passed
    BY DEF Post, IInv, TypeOK, HopInv, Passed
  <1>2. /\ new \in Request /\ new.pc = outcome /\ new.call = c /\ new.altered = hop[h].altered
        /\ hop' = [hop EXCEPT ![h] = new] /\ new.pc # "none"
    BY <1>1 DEF Post, HopMoves, Request, Sent
  <1>3. /\ executed \subseteq executed' /\ executed' \subseteq Call
        /\ outcome = "streaming" => c \in executed'
    <2>1. executed \subseteq Call
      BY DEF IInv, TypeOK
    <2>2. CASE outcome = "streaming"
      BY <2>1, <2>2, <1>1 DEF Post
    <2>3. CASE outcome = "rejected"
      BY <2>1, <2>3 DEF Post
    <2>4. CASE outcome = "unknown"
      BY <2>1, <2>4, <1>1 DEF Post
    <2>. QED BY <2>2, <2>3, <2>4 DEF Sent
  <1>4. UNCHANGED <<gatewayVars, overdue, faults>> /\ PermitMoves
    BY DEF Post, PermitMoves, IInv, TypeOK
  <1>. HIDE DEF new
  <1>. QED BY <1>1, <1>2, <1>3, <1>4, HopMovesInv

LEMMA HopArrivesInv == ASSUME IInv, NEW h \in Hop, NEW c \in Call, HopArrives(h, c) PROVE IInv'
  <1>1. PICK altered \in BOOLEAN :
          hop' = [hop EXCEPT ![h] = [pc |-> "arrived", call |-> c, altered |-> altered]]
    BY DEF HopArrives
  <1>2. /\ hop[h].pc = "none"
        /\ hop' \in [Hop -> Request] /\ hop'[h].pc = "arrived" /\ hop'[h].call = c
        /\ \A k \in Hop : k # h => hop'[k] = hop[k]
    BY <1>1 DEF HopArrives, IInv, TypeOK, Request
  <1>3. UNCHANGED <<gatewayVars, permit, overdue, executed, faults>>
    BY DEF HopArrives
  <1>. USE DEF gatewayVars
  <1>4. TypeOK'
    BY <1>2, <1>3 DEF IInv, TypeOK
  <1>5. ASSUME NEW d \in Call PROVE CallInv(d)'
    BY <1>3 DEF IInv, CallInv
  <1>6. ASSUME NEW r \in Run PROVE RunInv(r)' /\ UsageInv(r)'
    <2>1. RunInv(r) /\ UsageInv(r)
      BY DEF IInv
    <2>2. RunInv(r)'
      BY <2>1, <1>3 DEF RunInv
    <2>3. \A k \in Hop : hop[k].pc \in Sent => hop'[k] = hop[k]
      BY <1>2 DEF Sent
    <2>. QED BY <2>1, <2>2, <2>3, <1>3 DEF UsageInv
  <1>7. ASSUME NEW k \in Hop PROVE HopInv(k)'
    <2>1. CASE k = h
      BY <2>1, <1>2 DEF HopInv, Passed, Sent
    <2>2. CASE k # h
      BY <2>2, <1>2, <1>3 DEF IInv, HopInv
    <2>. QED BY <2>1, <2>2
  <1>8. PassedOnce'
    <2>1. "arrived" \notin Passed
      BY DEF Passed, Sent
    <2>. QED BY <2>1, <1>2 DEF IInv, PassedOnce
  <1>. QED BY <1>4, <1>5, <1>6, <1>7, <1>8 DEF IInv

-----------------------------------------------------------------------------
(* Every step *)

LEMMA UnchangedInv ==
  ASSUME IInv, UNCHANGED <<gatewayVars, permit, hop, executed, faults>>, overdue' \subseteq Call
  PROVE  IInv'
  <1>. USE DEF gatewayVars
  <1>1. TypeOK'
    BY DEF IInv, TypeOK
  <1>2. ASSUME NEW d \in Call PROVE CallInv(d)'
    BY DEF IInv, CallInv
  <1>3. ASSUME NEW r \in Run PROVE RunInv(r)' /\ UsageInv(r)'
    BY DEF IInv, RunInv, UsageInv
  <1>4. ASSUME NEW k \in Hop PROVE HopInv(k)'
    BY DEF IInv, HopInv
  <1>5. PassedOnce'
    BY DEF IInv, PassedOnce
  <1>. QED BY <1>1, <1>2, <1>3, <1>4, <1>5 DEF IInv

LEMMA NextInv == IInv /\ [Next]_vars => IInv'
  <1>. SUFFICES ASSUME IInv, [Next]_vars PROVE IInv'
    OBVIOUS
  <1>1. CASE UNCHANGED vars
    BY <1>1, UnchangedInv DEF vars, gatewayVars, IInv, TypeOK
  <1>2. ASSUME NEW r \in Run, NEW c \in Call, Refuse(r, c) \/ Accept(r, c) PROVE IInv'
    BY <1>2, RefuseInv, AcceptInv
  <1>3. ASSUME NEW r \in Run, GatewayStep(r) PROVE IInv'
    BY <1>3, IssuePermitInv, IssueFailsInv, StreamInv, SettleInv, OverrunInv DEF GatewayStep
  <1>4. ASSUME NEW r \in Run, Crash(r) PROVE IInv'
    BY <1>4, CrashInv
  <1>5. ASSUME NEW c \in Call, PermitExpires(c) PROVE IInv'
    BY <1>5, UnchangedInv DEF PermitExpires, IInv, TypeOK
  <1>6. ASSUME NEW h \in Hop, NEW c \in Call, HopArrives(h, c) PROVE IInv'
    BY <1>6, HopArrivesInv
  <1>7. ASSUME NEW h \in Hop, HopStep(h) PROVE IInv'
    BY <1>7, AdmitInv, AuthorizeInv, PostInv DEF HopStep
  <1>. QED BY <1>1, <1>2, <1>3, <1>4, <1>5, <1>6, <1>7 DEF Next, Done

\* The inductive invariant holds in every reachable state.
THEOREM InvHolds == Spec => []IInv
  BY InitInv, NextInv, PTL DEF Spec

\* Type correctness of the gateway's rows, permits and requests; no reservation is
\* settled for more than was reserved.
THEOREM TypeCorrect == Spec => []TypeOK
  BY InvHolds, PTL DEF IInv

\* Whatever Bifrost repeats, alters or delays, and whichever answers of the permit
\* authority are lost, the bridge posts a call once at most, and as it was approved.
THEOREM SentOnce == Spec => []SentOnceAsApproved
  <1>1. IInv => SentOnceAsApproved
    BY DEF IInv, HopInv, PassedOnce, SentOnceAsApproved, Passed
  <1>. QED BY <1>1, InvHolds, PTL

\* The post-stream transaction ends call and reservation together; a crash, a
\* rejected permit or an overrun leaves both open.
THEOREM CallAndBudget == Spec => []CallAndBudgetAgree
  <1>1. IInv => CallAndBudgetAgree
    <2>. SUFFICES ASSUME IInv, NEW c \in Call, call[c].status # "ABSENT"
                  PROVE  call[c].status \in TerminalCall <=> resv[call[c].by].status = "SETTLED"
      BY DEF CallAndBudgetAgree
    <2>1. CallInv(c) /\ call[c].status \in {"SENDING"} \union TerminalCall
      BY DEF IInv, TypeOK, ModelCall
    <2>. QED BY <2>1 DEF CallInv, TerminalCall
  <1>. QED BY <1>1, InvHolds, PTL

\* _settlement_quantity never returns budget of a call without the provider's report.
THEOREM PaidInFull == Spec => []UnreportedIsPaidInFull
  <1>1. IInv => UnreportedIsPaidInFull
    <2>. SUFFICES ASSUME IInv, NEW r \in Run, resv[r].status = "SETTLED", resv[r].settled < Reserved
                  PROVE  run[r].usage = resv[r].settled /\ run[r].call \in executed
      BY DEF UnreportedIsPaidInFull
    <2>1. UsageInv(r) /\ resv[r].settled \in 0..Reserved
      BY DEF IInv, TypeOK, Reservation
    <2>2. run[r].usage = resv[r].settled
      BY <2>1 DEF UsageInv
    <2>3. run[r].usage # Unreported
      BY <2>1, <2>2, ControlledCallAssumption DEF Unreported
    <2>. QED BY <2>1, <2>2, <2>3 DEF UsageInv
  <1>. QED BY <1>1, InvHolds, PTL

-----------------------------------------------------------------------------
(* Calls implement one-shot, prepaid egress *)

\* What the abstract specification sees.
PaidView == [c \in Call |-> Paid(c)]
ChargeView == [c \in Call |-> IF call[c].by = NoOne THEN 0 ELSE resv[call[c].by].settled]
SentView == {hop[h].call : h \in {k \in Hop : hop[k].pc \in Sent}}

LEMMA EgressStutter ==
  ASSUME UNCHANGED <<call, resv>>, SentView' = SentView PROVE UNCHANGED Egress!vars
  <1>1. PaidView' = PaidView
    BY DEF PaidView, Paid
  <1>2. ChargeView' = ChargeView
    BY DEF ChargeView
  <1>. QED BY <1>1, <1>2 DEF Egress!vars, PaidView, ChargeView, SentView

LEMMA RefineInit == Init => Egress!Init
  <1>. SUFFICES ASSUME Init PROVE Egress!Init
    OBVIOUS
  <1>1. PaidView = [c \in Call |-> "NEW"]
    BY DEF Init, PaidView, Paid
  <1>2. ChargeView = [c \in Call |-> 0]
    BY DEF Init, ChargeView
  <1>3. SentView = {}
    BY DEF Init, SentView, Sent
  <1>. QED BY <1>1, <1>2, <1>3 DEF Egress!Init, PaidView, ChargeView, SentView

LEMMA RefineAccept ==
  ASSUME IInv, NEW r \in Run, NEW c \in Call, Accept(r, c) PROVE Egress!Reserve(c)
  <1>1. AcceptWrites(r, c) /\ SentView' = SentView /\ r # NoOne
    BY AcceptFacts, ControlledCallAssumption DEF IInv, Accept, SentView
  <1>2. call[c].status = "ABSENT" /\ call[c].by = NoOne /\ resv[r].status = "ABSENT" /\ resv[r].settled = 0
    BY DEF Accept, InsertCall, Reserve, IInv, CallInv, UsageInv
  <1>3. \A d \in Call : d # c =>
          /\ call'[d] = call[d]
          /\ call[d].status # "ABSENT" => resv'[call[d].by] = resv[call[d].by]
          /\ call[d].status = "ABSENT" => call[d].by = NoOne
    BY <1>1, <1>2 DEF IInv, CallInv, AcceptWrites
  <1>4. Paid(c) = "NEW" /\ Paid(c)' = "RESERVED"
    BY <1>1, <1>2 DEF Paid, AcceptWrites
  <1>5. \A d \in Call : d # c => Paid(d)' = Paid(d)
    BY <1>3 DEF Paid
  <1>6. PaidView' = [PaidView EXCEPT ![c] = "RESERVED"]
    BY <1>4, <1>5, Zenon DEF PaidView
  <1>7. ChargeView' = ChargeView
    <2>1. ASSUME NEW d \in Call PROVE ChargeView'[d] = ChargeView[d]
      <3>1. CASE d = c
        BY <3>1, <1>1, <1>2 DEF ChargeView, AcceptWrites
      <3>2. CASE d # c
        BY <3>2, <1>3 DEF ChargeView
      <3>. QED BY <3>1, <3>2
    <2>. QED BY <2>1 DEF ChargeView
  <1>. QED BY <1>1, <1>4, <1>6, <1>7 DEF Egress!Reserve, PaidView, ChargeView, SentView

LEMMA RefineSettle ==
  ASSUME IInv, NEW r \in Run, NEW c \in Call, c = run[r].call,
         NEW amount \in 0..Reserved, amount = Amount(r), Settle(r)
  PROVE  Egress!Settle(c, amount)
  <1>1. SettleWrites(r) /\ SentView' = SentView /\ r # NoOne
    BY SettleFacts, ControlledCallAssumption DEF Settle, SentView
  <1>2. /\ call[c].status = "SENDING" /\ call[c].by = r
        /\ resv[r].status = "CONSUMING"
    BY DEF Settle, IInv, RunInv, CallInv, UnderWay
  <1>3. amount < Reserved => c \in SentView
    <2>1. amount < Reserved => run[r].usage # Unreported
      BY AmountRange DEF IInv, Settle
    <2>2. run[r].usage # Unreported => \E h \in Hop : hop[h].pc \in Sent /\ hop[h].call = c
      BY DEF IInv, UsageInv
    <2>. QED BY <2>1, <2>2 DEF SentView
  <1>4. \A d \in Call : d # c =>
          /\ call'[d] = call[d]
          /\ call[d].status # "ABSENT" => resv'[call[d].by] = resv[call[d].by]
          /\ call[d].status = "ABSENT" => call[d].by = NoOne
    BY <1>1 DEF IInv, CallInv, SettleWrites
  <1>5. /\ call'[c].by = r /\ call'[c].status # "ABSENT"
        /\ resv'[r].status = "SETTLED" /\ resv'[r].settled = amount
    BY <1>1 DEF SettleWrites, Terminal
  <1>6. Paid(c) = "RESERVED" /\ Paid(c)' = "SETTLED"
    BY <1>2, <1>5 DEF Paid
  <1>7. \A d \in Call : d # c => Paid(d)' = Paid(d)
    BY <1>4 DEF Paid
  <1>8. PaidView' = [PaidView EXCEPT ![c] = "SETTLED"]
    BY <1>6, <1>7, Zenon DEF PaidView
  <1>9. ChargeView' = [ChargeView EXCEPT ![c] = amount]
    <2>1. ASSUME NEW d \in Call
          PROVE  ChargeView'[d] = [ChargeView EXCEPT ![c] = amount][d]
      <3>1. CASE d = c
        BY <3>1, <1>1, <1>5 DEF ChargeView
      <3>2. CASE d # c
        BY <3>2, <1>4 DEF ChargeView
      <3>. QED BY <3>1, <3>2
    <2>. QED BY <2>1 DEF ChargeView
  <1>. QED BY <1>1, <1>2, <1>3, <1>6, <1>8, <1>9 DEF Egress!Settle, PaidView, ChargeView, SentView

LEMMA RefinePost ==
  ASSUME IInv, NEW h \in Hop, NEW c \in Call, c = hop[h].call,
         NEW outcome \in Sent, Post(h, outcome)
  PROVE  Egress!Send(c)
  <1>1. /\ hop[h].pc \in Passed /\ hop[h].pc \notin Sent /\ UNCHANGED <<call, resv>>
        /\ call[c].status # "ABSENT"
    BY DEF Post, Passed, Sent, IInv, HopInv, gatewayVars
  <1>2. \A k \in Hop : k # h => hop'[k] = hop[k]
    BY DEF Post, HopMoves, IInv, TypeOK
  <1>3. hop'[h].pc \in Sent /\ hop'[h].call = c
    BY DEF Post, HopMoves, IInv, TypeOK, Request
  <1>4. SentView' = SentView \union {c}
    BY <1>1, <1>2, <1>3 DEF SentView
  <1>5. c \notin SentView
    BY <1>1 DEF SentView, IInv, PassedOnce, Passed
  <1>6. Paid(c) # "NEW"
    BY <1>1 DEF Paid
  <1>7. PaidView' = PaidView /\ ChargeView' = ChargeView
    BY <1>1 DEF PaidView, Paid, ChargeView
  <1>. QED BY <1>1, <1>4, <1>5, <1>6, <1>7 DEF Egress!Send, PaidView, ChargeView, SentView

\* A request that is not posted yet may do anything else unseen.
LEMMA UnsentStutter ==
  ASSUME TypeOK, NEW h \in Hop, NEW new, hop' = [hop EXCEPT ![h] = new],
         hop[h].pc \notin Sent, new.pc \notin Sent, UNCHANGED gatewayVars
  PROVE  UNCHANGED Egress!vars
  <1>1. hop'[h] = new /\ \A k \in Hop : k # h => hop'[k] = hop[k]
    BY DEF TypeOK
  <1>2. SentView' = SentView
    BY <1>1 DEF SentView
  <1>. QED BY <1>2, EgressStutter DEF gatewayVars

LEMMA RefineHop ==
  ASSUME IInv, NEW h \in Hop,
         HopStep(h) \/ \E c \in Call : HopArrives(h, c)
  PROVE  [Egress!Next]_(Egress!vars)
  <1>1. ASSUME NEW answered \in BOOLEAN, Admit(h, answered) \/ Authorize(h, answered)
        PROVE  UNCHANGED Egress!vars
    <2>1. PICK pc \in {"admitted", "keyed", "refused"} : hop' = [hop EXCEPT ![h].pc = pc]
      BY <1>1 DEF Admit, Authorize, HopMoves
    <2>. DEFINE new == [hop[h] EXCEPT !.pc = pc]
    <2>2. new.pc \notin Sent /\ hop' = [hop EXCEPT ![h] = new]
      BY <2>1 DEF IInv, TypeOK, Request, Sent
    <2>. QED BY <1>1, <2>2, UnsentStutter DEF IInv, Admit, Authorize, Sent
  <1>2. ASSUME NEW c \in Call, HopArrives(h, c) PROVE UNCHANGED Egress!vars
    <2>1. \E new : new.pc \notin Sent /\ hop' = [hop EXCEPT ![h] = new]
      BY <1>2 DEF HopArrives, Sent
    <2>. QED BY <1>2, <2>1, UnsentStutter DEF IInv, HopArrives, Sent
  <1>3. ASSUME NEW outcome \in Sent, Post(h, outcome) PROVE Egress!Next
    <2>1. PICK c \in Call : c = hop[h].call
      BY <1>3 DEF Post, IInv, HopInv
    <2>. QED BY <1>3, <2>1, RefinePost DEF Egress!Next
  <1>. QED BY <1>1, <1>2, <1>3 DEF HopStep

LEMMA RefineStep == ASSUME IInv, [Next]_vars PROVE [Egress!Next]_(Egress!vars)
  <1>1. CASE UNCHANGED <<call, resv, hop>>
    BY <1>1, EgressStutter DEF SentView
  <1>2. ASSUME NEW r \in Run, NEW c \in Call, Refuse(r, c) \/ Accept(r, c)
        PROVE  [Egress!Next]_(Egress!vars)
    BY <1>1, <1>2, RefineAccept DEF Refuse, Egress!Next
  <1>3. ASSUME NEW r \in Run, GatewayStep(r) \/ Crash(r) PROVE [Egress!Next]_(Egress!vars)
    <2>1. CASE Settle(r)
      <3>1. PICK c \in Call, amount \in 0..Reserved : c = run[r].call /\ amount = Amount(r)
        BY <2>1, AmountRange DEF Settle, IInv, RunInv
      <3>. QED BY <2>1, <3>1, RefineSettle DEF Egress!Next
    <2>2. CASE ~ Settle(r)
      <3>1. UNCHANGED <<call, resv, hop>>
        BY <1>3, <2>2 DEF GatewayStep, IssuePermit, IssueFails, TextFrame, BadFrame, UsageFrame,
           EndOfStream, StatusError, NetworkError, StreamStep, Overrun, Crash
      <3>. QED BY <1>1, <3>1
    <2>. QED BY <2>1, <2>2
  <1>4. ASSUME NEW c \in Call, PermitExpires(c) PROVE [Egress!Next]_(Egress!vars)
    BY <1>1, <1>4 DEF PermitExpires, gatewayVars
  <1>5. ASSUME NEW h \in Hop, HopStep(h) \/ \E c \in Call : HopArrives(h, c)
        PROVE  [Egress!Next]_(Egress!vars)
    BY <1>5, RefineHop
  <1>. QED BY <1>1, <1>2, <1>3, <1>4, <1>5 DEF Next, Done, vars

\* Seen by whoever pays, every call is reserved for before it is sent, sent once at
\* most, and settled once for what was reported or in full.
THEOREM CallsAreEgress == Spec => ImplementsEgress
  <1>1. Init => Egress!Init
    BY RefineInit
  <1>2. IInv /\ [Next]_vars => [Egress!Next]_(Egress!vars)
    BY RefineStep
  <1>. QED BY <1>1, <1>2, InvHolds, PTL DEF Spec, ImplementsEgress, Egress!Spec

-----------------------------------------------------------------------------
(* The ledger *)

\* The entries of a reservation at each point of its life.
ReserveEntry == [kind |-> "RESERVE", delta |-> Reserved]
LedgerInv(r) ==
  /\ resv[r].status = "ABSENT" => ledger[r] = <<>>
  /\ resv[r].status = "CONSUMING" => ledger[r] = <<ReserveEntry>>
  /\ resv[r].status = "SETTLED" =>
       \E kind \in {"SETTLE", "WORST_CASE_SETTLE"} :
         LET paid == [kind |-> kind, delta |-> resv[r].settled] IN
         \/ ledger[r] = <<ReserveEntry, paid>> /\ resv[r].settled = Reserved
         \/ ledger[r] = <<ReserveEntry, paid,
                          [kind |-> "RETURN", delta |-> resv[r].settled - Reserved]>>

LEMMA Concatenations ==
  ASSUME NEW x \in Entry, NEW y \in Entry, NEW z \in Entry
  PROVE  /\ <<>> \o <<x>> = <<x>> /\ <<x>> \o <<>> = <<x>>
         /\ <<x>> \o <<y>> = <<x, y>>
         /\ <<x>> \o (<<y>> \o <<>>) = <<x, y>>
         /\ <<x>> \o (<<y>> \o <<z>>) = <<x, y, z>>
  <1>1. <<>> \in Seq(Entry) /\ <<x>> \in Seq(Entry) /\ <<y>> \in Seq(Entry) /\ <<z>> \in Seq(Entry)
    OBVIOUS
  <1>2. ASSUME NEW u \in Entry, NEW v \in Entry PROVE Append(<<u>>, v) = <<u, v>>
    <2>1. <<u, v>> \in Seq(Entry) /\ Len(<<u, v>>) = 2 /\ <<u, v>>[1] = u /\ <<u, v>>[2] = v
      OBVIOUS
    <2>2. <<u>> \in Seq(Entry) /\ Len(<<u>>) = 1 /\ <<u>>[1] = u
      OBVIOUS
    <2>. DEFINE s == Append(<<u>>, v)
    <2>3. s \in Seq(Entry) /\ Len(s) = 2 /\ s[1] = u /\ s[2] = v
      BY <2>2, AppendProperties
    <2>. HIDE DEF s
    <2>4. \A i \in 1..2 : s[i] = <<u, v>>[i]
      BY <2>1, <2>3
    <2>5. s = <<u, v>>
      BY <2>1, <2>3, <2>4, SeqEqual, Zenon
    <2>. QED BY <2>5 DEF s
  <1>3. Append(<<x, y>>, z) = <<x, y, z>> /\ <<x, y>> \in Seq(Entry)
    <2>1. /\ <<x, y, z>> \in Seq(Entry) /\ Len(<<x, y, z>>) = 3
          /\ <<x, y, z>>[1] = x /\ <<x, y, z>>[2] = y /\ <<x, y, z>>[3] = z
      OBVIOUS
    <2>2. <<x, y>> \in Seq(Entry) /\ Len(<<x, y>>) = 2 /\ <<x, y>>[1] = x /\ <<x, y>>[2] = y
      OBVIOUS
    <2>. DEFINE s == Append(<<x, y>>, z)
    <2>3. s \in Seq(Entry) /\ Len(s) = 3 /\ s[1] = x /\ s[2] = y /\ s[3] = z
      BY <2>2, AppendProperties
    <2>. HIDE DEF s
    <2>4. \A i \in 1..3 : s[i] = <<x, y, z>>[i]
      BY <2>1, <2>3
    <2>5. s = <<x, y, z>>
      BY <2>1, <2>3, <2>4, SeqEqual, Zenon
    <2>. QED BY <2>2, <2>5 DEF s
  <1>4. <<>> \o <<x>> = <<x>> /\ <<x>> \o <<>> = <<x>> /\ <<y>> \o <<>> = <<y>>
    BY <1>1, ConcatEmptySeq
  <1>5. <<x>> \o <<y>> = <<x, y>> /\ <<x, y>> \o <<z>> = <<x, y, z>>
    BY <1>1, <1>2, <1>3, AppendIsConcat
  <1>6. <<x>> \o (<<y>> \o <<z>>) = (<<x>> \o <<y>>) \o <<z>>
    BY <1>1, ConcatAssociative
  <1>. QED BY <1>4, <1>5, <1>6

LEMMA LedgerInit == Init => \A r \in Run : LedgerInv(r)
  BY DEF Init, LedgerInv

LEMMA LedgerAccept ==
  ASSUME IInv, NEW r \in Run, NEW c \in Call, Accept(r, c), NEW s \in Run, LedgerInv(s)
  PROVE  LedgerInv(s)'
  <1>1. resv[r].status = "ABSENT" /\ AcceptWrites(r, c)
    BY AcceptFacts DEF Accept, Reserve, IInv
  <1>2. CASE s # r
    <2>1. resv'[s] = resv[s] /\ ledger'[s] = ledger[s]
      BY <1>1, <1>2 DEF Accept, AppendEntries, AcceptWrites, IInv, TypeOK
    <2>. QED BY <2>1 DEF LedgerInv
  <1>3. CASE s = r
    <2>1. ledger'[r] = ledger[r] \o <<ReserveEntry>>
      BY DEF Accept, AppendEntries, IInv, TypeOK, ReserveEntry
    <2>2. ReserveEntry \in Entry
      BY ControlledCallAssumption DEF ReserveEntry, Entry
    <2>3. ledger[r] = <<>>
      BY <1>1, <1>3 DEF LedgerInv
    <2>4. ledger'[r] = <<ReserveEntry>>
      BY <2>1, <2>2, <2>3, Concatenations
    <2>. QED BY <1>1, <1>3, <2>4 DEF LedgerInv, AcceptWrites
  <1>. QED BY <1>2, <1>3

LEMMA LedgerSettle ==
  ASSUME IInv, NEW r \in Run, Settle(r), NEW s \in Run, LedgerInv(s) PROVE LedgerInv(s)'
  <1>1. resv[r].status = "CONSUMING" /\ SettleWrites(r)
    BY SettleFacts DEF Settle, EndReservation
  <1>2. CASE s # r
    <2>1. resv'[s] = resv[s] /\ ledger'[s] = ledger[s]
      BY <1>1, <1>2 DEF Settle, AppendEntries, SettleWrites, IInv, TypeOK
    <2>. QED BY <2>1 DEF LedgerInv
  <1>3. CASE s = r
    <2>1. ledger'[r] = <<ReserveEntry>> \o Settlement(r)
      BY <1>1, <1>3 DEF Settle, AppendEntries, LedgerInv, IInv, TypeOK
    <2>2. resv'[r].status = "SETTLED" /\ resv'[r].settled = Amount(r)
      BY <1>1 DEF SettleWrites
    <2>3. PICK kind \in {"SETTLE", "WORST_CASE_SETTLE"} :
            Settlement(r) = <<[kind |-> kind, delta |-> Amount(r)]>>
                            \o IF Amount(r) = Reserved THEN <<>>
                               ELSE <<[kind |-> "RETURN", delta |-> Amount(r) - Reserved]>>
      <3>1. CASE run[r].usage = Unreported
        BY <3>1, Zenon DEF Settlement
      <3>2. CASE run[r].usage # Unreported
        BY <3>2, Zenon DEF Settlement
      <3>. QED BY <3>1, <3>2
    <2>. DEFINE paid == [kind |-> kind, delta |-> Amount(r)]
                back == [kind |-> "RETURN", delta |-> Amount(r) - Reserved]
    <2>4. ReserveEntry \in Entry /\ paid \in Entry /\ back \in Entry
      <3>1. Amount(r) \in Int /\ Reserved \in Int
        BY AmountRange, ControlledCallAssumption DEF IInv, Settle
      <3>. QED BY <3>1 DEF ReserveEntry, Entry
    <2>5. CASE Amount(r) = Reserved
      <3>1. ledger'[r] = <<ReserveEntry>> \o (<<paid>> \o <<>>)
        BY <2>1, <2>3, <2>5, Zenon
      <3>2. ledger'[r] = <<ReserveEntry, paid>>
        BY <3>1, <2>4, Concatenations, Zenon
      <3>. QED BY <3>2, <1>3, <2>2, <2>5 DEF LedgerInv
    <2>6. CASE Amount(r) # Reserved
      <3>1. ledger'[r] = <<ReserveEntry>> \o (<<paid>> \o <<back>>)
        BY <2>1, <2>3, <2>6, Zenon
      <3>2. ledger'[r] = <<ReserveEntry, paid, back>>
        BY <3>1, <2>4, Concatenations, Zenon
      <3>. QED BY <3>2, <1>3, <2>2 DEF LedgerInv
    <2>. QED BY <2>5, <2>6
  <1>. QED BY <1>2, <1>3

LEMMA LedgerNext ==
  ASSUME IInv, [Next]_vars, NEW s \in Run, LedgerInv(s) PROVE LedgerInv(s)'
  <1>1. CASE UNCHANGED <<resv, ledger>>
    BY <1>1 DEF LedgerInv
  <1>2. CASE \E r \in Run, c \in Call : Accept(r, c)
    BY <1>2, LedgerAccept
  <1>3. CASE \E r \in Run : Settle(r)
    BY <1>3, LedgerSettle
  <1>4. CASE \E r \in Run, c \in Call : Refuse(r, c)
    BY <1>1, <1>4 DEF Refuse
  <1>5. CASE \E r \in Run : (GatewayStep(r) /\ ~ Settle(r)) \/ Crash(r)
    BY <1>1, <1>5 DEF GatewayStep, IssuePermit, IssueFails, TextFrame, BadFrame, UsageFrame,
       EndOfStream, StatusError, NetworkError, StreamStep, Overrun, Crash
  <1>6. CASE \/ \E c \in Call : PermitExpires(c) \/ \E h \in Hop : HopArrives(h, c)
             \/ \E h \in Hop : HopStep(h)
    BY <1>1, <1>6 DEF PermitExpires, HopArrives, HopStep, Admit, Authorize, Post, gatewayVars
  <1>. QED BY <1>1, <1>2, <1>3, <1>4, <1>5, <1>6 DEF Next, Done, vars

\* What entry i of a ledger adds to a total.
Part(r, kinds, i) == IF ledger[r][i].kind \in kinds THEN ledger[r][i].delta ELSE 0

LEMMA TotalUnfolds ==
  ASSUME NEW r \in Run, ledger[r] \in Seq(Entry), Len(ledger[r]) <= 3, NEW kinds
  PROVE  \E sum : /\ TotalOf(r, kinds) = sum[Len(ledger[r])]
                  /\ sum[0] = 0
                  /\ \A i \in 1..Len(ledger[r]) : sum[i] = sum[i - 1] + Part(r, kinds, i)
  <1>. DEFINE n == Len(ledger[r])
              P(i) == Part(r, kinds, i)
              d(i) == IF ledger[r][i].kind \in kinds THEN ledger[r][i].delta ELSE 0
              F(f) == [i \in 0..n |-> IF i = 0 THEN 0 ELSE f[i - 1] + d(i)]
              sum == CHOOSE f : f = F(f)
              short == [i \in 0..n |-> IF i = 0 THEN 0
                                       ELSE IF i = 1 THEN d(1)
                                       ELSE IF i = 2 THEN d(1) + d(2)
                                       ELSE d(1) + d(2) + d(3)]
  <1>1. n \in 0..3 /\ \A i \in 1..n : d(i) \in Int
    <2>1. n \in Nat /\ \A i \in 1..n : ledger[r][i] \in Entry
      OBVIOUS
    <2>2. \A i \in 1..n : ledger[r][i].delta \in Int
      BY <2>1 DEF Entry
    <2>3. n \in 0..3
      <3>. HIDE DEF n
      <3>1. n <= 3 BY DEF n
      <3>. QED BY <2>1, <3>1
    <2>. QED BY <2>2, <2>3
  <1>2. short = F(short)
    <2>. HIDE DEF d
    <2>1. ASSUME NEW i \in 0..n PROVE short[i] = F(short)[i]
      BY <1>1
    <2>. QED BY <2>1, Zenon
  <1>3. sum = F(sum)
    <2>. HIDE DEF F, short
    <2>. QED BY <1>2
  <1>4. TotalOf(r, kinds) = sum[n]
    BY DEF TotalOf
  <1>5. sum[0] = 0 /\ \A i \in 1..n : sum[i] = sum[i - 1] + P(i)
    <2>1. \A i \in 0..n : sum[i] = IF i = 0 THEN 0 ELSE sum[i - 1] + d(i)
      <3>. HIDE DEF sum, d
      <3>1. \A f, g : f = F(g) => \A i \in 0..n : f[i] = IF i = 0 THEN 0 ELSE g[i - 1] + d(i)
        OBVIOUS
      <3>. HIDE DEF F
      <3>. QED BY <1>3, <3>1
    <2>2. \A i : d(i) = P(i)
      BY DEF Part
    <2>. HIDE DEF sum, d, P
    <2>. QED BY <2>1, <2>2, <1>1
  <1>. QED BY <1>4, <1>5

\* Once a reservation is settled, what was reserved is what was settled plus what was
\* returned, and the entries agree with the row: _settle_budget in every case.
THEOREM LedgerAlwaysBalances == Spec => []LedgerBalances
  <1>. DEFINE AllLedgers == \A r \in Run : LedgerInv(r)
  <1>1. IInv /\ AllLedgers /\ [Next]_vars => AllLedgers'
    BY LedgerNext
  <1>2. IInv /\ AllLedgers => LedgerBalances
    <2>. SUFFICES ASSUME IInv, AllLedgers, NEW r \in Run, resv[r].status = "SETTLED"
                  PROVE  /\ TotalOf(r, {"SETTLE", "WORST_CASE_SETTLE"}) = resv[r].settled
                         /\ TotalOf(r, {"RESERVE"}) = resv[r].settled - TotalOf(r, {"RETURN"})
      BY DEF LedgerBalances
    <2>. DEFINE a == resv[r].settled
    <2>1. ledger[r] \in Seq(Entry) /\ a \in Int /\ Reserved \in Int
      BY ControlledCallAssumption DEF IInv, TypeOK, Reservation
    <2>2. PICK kind \in {"SETTLE", "WORST_CASE_SETTLE"} :
            \/ ledger[r] = <<ReserveEntry, [kind |-> kind, delta |-> a]>> /\ a = Reserved
            \/ ledger[r] = <<ReserveEntry, [kind |-> kind, delta |-> a],
                             [kind |-> "RETURN", delta |-> a - Reserved]>>
      BY DEF LedgerInv
    <2>3. Len(ledger[r]) \in {2, 3}
      BY <2>2
    <2>4. ASSUME NEW kinds
          PROVE  LET two == 0 + Part(r, kinds, 1) + Part(r, kinds, 2) IN
                 /\ Len(ledger[r]) = 2 => TotalOf(r, kinds) = two
                 /\ Len(ledger[r]) = 3 => TotalOf(r, kinds) = two + Part(r, kinds, 3)
      <3>1. PICK sum : /\ TotalOf(r, kinds) = sum[Len(ledger[r])]
                       /\ sum[0] = 0
                       /\ \A i \in 1..Len(ledger[r]) : sum[i] = sum[i - 1] + Part(r, kinds, i)
        <4>1. \A n \in {2, 3} : n <= 3
          OBVIOUS
        <4>. QED BY <4>1, <2>1, <2>3, TotalUnfolds, Zenon
      <3>2. sum[1] = 0 + Part(r, kinds, 1) /\ sum[2] = sum[1] + Part(r, kinds, 2)
        <4>1. 1 \in 1..Len(ledger[r]) /\ 2 \in 1..Len(ledger[r]) /\ 1 - 1 = 0 /\ 2 - 1 = 1
          <5>. DEFINE n == Len(ledger[r])
          <5>. HIDE DEF n
          <5>1. n = 2 \/ n = 3 BY <2>3 DEF n
          <5>2. 1 \in 1..n /\ 2 \in 1..n BY <5>1
          <5>. QED BY <5>2 DEF n
        <4>. QED BY <4>1, <3>1
      <3>3. Len(ledger[r]) = 3 => sum[3] = sum[2] + Part(r, kinds, 3)
        BY <3>1
      <3>. QED BY <3>1, <3>2, <3>3
    <2>5. CASE ledger[r] = <<ReserveEntry, [kind |-> kind, delta |-> a]>> /\ a = Reserved
      BY <2>1, <2>4, <2>5 DEF Part, ReserveEntry
    <2>6. CASE ledger[r] = <<ReserveEntry, [kind |-> kind, delta |-> a],
                             [kind |-> "RETURN", delta |-> a - Reserved]>>
      BY <2>1, <2>4, <2>6 DEF Part, ReserveEntry
    <2>. QED BY <2>2, <2>5, <2>6
  <1>3. Init => AllLedgers
    BY LedgerInit
  <1>. HIDE DEF AllLedgers
  <1>. QED BY <1>1, <1>2, <1>3, InvHolds, PTL DEF Spec

-----------------------------------------------------------------------------
(* The lemmas about numbers, sequences and sorting that the proofs about      *)
(* packs and memories rest on.  RuntimeProofs states the same ones for the    *)
(* loop, retrieval and chunks; it cannot be extended here, for RuntimeLoop    *)
(* and ControlledCall use the same names.                                     *)

(* A set of numbers has a least one *)

Below == {p \in Nat \X Nat : p[1] < p[2]}

LEMMA LeastOf ==
  ASSUME NEW S, S \subseteq Nat, S # {}
  PROVE  \E x \in S : \A y \in S : x <= y
<1>1. IsWellFoundedOn(Below, Nat)
  <2>1. OpToRel(<, Nat) = Below
    BY DEF OpToRel, Below
  <2> QED
    BY <2>1, NatLessThanWellFounded
<1>2. PICK x \in S : \A y \in S : ~ (<<y, x>> \in Below)
  BY <1>1, WFMin
<1>3. \A y \in S : x <= y
  <2>1. SUFFICES ASSUME NEW y \in S, y < x PROVE FALSE
    OBVIOUS
  <2>2. <<y, x>> \in Below
    BY <2>1 DEF Below
  <2> QED
    BY <1>2, <2>2
<1> QED
  BY <1>3

-----------------------------------------------------------------------------
(* Recursion along a sequence *)

\* What holds at 0, and at each number when at the one before it, holds at all of them.
LEMMA OneAfterTheOther ==
  ASSUME NEW N \in Nat, NEW S, 0 \in S, \A n \in 1..N : n - 1 \in S => n \in S
  PROVE  \A n \in 0..N : n \in S
<1> DEFINE Left == {n \in Nat : n \in 0..N /\ n \notin S}
<1>1. SUFFICES ASSUME Left # {} PROVE FALSE
  OBVIOUS
<1>2. PICK n \in Left : \A m \in Left : n <= m
  <2> Left \subseteq Nat
    OBVIOUS
  <2> HIDE DEF Left
  <2> QED
    BY <1>1, LeastOf
<1>3. n # 0 /\ n \in 1..N /\ n - 1 \in 0..N /\ n - 1 \in Nat
  OBVIOUS
<1>4. n - 1 \in S
  BY <1>2, <1>3
<1> QED
  BY <1>3, <1>4

Runs(f, N, R, base, step) ==
  f \in [0..N -> R] /\ f[0] = base /\ \A n \in 1..N : f[n] = step[<<n, f[n - 1]>>]

\* A function can be defined by what it is at 0 and by how it goes on from each number to
\* the next.
LEMMA StepByStep ==
  ASSUME NEW N \in Nat, NEW R, NEW base \in R, NEW step \in [(1..N) \X R -> R]
  PROVE  \E f : Runs(f, N, R, base, step)
<1> DEFINE S == {m \in 0..N : \E f : Runs(f, m, R, base, step)}
<1>1. 0 \in S
  <2> DEFINE f == [n \in 0..0 |-> base]
  <2>1. f \in [0..0 -> R] /\ f[0] = base
    OBVIOUS
  <2>2. \A n \in 1..0 : FALSE
    OBVIOUS
  <2> HIDE DEF f
  <2>3. Runs(f, 0, R, base, step)
    BY <2>1, <2>2 DEF Runs
  <2> QED
    BY <2>3
<1>2. ASSUME NEW m \in 1..N, m - 1 \in S PROVE m \in S
  <2>1. PICK f : Runs(f, m - 1, R, base, step)
    BY <1>2
  <2> DEFINE g == [n \in 0..m |-> IF n = m THEN step[<<m, f[m - 1]>>] ELSE f[n]]
  <2>2. m - 1 \in 0..(m - 1) /\ f[m - 1] \in R /\ step[<<m, f[m - 1]>>] \in R
    BY <2>1 DEF Runs
  <2>3. g \in [0..m -> R] /\ g[0] = base
    BY <2>1, <2>2 DEF Runs
  <2>4. ASSUME NEW n \in 1..m PROVE g[n] = step[<<n, g[n - 1]>>]
    <3>1. CASE n = m
      <4>1. m - 1 \in 0..m /\ m - 1 # m /\ m \in 0..m
        OBVIOUS
      <4> QED
        BY <3>1, <4>1
    <3>2. CASE n # m
      <4>1. n \in 1..m - 1 /\ n - 1 \in 0..m /\ n - 1 # m
        BY <3>2
      <4> QED
        BY <2>1, <4>1 DEF Runs
    <3> QED
      BY <3>1, <3>2
  <2> HIDE DEF g
  <2>5. Runs(g, m, R, base, step)
    BY <2>3, <2>4 DEF Runs
  <2> QED
    BY <2>5
<1>3. N \in S
  <2> HIDE DEF S
  <2>1. \A n \in 0..N : n \in S
    BY <1>1, <1>2, OneAfterTheOther
  <2> QED
    BY <2>1
<1> QED
  BY <1>3

-----------------------------------------------------------------------------
(* A stable sort *)

\* A strict order of all of S, as a set of pairs.
Orders(R, S) ==
  /\ \A i \in S : <<i, i>> \notin R
  /\ \A i, j \in S : i # j => <<i, j>> \in R \/ <<j, i>> \in R
  /\ \A i, j, k \in S : <<i, j>> \in R /\ <<j, k>> \in R => <<i, k>> \in R

\* The place of everyone is how many come before.
PlaceIn(R, S) == [i \in S |-> Cardinality({j \in S : <<j, i>> \in R}) + 1]

Places(R, S, place) ==
  /\ Cardinality(S) \in Nat
  /\ place \in [S -> 1..Cardinality(S)]
  /\ \A i, j \in S : <<i, j>> \in R => place[i] < place[j]
  /\ \A i, j \in S : place[i] = place[j] => i = j
  /\ \A n \in 1..Cardinality(S) : \E i \in S : place[i] = n

\* Counting who comes before gives everyone of a strict order a place, and every place to
\* someone.
LEMMA EveryPlaceIsTaken ==
  ASSUME NEW S, IsFiniteSet(S), NEW R, Orders(R, S),
         NEW place, place = PlaceIn(R, S)
  PROVE  Places(R, S, place)
<1> DEFINE N == Cardinality(S)
           Ahead(i) == {j \in S : <<j, i>> \in R}
<1>1. N \in Nat
  BY FS_CardinalityType
<1>2. ASSUME NEW i \in S
      PROVE  IsFiniteSet(Ahead(i)) /\ Cardinality(Ahead(i)) \in 0..N - 1
  <2>1. Ahead(i) \in SUBSET (S \ {i})
    BY DEF Orders
  <2>2. IsFiniteSet(S \ {i}) /\ Cardinality(S \ {i}) = N - 1
    BY FS_RemoveElement
  <2> HIDE DEF Ahead
  <2>3. IsFiniteSet(Ahead(i)) /\ Cardinality(Ahead(i)) <= N - 1
    BY <2>1, <2>2, FS_Subset
  <2>4. Cardinality(Ahead(i)) \in Nat
    BY <2>3, FS_CardinalityType
  <2> QED
    BY <1>1, <2>3, <2>4
<1>3. ASSUME NEW i \in S, NEW j \in S, <<i, j>> \in R
      PROVE  Cardinality(Ahead(i)) < Cardinality(Ahead(j))
  <2>1. Ahead(i) \in SUBSET Ahead(j) /\ i \in Ahead(j) /\ i \notin Ahead(i)
    BY <1>3 DEF Orders
  <2> HIDE DEF Ahead
  <2>2. Cardinality(Ahead(i)) \in Nat /\ Cardinality(Ahead(j)) \in Nat /\ IsFiniteSet(Ahead(j))
    BY <1>2
  <2>3. Cardinality(Ahead(i)) <= Cardinality(Ahead(j)) /\ (Cardinality(Ahead(j)) = Cardinality(Ahead(i)) => Ahead(j) = Ahead(i))
    BY <2>1, <2>2, FS_Subset
  <2> QED
    BY <2>1, <2>2, <2>3
<1>4. place = [i \in S |-> Cardinality(Ahead(i)) + 1]
  BY DEF PlaceIn
<1> HIDE DEF Ahead, N
<1>5. place \in [S -> 1..N]
  BY <1>1, <1>2, <1>4
<1>6. \A i, j \in S : <<i, j>> \in R => place[i] < place[j]
  BY <1>2, <1>3, <1>4
<1>7. \A i, j \in S : place[i] = place[j] => i = j
  <2>1. SUFFICES ASSUME NEW i \in S, NEW j \in S, place[i] = place[j], i # j PROVE FALSE
    OBVIOUS
  <2>2. place[i] < place[j] \/ place[j] < place[i]
    BY <1>6, <2>1 DEF Orders
  <2>3. place[i] \in 1..N
    BY <1>5
  <2> QED
    BY <1>1, <2>1, <2>2, <2>3
<1>8. \A n \in 1..N : \E i \in S : place[i] = n
  <2>1. place \in Injection(S, 1..N)
    BY <1>5, <1>7 DEF Injection, IsInjective
  <2>2. IsFiniteSet(1..N) /\ Cardinality(1..N) = N
    BY <1>1, FS_Interval
  <2>3. place \in Surjection(S, 1..N)
    BY <2>1, <2>2, FS_Injection DEF N
  <2> QED
    BY <2>3 DEF Surjection
<1> QED
  BY <1>1, <1>5, <1>6, <1>7, <1>8 DEF N, Places

-----------------------------------------------------------------------------
(* Tokens *)

LEMMA ItemFields ==
  ASSUME NEW entry \in ContextItem
  PROVE  /\ entry.item_type \in MandatoryItemType \union DOMAIN bucket_for_item_type
         /\ entry.token_count \in Nat /\ entry.content_hash \in ContentHash
         /\ entry.priority \in Int /\ entry.rank_score \in Int /\ entry.item_id \in Nat
BY DEF ContextItem

\* The running sum of TokensAt.
Sums(items, places, f) ==
  /\ f \in [0..Len(items) -> Nat] /\ f[0] = 0
  /\ \A n \in 1..Len(items) : f[n] = f[n - 1] + IF n \in places THEN items[n].token_count ELSE 0
  /\ TokensAt(items, places) = f[Len(items)]

LEMMA TokensAdd ==
  ASSUME NEW items \in Seq(ContextItem), NEW places
  PROVE  \E f : Sums(items, places, f)
<1> DEFINE N == Len(items)
           Weight(n) == IF n \in places THEN items[n].token_count ELSE 0
           Solves(f) == f = [n \in 0..N |-> IF n = 0 THEN 0 ELSE f[n - 1] + Weight(n)]
<1>1. N \in Nat /\ \A n \in 1..N : Weight(n) \in Nat
  <2>1. \A n \in 1..Len(items) : items[n] \in ContextItem /\ items[n].token_count \in Nat
    BY ItemFields
  <2> QED
    BY <2>1
<1> HIDE DEF Weight
<1>2. \E f : Solves(f)
  <2> DEFINE step == [p \in (1..N) \X Nat |-> p[2] + Weight(p[1])]
  <2>1. step \in [(1..N) \X Nat -> Nat]
    <3>1. \A p \in (1..N) \X Nat : p[2] \in Nat /\ Weight(p[1]) \in Nat
      BY <1>1
    <3>2. \A p \in (1..N) \X Nat : p[2] + Weight(p[1]) \in Nat
      BY <3>1
    <3> QED
      BY <3>2
  <2> HIDE DEF step, N, Solves
  <2>2. PICK f : Runs(f, N, Nat, 0, step)
    BY <1>1, <2>1, StepByStep
  <2>3. ASSUME NEW n \in 1..N PROVE f[n] = f[n - 1] + Weight(n)
    <3>1. n \in 1..N /\ n - 1 \in 0..N /\ f[n - 1] \in Nat
      BY <1>1, <2>2 DEF Runs
    <3>2. step[<<n, f[n - 1]>>] = f[n - 1] + Weight(n)
      BY <3>1 DEF step
    <3> QED
      BY <2>2, <3>1, <3>2 DEF Runs
  <2>4. \A n \in 0..N : f[n] = IF n = 0 THEN 0 ELSE f[n - 1] + Weight(n)
    BY <1>1, <2>2, <2>3 DEF Runs
  <2>5. Solves(f)
    BY <2>2, <2>4 DEF Runs, Solves
  <2> QED
    BY <2>5
<1>3. PICK f : Solves(f) /\ TokensAt(items, places) = f[N]
  <2> DEFINE g == CHOOSE f : Solves(f)
  <2>1. Solves(g)
    BY <1>2
  <2>2. TokensAt(items, places) = g[N]
    BY DEF TokensAt, Weight
  <2> QED
    BY <2>1, <2>2
<1>4. f[0] = 0 /\ DOMAIN f = 0..N /\ \A n \in 1..N : f[n] = f[n - 1] + Weight(n)
  BY <1>1, <1>3
<1>5. f = [n \in 0..N |-> f[n]]
  BY <1>3
<1> DEFINE S == {n \in 0..N : f[n] \in Nat}
<1>6. 0 \in S
  BY <1>1, <1>4
<1>7. ASSUME NEW n \in 1..N, n - 1 \in S PROVE n \in S
  <2>1. f[n - 1] \in Nat /\ Weight(n) \in Nat
    BY <1>1, <1>7
  <2>2. f[n] \in Nat
    BY <1>4, <2>1
  <2> QED
    BY <2>2
<1>8. \A n \in 0..N : f[n] \in Nat
  <2> HIDE DEF S, N, Solves
  <2>1. \A n \in 0..N : n \in S
    BY <1>1, <1>6, <1>7, OneAfterTheOther
  <2> QED
    BY <2>1 DEF S
<1>9. f \in [0..N -> Nat]
  BY <1>5, <1>8
<1> QED
  BY <1>3, <1>4, <1>9 DEF Sums, Weight

\* More places, no fewer tokens.
LEMMA TokensGrow ==
  ASSUME NEW items \in Seq(ContextItem), NEW fewer, NEW places, fewer \cap DOMAIN items \subseteq places
  PROVE  TokensAt(items, fewer) \in Nat /\ TokensAt(items, fewer) <= TokensAt(items, places)
<1> DEFINE N == Len(items)
<1>1. N \in Nat /\ DOMAIN items = 1..N /\ \A n \in 1..N : items[n].token_count \in Nat
  BY ItemFields
<1>2. PICK f : Sums(items, fewer, f)
  BY TokensAdd
<1>3. PICK g : Sums(items, places, g)
  BY TokensAdd
<1> DEFINE S == {n \in 0..N : f[n] <= g[n]}
<1>4. 0 \in S
  BY <1>1, <1>2, <1>3 DEF Sums
<1>5. ASSUME NEW n \in 1..N, n - 1 \in S PROVE n \in S
  <2>1. f[n - 1] \in Nat /\ g[n - 1] \in Nat /\ f[n - 1] <= g[n - 1] /\ items[n].token_count \in Nat
    BY <1>1, <1>2, <1>3, <1>5 DEF Sums
  <2>2. n \in fewer => n \in places
    BY <1>1
  <2>3. f[n] <= g[n]
    BY <1>2, <1>3, <2>1, <2>2 DEF Sums
  <2> QED
    BY <2>3
<1>6. f[N] <= g[N]
  <2> HIDE DEF S, N
  <2>1. \A n \in 0..N : n \in S
    BY <1>1, <1>4, <1>5, OneAfterTheOther
  <2> QED
    BY <1>1, <2>1 DEF S
<1> QED
  BY <1>1, <1>2, <1>3, <1>6 DEF Sums

\* Places that are none change nothing.
LEMMA TokensSame ==
  ASSUME NEW items \in Seq(ContextItem), NEW places, NEW others, places \cap DOMAIN items = others \cap DOMAIN items
  PROVE  TokensAt(items, places) = TokensAt(items, others)
<1>1. places \cap DOMAIN items \subseteq others /\ others \cap DOMAIN items \subseteq places
  OBVIOUS
<1> QED
  BY <1>1, TokensGrow

LEMMA TokensNowhere ==
  ASSUME NEW items \in Seq(ContextItem), NEW places, places \cap DOMAIN items = {}
  PROVE  TokensAt(items, places) = 0
<1> DEFINE N == Len(items)
<1>1. N \in Nat /\ DOMAIN items = 1..N
  OBVIOUS
<1>2. PICK f : Sums(items, places, f)
  BY TokensAdd
<1> DEFINE S == {n \in 0..N : f[n] = 0}
<1>3. 0 \in S
  BY <1>1, <1>2 DEF Sums
<1>4. ASSUME NEW n \in 1..N, n - 1 \in S PROVE n \in S
  <2>1. n \notin places /\ f[n - 1] = 0
    BY <1>1, <1>4
  <2>2. f[n] = 0
    BY <1>2, <2>1 DEF Sums
  <2> QED
    BY <2>2
<1>5. f[N] = 0
  <2> HIDE DEF S, N
  <2>1. \A n \in 0..N : n \in S
    BY <1>1, <1>3, <1>4, OneAfterTheOther
  <2> QED
    BY <1>1, <2>1 DEF S
<1> QED
  BY <1>2, <1>5 DEF Sums

\* A place more, and its tokens more.
LEMMA TokensOneMore ==
  ASSUME NEW items \in Seq(ContextItem), NEW places, NEW k \in DOMAIN items, k \notin places
  PROVE  TokensAt(items, places \union {k}) = TokensAt(items, places) + items[k].token_count
<1> DEFINE N == Len(items)
<1>1. N \in Nat /\ DOMAIN items = 1..N /\ k \in 1..N /\ \A n \in 1..N : items[n].token_count \in Nat
  BY ItemFields
<1>2. PICK f : Sums(items, places, f)
  BY TokensAdd
<1>3. PICK g : Sums(items, places \union {k}, g)
  BY TokensAdd
<1> DEFINE S == {n \in 0..N : g[n] = f[n] + IF n < k THEN 0 ELSE items[k].token_count}
<1>4. 0 \in S
  BY <1>1, <1>2, <1>3 DEF Sums
<1>5. ASSUME NEW n \in 1..N, n - 1 \in S PROVE n \in S
  <2>1. /\ f[n - 1] \in Nat /\ g[n - 1] \in Nat /\ items[n].token_count \in Nat /\ items[k].token_count \in Nat
        /\ g[n - 1] = f[n - 1] + IF n - 1 < k THEN 0 ELSE items[k].token_count
    BY <1>1, <1>2, <1>3, <1>5 DEF Sums
  <2>2. /\ f[n] = f[n - 1] + IF n \in places THEN items[n].token_count ELSE 0
        /\ g[n] = g[n - 1] + IF n \in places \/ n = k THEN items[n].token_count ELSE 0
    BY <1>2, <1>3 DEF Sums
  <2>3. g[n] = f[n] + IF n < k THEN 0 ELSE items[k].token_count
    <3>1. CASE n < k
      BY <1>1, <2>1, <2>2, <3>1
    <3>2. CASE n = k
      BY <1>1, <2>1, <2>2, <3>2
    <3>3. CASE n > k
      BY <1>1, <2>1, <2>2, <3>3
    <3> QED
      BY <1>1, <3>1, <3>2, <3>3
  <2> QED
    BY <2>3
<1>6. g[N] = f[N] + IF N < k THEN 0 ELSE items[k].token_count
  <2> HIDE DEF S, N
  <2>1. \A n \in 0..N : n \in S
    BY <1>1, <1>4, <1>5, OneAfterTheOther
  <2> QED
    BY <1>1, <2>1 DEF S
<1> QED
  BY <1>1, <1>2, <1>3, <1>6 DEF Sums

LEMMA TokensAppend ==
  ASSUME NEW items \in Seq(ContextItem), NEW entry \in ContextItem, NEW places
  PROVE  TokensAt(Append(items, entry), places)
           = TokensAt(items, places) + IF Len(items) + 1 \in places THEN entry.token_count ELSE 0
<1> DEFINE N == Len(items)
           more == Append(items, entry)
<1>1. N \in Nat /\ more \in Seq(ContextItem) /\ Len(more) = N + 1 /\ more[N + 1] = entry /\ \A n \in 1..N : more[n] = items[n]
  OBVIOUS
<1>2. PICK f : Sums(items, places, f)
  BY TokensAdd
<1>3. PICK g : Sums(more, places, g)
  BY <1>1, TokensAdd
<1> HIDE DEF more
<1> DEFINE S == {n \in 0..N : g[n] = f[n]}
<1>4. 0 \in S
  BY <1>1, <1>2, <1>3 DEF Sums
<1>5. ASSUME NEW n \in 1..N, n - 1 \in S PROVE n \in S
  <2>1. n \in 1..N + 1 /\ g[n - 1] = f[n - 1] /\ more[n] = items[n]
    BY <1>1, <1>5
  <2>2. g[n] = f[n]
    BY <1>1, <1>2, <1>3, <2>1 DEF Sums
  <2> QED
    BY <2>2
<1>6. g[N] = f[N]
  <2> HIDE DEF S, N
  <2>1. \A n \in 0..N : n \in S
    BY <1>1, <1>4, <1>5, OneAfterTheOther
  <2> QED
    BY <1>1, <2>1 DEF S
<1>7. N + 1 \in 1..N + 1 /\ N + 1 - 1 = N
  BY <1>1
<1> QED
  BY <1>1, <1>2, <1>3, <1>6, <1>7 DEF Sums, more

LEMMA TokensOfMore ==
  ASSUME NEW items \in Seq(ContextItem), NEW entry \in ContextItem
  PROVE  /\ Tokens(items) \in Nat
         /\ Tokens(Append(items, entry)) = Tokens(items) + entry.token_count
<1>1. /\ Len(items) \in Nat /\ DOMAIN items = 1..Len(items)
      /\ DOMAIN Append(items, entry) = 1..Len(items) + 1 /\ Len(items) + 1 \in 1..Len(items) + 1
      /\ DOMAIN items \cap DOMAIN items = (1..Len(items) + 1) \cap DOMAIN items
  OBVIOUS
<1>2. TokensAt(items, DOMAIN items) = TokensAt(items, 1..Len(items) + 1)
  BY <1>1, TokensSame
<1>3. TokensAt(items, DOMAIN items) \in Nat
  BY TokensGrow
<1> QED
  BY <1>1, <1>2, <1>3, TokensAppend DEF Tokens

LEMMA TokensOfFirst ==
  ASSUME NEW a \in Seq(ContextItem), NEW b \in Seq(ContextItem)
  PROVE  TokensAt(a \o b, 1..Len(a)) = Tokens(a)
<1> DEFINE N == Len(a)
           L == Len(b)
           both == a \o b
<1>1. /\ N \in Nat /\ L \in Nat /\ both \in Seq(ContextItem) /\ Len(both) = N + L /\ DOMAIN a = 1..N
      /\ \A n \in 1..N : both[n] = a[n]
  OBVIOUS
<1>2. PICK f : Sums(a, 1..N, f)
  BY TokensAdd
<1>3. PICK g : Sums(both, 1..N, g)
  BY <1>1, TokensAdd
<1> HIDE DEF both
<1> DEFINE S == {n \in 0..N + L : IF n <= N THEN g[n] = f[n] ELSE g[n] = f[N]}
<1>4. 0 \in S
  BY <1>1, <1>2, <1>3 DEF Sums
<1>5. ASSUME NEW n \in 1..N + L, n - 1 \in S PROVE n \in S
  <2>1. g[n] = g[n - 1] + IF n \in 1..N THEN both[n].token_count ELSE 0
    BY <1>1, <1>3 DEF Sums
  <2>2. CASE n <= N
    <3>1. n \in 1..N /\ n - 1 <= N /\ g[n - 1] = f[n - 1] /\ both[n] = a[n]
      BY <1>1, <1>5, <2>2
    <3>2. f[n] = f[n - 1] + a[n].token_count
      BY <1>2, <3>1 DEF Sums
    <3> QED
      BY <2>1, <2>2, <3>1, <3>2
  <2>3. CASE n > N
    <3>1. n \notin 1..N /\ (n - 1 = N \/ ~(n - 1 <= N))
      BY <1>1, <2>3
    <3>2. g[n - 1] = f[N]
      BY <1>5, <3>1
    <3>3. f[N] \in Nat
      BY <1>1, <1>2 DEF Sums
    <3> QED
      BY <1>1, <2>1, <2>3, <3>1, <3>2, <3>3
  <2> QED
    BY <1>1, <2>2, <2>3
<1>6. g[N + L] = f[N]
  <2>0. N + L \in Nat
    BY <1>1
  <2> HIDE DEF S, N, L
  <2>1. \A n \in 0..N + L : n \in S
    BY <2>0, <1>4, <1>5, OneAfterTheOther
  <2> QED
    BY <1>1, <2>1 DEF S
<1> QED
  BY <1>1, <1>2, <1>3, <1>6 DEF Sums, Tokens, both

-----------------------------------------------------------------------------
(* Elastic items by rank *)

LEMMA RankIsAnOrder ==
  ASSUME NEW a \in ContextItem, NEW b \in ContextItem, NEW c \in ContextItem
  PROVE  /\ ~RanksBefore(a, a)
         /\ RanksBefore(a, b) => ~RanksBefore(b, a)
         /\ RanksBefore(a, b) /\ RanksBefore(b, c) => RanksBefore(a, c)
         /\ ~RanksBefore(a, b) /\ ~RanksBefore(b, a) /\ RanksBefore(b, c) => RanksBefore(a, c)
         /\ ~RanksBefore(a, b) /\ ~RanksBefore(b, a) /\ RanksBefore(c, b) => RanksBefore(c, a)
         /\ ~RanksBefore(a, b) /\ ~RanksBefore(b, a) /\ ~RanksBefore(b, c) /\ ~RanksBefore(c, b)
              => ~RanksBefore(a, c) /\ ~RanksBefore(c, a)
<1>1. /\ a.priority \in Int /\ a.rank_score \in Int /\ a.item_id \in Nat
      /\ b.priority \in Int /\ b.rank_score \in Int /\ b.item_id \in Nat
      /\ c.priority \in Int /\ c.rank_score \in Int /\ c.item_id \in Nat
  BY ItemFields
<1> QED
  BY <1>1 DEF RanksBefore

\* The elastic items, each once, and none after one that it ranks before.
LEMMA ElasticAreRanked ==
  ASSUME NEW items \in Seq(ContextItem), NEW ranked, ranked = RankedElastic(items),
         NEW elastic, elastic = {i \in DOMAIN items : Elastic(items[i])}
  PROVE  \E at \in [DOMAIN ranked -> elastic] :
           /\ ranked \in Seq(ContextItem)
           /\ \A n \in DOMAIN ranked : ranked[n] = items[at[n]]
           /\ \A m, n \in DOMAIN ranked : at[m] = at[n] => m = n
           /\ \A i \in elastic : \E n \in DOMAIN ranked : at[n] = i
           /\ \A m, n \in DOMAIN ranked : m < n => ~RanksBefore(ranked[n], ranked[m])
<1> DEFINE Precedes(i, j) == RanksBefore(items[i], items[j]) \/ (~RanksBefore(items[j], items[i]) /\ i < j)
           R == {p \in elastic \X elastic : Precedes(p[1], p[2])}
           place == [i \in elastic |-> Cardinality({j \in elastic : Precedes(j, i)}) + 1]
           N == Cardinality(elastic)
<1>1. /\ elastic \subseteq 1..Len(items) /\ Len(items) \in Nat /\ DOMAIN items = 1..Len(items)
      /\ \A i \in elastic : i \in Nat /\ items[i] \in ContextItem
  OBVIOUS
<1>2. IsFiniteSet(elastic)
  <2>1. elastic \in SUBSET (1..Len(items)) /\ IsFiniteSet(1..Len(items))
    BY <1>1, FS_Interval
  <2> QED
    BY <2>1, FS_Subset
<1>3. \A i, j, k \in elastic : /\ ~Precedes(i, i) /\ (i # j => Precedes(i, j) \/ Precedes(j, i))
                               /\ (Precedes(i, j) /\ Precedes(j, k) => Precedes(i, k))
  <2>1. SUFFICES ASSUME NEW i \in elastic, NEW j \in elastic, NEW k \in elastic
                 PROVE  /\ ~Precedes(i, i) /\ (i # j => Precedes(i, j) \/ Precedes(j, i))
                        /\ (Precedes(i, j) /\ Precedes(j, k) => Precedes(i, k))
    BY Zenon
  <2>2. i \in Nat /\ j \in Nat /\ k \in Nat
    BY <1>1
  <2> DEFINE a == items[i]
             b == items[j]
             c == items[k]
  <2>3. a \in ContextItem /\ b \in ContextItem /\ c \in ContextItem
    BY <1>1
  <2>4. /\ Precedes(i, i) <=> RanksBefore(a, a) \/ (~RanksBefore(a, a) /\ i < i)
        /\ Precedes(i, j) <=> RanksBefore(a, b) \/ (~RanksBefore(b, a) /\ i < j)
        /\ Precedes(j, i) <=> RanksBefore(b, a) \/ (~RanksBefore(a, b) /\ j < i)
        /\ Precedes(j, k) <=> RanksBefore(b, c) \/ (~RanksBefore(c, b) /\ j < k)
        /\ Precedes(i, k) <=> RanksBefore(a, c) \/ (~RanksBefore(c, a) /\ i < k)
    OBVIOUS
  <2> HIDE DEF a, b, c, Precedes
  <2> QED
    BY <2>2, <2>3, <2>4, RankIsAnOrder
<1> HIDE DEF Precedes
<1>4. \A i, j \in elastic : <<i, j>> \in R <=> Precedes(i, j)
  OBVIOUS
<1>5. place = PlaceIn(R, elastic)
  <2>1. \A i \in elastic : {j \in elastic : <<j, i>> \in R} = {j \in elastic : Precedes(j, i)}
    BY <1>4
  <2> QED
    BY <2>1 DEF PlaceIn
<1>6. Orders(R, elastic)
  <2>1. \A i \in elastic : <<i, i>> \notin R
    BY <1>3, <1>4
  <2>2. \A i, j \in elastic : i # j => <<i, j>> \in R \/ <<j, i>> \in R
    BY <1>3, <1>4
  <2>3. ASSUME NEW i \in elastic, NEW j \in elastic, NEW k \in elastic, <<i, j>> \in R, <<j, k>> \in R
        PROVE  <<i, k>> \in R
    BY <1>3, <1>4, <2>3
  <2> HIDE DEF R
  <2> QED
    BY <2>1, <2>2, <2>3 DEF Orders
<1> HIDE DEF R
<1>7. ranked = [n \in 1..N |-> items[CHOOSE i \in elastic : place[i] = n]]
  BY DEF RankedElastic, Precedes
<1> HIDE DEF place
<1> HIDE DEF N
<1>8. /\ N \in Nat /\ place \in [elastic -> 1..N]
      /\ \A i, j \in elastic : <<i, j>> \in R => place[i] < place[j]
      /\ \A i, j \in elastic : place[i] = place[j] => i = j
      /\ \A n \in 1..N : \E i \in elastic : place[i] = n
  <2>1. Places(R, elastic, place)
    BY <1>2, <1>5, <1>6, EveryPlaceIsTaken
  <2> QED
    BY <2>1 DEF N, Places
<1> DEFINE at == [n \in 1..N |-> CHOOSE i \in elastic : place[i] = n]
<1>9. at \in [1..N -> elastic] /\ \A n \in 1..N : place[at[n]] = n
  BY <1>8
<1>10. DOMAIN ranked = 1..N /\ \A n \in 1..N : ranked[n] = items[at[n]]
  BY <1>7
<1> HIDE DEF at
<1>11. \A n \in 1..N : ranked[n] \in ContextItem
  BY <1>1, <1>9, <1>10
<1>12. ranked \in Seq(ContextItem)
  <2>1. ranked = [n \in 1..N |-> ranked[n]]
    BY <1>7, <1>10
  <2> QED
    BY <1>8, <1>11, <2>1
<1>13. ASSUME NEW i \in elastic PROVE \E n \in 1..N : at[n] = i
  <2>1. place[i] \in 1..N
    BY <1>8
  <2>2. at[place[i]] \in elastic /\ place[at[place[i]]] = place[i]
    BY <1>9, <2>1
  <2> QED
    BY <1>8, <2>1, <2>2
<1>14. ASSUME NEW m \in 1..N, NEW n \in 1..N, m < n PROVE ~RanksBefore(ranked[n], ranked[m])
  <2>1. at[m] \in elastic /\ at[n] \in elastic /\ place[at[m]] = m /\ place[at[n]] = n
    BY <1>9
  <2>2. ~(n < m)
    BY <1>8, <1>14
  <2>3. <<at[n], at[m]>> \notin R
    BY <1>8, <2>1, <2>2
  <2>4. ~Precedes(at[n], at[m])
    BY <1>4, <2>1, <2>3
  <2> QED
    BY <1>10, <2>4 DEF Precedes
<1>15. \A m, n \in 1..N : at[m] = at[n] => m = n
  BY <1>9
<1>16. at \in [DOMAIN ranked -> elastic]
  BY <1>9, <1>10
<1> WITNESS at \in [DOMAIN ranked -> elastic]
<1> QED
  BY <1>10, <1>12, <1>13, <1>14, <1>15

-----------------------------------------------------------------------------
(* Mandatory items *)

MandatoryAt(items) == {i \in DOMAIN items : Mandatory(items[i])}

\* What MandatoryItems has found among the first n items, if no content is there twice.
Found(items, n, found) ==
  /\ found \in Seq(ContextItem)
  /\ \A i \in DOMAIN found : Mandatory(found[i]) /\ \E m \in 1..n : found[i] = items[m]
  /\ \A i, j \in DOMAIN found : i # j => found[i].content_hash # found[j].content_hash
  /\ \A m \in 1..n : Mandatory(items[m]) => \E i \in DOMAIN found : found[i] = items[m]
  /\ Tokens(found) = TokensAt(items, MandatoryAt(items) \cap (1..n))

LEMMA FoundGoesOn ==
  ASSUME NEW items \in Seq(ContextItem), NEW n \in 1..Len(items), NEW found, Found(items, n - 1, found),
         \A i, j \in DOMAIN items : i # j => items[i].content_hash # items[j].content_hash
  PROVE  Found(items, n, IF Mandatory(items[n]) THEN Append(found, items[n]) ELSE found)
<1> DEFINE entry == items[n]
           before == MandatoryAt(items) \cap (1..n - 1)
<1>1. /\ n \in DOMAIN items /\ entry \in ContextItem /\ 1..n - 1 \subseteq 1..n
      /\ \A m \in 1..n : m = n \/ m \in 1..n - 1
      /\ n \in 1..n /\ n \notin 1..n - 1 /\ \A m \in 1..n - 1 : m \in DOMAIN items /\ m # n
  OBVIOUS
<1>2. CASE Mandatory(entry)
  <2> DEFINE now == Append(found, entry)
             L == Len(found)
  <2>1. /\ L \in Nat /\ DOMAIN found = 1..L /\ now \in Seq(ContextItem) /\ DOMAIN now = 1..L + 1 /\ now[L + 1] = entry
        /\ \A i \in 1..L : now[i] = found[i]
    BY <1>1 DEF Found
  <2> HIDE DEF now, L
  <2>2. \A i \in DOMAIN now : i \in 1..L \/ i = L + 1
    BY <2>1
  <2>3. \A i \in 1..L : i \in DOMAIN now /\ i # L + 1
    BY <2>1
  <2>4. Tokens(now) = TokensAt(items, MandatoryAt(items) \cap (1..n))
    <3>1. Tokens(now) = Tokens(found) + entry.token_count
      BY <1>1, TokensOfMore DEF Found, now
    <3>2. MandatoryAt(items) \cap (1..n) = before \union {n} /\ n \notin before
      BY <1>1, <1>2 DEF MandatoryAt
    <3> HIDE DEF before
    <3>3. TokensAt(items, before \union {n}) = TokensAt(items, before) + entry.token_count
      BY <1>1, <3>2, TokensOneMore
    <3> QED
      BY <3>1, <3>2, <3>3 DEF Found, before
  <2>5. \A i \in DOMAIN found : found[i].content_hash # entry.content_hash
    BY <1>1 DEF Found
  <2>6. \A i \in DOMAIN now : Mandatory(now[i]) /\ \E m \in 1..n : now[i] = items[m]
    BY <1>1, <1>2, <2>1, <2>2 DEF Found
  <2>7. \A i, j \in DOMAIN now : i # j => now[i].content_hash # now[j].content_hash
    BY <2>1, <2>2, <2>5 DEF Found
  <2>8. ASSUME NEW m \in 1..n, Mandatory(items[m]) PROVE \E i \in DOMAIN now : now[i] = items[m]
    <3>1. CASE m = n
      BY <2>1, <3>1
    <3>2. CASE m \in 1..n - 1
      <4>1. PICK i \in DOMAIN found : found[i] = items[m]
        BY <2>8, <3>2 DEF Found
      <4> QED
        BY <2>1, <2>3, <4>1
    <3> QED
      BY <1>1, <3>1, <3>2
  <2>9. Found(items, n, now)
    BY <2>1, <2>4, <2>6, <2>7, <2>8 DEF Found
  <2> QED
    BY <1>2, <2>9 DEF now
<1>3. CASE ~Mandatory(entry)
  <2>1. MandatoryAt(items) \cap (1..n) = before
    BY <1>1, <1>3 DEF MandatoryAt
  <2>2. Found(items, n, found)
    BY <1>1, <1>3, <2>1 DEF Found
  <2> QED
    BY <1>3, <2>2
<1> QED
  BY <1>2, <1>3

LEMMA MandatoryAreFound ==
  ASSUME NEW items \in Seq(ContextItem),
         \A i, j \in DOMAIN items : i # j => items[i].content_hash # items[j].content_hash
  PROVE  Found(items, Len(items), MandatoryItems(items))
<1> DEFINE N == Len(items)
           Next1(found, n) == IF Mandatory(items[n]) THEN Append(found, items[n]) ELSE found
           Solves(f) == f = [n \in 0..N |-> IF n = 0 THEN <<>> ELSE Next1(f[n - 1], n)]
<1>1. N \in Nat /\ \A n \in 1..N : items[n] \in ContextItem
  OBVIOUS
<1>2. \A n \in 1..N, s \in Seq(ContextItem) : Next1(s, n) \in Seq(ContextItem)
  BY <1>1
<1>3. MandatoryItems(items) = (CHOOSE f : Solves(f))[N]
  BY DEF MandatoryItems
<1>4. \A n \in 1..N : \A s : Found(items, n - 1, s) => Found(items, n, Next1(s, n))
  BY FoundGoesOn
<1> HIDE DEF Next1
<1>5. \E f : Solves(f)
  <2> DEFINE step == [p \in (1..N) \X Seq(ContextItem) |-> Next1(p[2], p[1])]
  <2>1. step \in [(1..N) \X Seq(ContextItem) -> Seq(ContextItem)]
    <3>1. \A p \in (1..N) \X Seq(ContextItem) : Next1(p[2], p[1]) \in Seq(ContextItem)
      BY <1>2
    <3> QED
      BY <3>1
  <2>2. <<>> \in Seq(ContextItem)
    OBVIOUS
  <2> HIDE DEF step, N, Solves
  <2>3. PICK f : Runs(f, N, Seq(ContextItem), <<>>, step)
    BY <1>1, <2>1, <2>2, StepByStep
  <2>4. ASSUME NEW n \in 1..N PROVE f[n] = Next1(f[n - 1], n)
    <3>1. n \in 1..N /\ n - 1 \in 0..N /\ f[n - 1] \in Seq(ContextItem)
      BY <1>1, <2>3 DEF Runs
    <3>2. step[<<n, f[n - 1]>>] = Next1(f[n - 1], n)
      BY <3>1 DEF step
    <3> QED
      BY <2>3, <3>1, <3>2 DEF Runs
  <2>5. \A n \in 0..N : f[n] = IF n = 0 THEN <<>> ELSE Next1(f[n - 1], n)
    <3>1. \A n \in 0..N : n = 0 \/ (n # 0 /\ n \in 1..N)
      BY <1>1
    <3>2. f[0] = <<>>
      BY <2>3 DEF Runs
    <3> QED
      BY <2>4, <3>1, <3>2, Zenon
  <2>6. Solves(f)
    BY <2>3, <2>5 DEF Runs, Solves
  <2> QED
    BY <2>6
<1>6. PICK f : Solves(f) /\ MandatoryItems(items) = f[N]
  <2> DEFINE g == CHOOSE f : Solves(f)
  <2>1. Solves(g)
    BY <1>5
  <2> QED
    BY <1>3, <2>1
<1>7. f[0] = <<>> /\ \A n \in 1..N : f[n] = Next1(f[n - 1], n)
  BY <1>1, <1>6
<1> DEFINE S == {n \in 0..N : Found(items, n, f[n])}
<1>8. 0 \in S
  <2>1. /\ <<>> \in Seq(ContextItem) /\ DOMAIN <<>> = {} /\ 1..0 = {}
        /\ DOMAIN <<>> \cap DOMAIN <<>> = {} /\ (MandatoryAt(items) \cap {}) \cap DOMAIN items = {}
    OBVIOUS
  <2>2. Tokens(<<>>) = 0
    BY <2>1, TokensNowhere DEF Tokens
  <2>3. TokensAt(items, MandatoryAt(items) \cap (1..0)) = 0
    BY <2>1, TokensNowhere
  <2>4. Found(items, 0, <<>>)
    BY <2>1, <2>2, <2>3 DEF Found
  <2> QED
    BY <1>1, <1>7, <2>4
<1>9. ASSUME NEW n \in 1..N, n - 1 \in S PROVE n \in S
  BY <1>4, <1>7, <1>9
<1>10. N \in S
  <2> HIDE DEF S, N, Solves
  <2>1. \A n \in 0..N : n \in S
    BY <1>1, <1>8, <1>9, OneAfterTheOther
  <2> QED
    BY <1>1, <2>1
<1> QED
  BY <1>6, <1>10

-----------------------------------------------------------------------------
(* Duplicates of content *)

\* What is kept of the first n items, the first k of which are the mandatory ones.
DedupedOf(items, k, n, kept) ==
  /\ kept \in Seq(ContextItem)
  /\ \A i \in DOMAIN kept : \E m \in 1..n : kept[i] = items[m]
  /\ \A i, j \in DOMAIN kept : i # j => kept[i].content_hash # kept[j].content_hash
  /\ \A m \in 1..n : \E i \in DOMAIN kept :
       kept[i].content_hash = items[m].content_hash /\ (m <= k => Mandatory(kept[i]))
  /\ \A m \in 1..n : (\A l \in 1..m - 1 : items[l].content_hash # items[m].content_hash)
       => \E i \in DOMAIN kept : kept[i] = items[m]
  /\ TokensAt(kept, MandatoryAt(kept)) <= TokensAt(items, (1..k) \cap (1..n))

LEMMA KeepFirstTyped ==
  ASSUME NEW kept \in Seq(ContextItem), NEW entry \in ContextItem
  PROVE  KeepFirst(kept, entry) \in Seq(ContextItem)
BY DEF KeepFirst

LEMMA KeepFirstKeeps ==
  ASSUME NEW items \in Seq(ContextItem), NEW k \in Nat, NEW n \in 1..Len(items), NEW kept,
         \A i \in DOMAIN items : Mandatory(items[i]) <=> i <= k,
         DedupedOf(items, k, n - 1, kept)
  PROVE  DedupedOf(items, k, n, KeepFirst(kept, items[n]))
<1> DEFINE entry == items[n]
           before == (1..k) \cap (1..n - 1)
           L == Len(kept)
<1>1. /\ n \in DOMAIN items /\ entry \in ContextItem /\ \A m \in 1..n : m = n \/ m \in 1..n - 1
      /\ n \in 1..n /\ \A m \in 1..n - 1 : m \in DOMAIN items /\ m \in 1..n /\ m # n /\ m < n /\ m \in Nat
      /\ n \in Nat
  OBVIOUS
<1>2. kept \in Seq(ContextItem) /\ L \in Nat /\ DOMAIN kept = 1..L
  BY DEF DedupedOf
<1>3. /\ TokensAt(items, before) <= TokensAt(items, (1..k) \cap (1..n))
      /\ TokensAt(items, before) \in Nat /\ TokensAt(items, (1..k) \cap (1..n)) \in Nat
      /\ TokensAt(kept, MandatoryAt(kept)) \in Nat
  <2>1. before \cap DOMAIN items \subseteq (1..k) \cap (1..n)
    BY <1>1
  <2> HIDE DEF before
  <2> QED
    BY <1>2, <2>1, TokensGrow
<1>4. CASE \E i \in DOMAIN kept : kept[i].content_hash = entry.content_hash
  <2>1. KeepFirst(kept, entry) = kept
    BY <1>4 DEF KeepFirst
  <2>2. PICK i \in DOMAIN kept : kept[i].content_hash = entry.content_hash
    BY <1>4
  <2>3. PICK l \in 1..n - 1 : kept[i] = items[l]
    BY DEF DedupedOf
  <2>4. n <= k => Mandatory(kept[i])
    <3>1. n <= k => l <= k
      BY <1>1
    <3> QED
      BY <1>1, <2>3, <3>1
  <2>5. ~ \A m \in 1..n - 1 : items[m].content_hash # entry.content_hash
    BY <2>2, <2>3
  <2>6. \A m \in 1..n : \E j \in DOMAIN kept :
          kept[j].content_hash = items[m].content_hash /\ (m <= k => Mandatory(kept[j]))
    BY <1>1, <2>2, <2>4 DEF DedupedOf
  <2>7. \A m \in 1..n : (\A j \in 1..m - 1 : items[j].content_hash # items[m].content_hash)
          => \E j \in DOMAIN kept : kept[j] = items[m]
    BY <1>1, <2>5 DEF DedupedOf
  <2>8. TokensAt(kept, MandatoryAt(kept)) <= TokensAt(items, (1..k) \cap (1..n))
    <3> HIDE DEF before
    <3>1. TokensAt(kept, MandatoryAt(kept)) <= TokensAt(items, before)
      BY DEF DedupedOf, before
    <3> QED
      BY <1>3, <3>1
  <2>9. \A j \in DOMAIN kept : \E m \in 1..n : kept[j] = items[m]
    BY <1>1 DEF DedupedOf
  <2>10. DedupedOf(items, k, n, kept)
    BY <1>2, <2>6, <2>7, <2>8, <2>9 DEF DedupedOf
  <2> QED
    BY <2>1, <2>10
<1>5. CASE ~ \E i \in DOMAIN kept : kept[i].content_hash = entry.content_hash
  <2> DEFINE now == Append(kept, entry)
  <2>1. KeepFirst(kept, entry) = now
    BY <1>5 DEF KeepFirst
  <2>2. /\ now \in Seq(ContextItem) /\ DOMAIN now = 1..L + 1 /\ now[L + 1] = entry
        /\ \A i \in 1..L : now[i] = kept[i] /\ i \in DOMAIN now /\ i # L + 1
        /\ L + 1 \in DOMAIN now /\ L + 1 \notin DOMAIN kept
    BY <1>1, <1>2
  <2>3. \A places : TokensAt(now, places) = TokensAt(kept, places) + IF L + 1 \in places THEN entry.token_count ELSE 0
    BY <1>1, <1>2, TokensAppend
  <2> HIDE DEF now, L
  <2>4. \A i \in DOMAIN now : i \in 1..L \/ i = L + 1
    BY <1>2, <2>2
  <2>5. ASSUME NEW i \in DOMAIN now PROVE \E m \in 1..n : now[i] = items[m]
    <3>1. CASE i \in 1..L
      <4>1. PICK m \in 1..n - 1 : kept[i] = items[m]
        BY <1>2, <3>1 DEF DedupedOf
      <4>2. m \in 1..n
        BY <1>1
      <4> QED
        BY <2>2, <3>1, <4>1, <4>2
    <3>2. CASE i = L + 1
      <4>1. n \in 1..n /\ items[n] = entry
        BY <1>1
      <4> QED
        BY <2>2, <3>2, <4>1
    <3> QED
      BY <2>4, <3>1, <3>2
  <2>6. \A i, j \in DOMAIN now : i # j => now[i].content_hash # now[j].content_hash
    <3>1. \A i \in 1..L : now[i].content_hash # now[L + 1].content_hash
      BY <1>2, <1>5, <2>2
    <3>2. \A i, j \in 1..L : i # j => kept[i].content_hash # kept[j].content_hash
      BY <1>2 DEF DedupedOf
    <3>3. \A i, j \in 1..L : i # j => now[i].content_hash # now[j].content_hash
      BY <2>2, <3>2
    <3> QED
      BY <2>4, <3>1, <3>3
  <2>7. ASSUME NEW m \in 1..n
        PROVE  \E i \in DOMAIN now : now[i].content_hash = items[m].content_hash /\ (m <= k => Mandatory(now[i]))
    <3>1. CASE m = n
      <4>1. n <= k => Mandatory(entry)
        BY <1>1
      <4> QED
        BY <2>2, <3>1, <4>1
    <3>2. CASE m \in 1..n - 1
      <4>1. PICK i \in DOMAIN kept : kept[i].content_hash = items[m].content_hash /\ (m <= k => Mandatory(kept[i]))
        BY <3>2 DEF DedupedOf
      <4> QED
        BY <1>2, <2>2, <4>1
    <3> QED
      BY <1>1, <3>1, <3>2
  <2>8. ASSUME NEW m \in 1..n, \A l \in 1..m - 1 : items[l].content_hash # items[m].content_hash
        PROVE  \E i \in DOMAIN now : now[i] = items[m]
    <3>1. CASE m = n
      BY <2>2, <3>1
    <3>2. CASE m \in 1..n - 1
      <4>1. PICK i \in DOMAIN kept : kept[i] = items[m]
        BY <2>8, <3>2 DEF DedupedOf
      <4> QED
        BY <1>2, <2>2, <4>1
    <3> QED
      BY <1>1, <3>1, <3>2
  <2>9. TokensAt(kept, MandatoryAt(now)) = TokensAt(kept, MandatoryAt(kept))
    <3>1. MandatoryAt(now) \cap DOMAIN kept = MandatoryAt(kept) \cap DOMAIN kept
      BY <1>2, <2>2 DEF MandatoryAt
    <3> QED
      BY <1>2, <3>1, TokensSame
  <2>10. TokensAt(kept, MandatoryAt(kept)) <= TokensAt(items, before)
    BY DEF DedupedOf
  <2>11. entry.token_count \in Nat
    BY <1>1, ItemFields
  <2>12. TokensAt(now, MandatoryAt(now)) <= TokensAt(items, (1..k) \cap (1..n))
    <3>1. CASE n <= k
      <4>1. (1..k) \cap (1..n) = before \union {n} /\ n \notin before
        BY <1>1, <3>1
      <4> HIDE DEF before
      <4>2. TokensAt(items, before \union {n}) = TokensAt(items, before) + entry.token_count
        BY <1>1, <4>1, TokensOneMore
      <4>3. TokensAt(now, MandatoryAt(now)) <= TokensAt(kept, MandatoryAt(kept)) + entry.token_count
        BY <1>3, <2>3, <2>9, <2>11
      <4>4. TokensAt(items, (1..k) \cap (1..n)) = TokensAt(items, before) + entry.token_count
        BY <4>1, <4>2
      <4>5. TokensAt(now, MandatoryAt(now)) \in Nat /\ TokensAt(items, before) \in Nat
        BY <1>3, <2>2, TokensGrow
      <4> QED
        BY <1>3, <2>10, <2>11, <4>3, <4>4, <4>5
    <3>2. CASE ~ (n <= k)
      <4>1. L + 1 \notin MandatoryAt(now)
        BY <1>1, <2>2, <3>2 DEF MandatoryAt
      <4>2. TokensAt(now, MandatoryAt(now)) = TokensAt(kept, MandatoryAt(kept))
        BY <1>3, <2>3, <2>9, <4>1
      <4> HIDE DEF before
      <4> QED
        BY <1>3, <2>10, <4>2
    <3> QED
      BY <3>1, <3>2
  <2>13. DedupedOf(items, k, n, now)
    BY <2>2, <2>5, <2>6, <2>7, <2>8, <2>12 DEF DedupedOf
  <2> QED
    BY <2>1, <2>13
<1> QED
  BY <1>4, <1>5

LEMMA DedupedAre ==
  ASSUME NEW items \in Seq(ContextItem), NEW k \in Nat,
         \A i \in DOMAIN items : Mandatory(items[i]) <=> i <= k
  PROVE  DedupedOf(items, k, Len(items), Deduped(items))
<1> DEFINE N == Len(items)
           Solves(f) == f = [n \in 0..N |-> IF n = 0 THEN <<>> ELSE KeepFirst(f[n - 1], items[n])]
<1>1. N \in Nat /\ \A n \in 1..N : items[n] \in ContextItem
  OBVIOUS
<1>2. \E f : Solves(f)
  <2> DEFINE step == [p \in (1..N) \X Seq(ContextItem) |-> KeepFirst(p[2], items[p[1]])]
  <2>1. step \in [(1..N) \X Seq(ContextItem) -> Seq(ContextItem)]
    <3>1. \A p \in (1..N) \X Seq(ContextItem) : p[2] \in Seq(ContextItem) /\ items[p[1]] \in ContextItem
      BY <1>1
    <3>2. \A p \in (1..N) \X Seq(ContextItem) : KeepFirst(p[2], items[p[1]]) \in Seq(ContextItem)
      BY <3>1, KeepFirstTyped
    <3> QED
      BY <3>2
  <2>2. <<>> \in Seq(ContextItem)
    OBVIOUS
  <2> HIDE DEF step, N, Solves
  <2>3. PICK f : Runs(f, N, Seq(ContextItem), <<>>, step)
    BY <1>1, <2>1, <2>2, StepByStep
  <2>4. ASSUME NEW n \in 1..N PROVE f[n] = KeepFirst(f[n - 1], items[n])
    <3>1. n \in 1..N /\ n - 1 \in 0..N /\ f[n - 1] \in Seq(ContextItem)
      BY <1>1, <2>3 DEF Runs
    <3>2. step[<<n, f[n - 1]>>] = KeepFirst(f[n - 1], items[n])
      BY <3>1 DEF step
    <3> QED
      BY <2>3, <3>1, <3>2 DEF Runs
  <2>5. \A n \in 0..N : f[n] = IF n = 0 THEN <<>> ELSE KeepFirst(f[n - 1], items[n])
    BY <1>1, <2>3, <2>4 DEF Runs
  <2>6. Solves(f)
    BY <2>3, <2>5 DEF Runs, Solves
  <2> QED
    BY <2>6
<1>3. PICK f : Solves(f) /\ Deduped(items) = f[N]
  <2> DEFINE g == CHOOSE f : Solves(f)
  <2>1. Solves(g)
    BY <1>2
  <2>2. Deduped(items) = g[N]
    BY DEF Deduped
  <2> QED
    BY <2>1, <2>2
<1>4. f[0] = <<>> /\ \A n \in 1..N : f[n] = KeepFirst(f[n - 1], items[n])
  BY <1>1, <1>3
<1> DEFINE S == {n \in 0..N : DedupedOf(items, k, n, f[n])}
<1>5. 0 \in S
  <2>1. /\ <<>> \in Seq(ContextItem) /\ DOMAIN <<>> = {} /\ 1..0 = {} /\ MandatoryAt(<<>>) \cap DOMAIN <<>> = {}
        /\ ((1..k) \cap {}) \cap DOMAIN items = {}
    BY DEF MandatoryAt
  <2>2. TokensAt(<<>>, MandatoryAt(<<>>)) = 0
    BY <2>1, TokensNowhere
  <2>3. TokensAt(items, (1..k) \cap (1..0)) = 0
    BY <2>1, TokensNowhere
  <2>4. DedupedOf(items, k, 0, <<>>)
    BY <2>1, <2>2, <2>3 DEF DedupedOf
  <2> QED
    BY <1>1, <1>4, <2>4
<1>6. ASSUME NEW n \in 1..N, n - 1 \in S PROVE n \in S
  <2>1. n \in 1..Len(items) /\ DedupedOf(items, k, n - 1, f[n - 1])
    BY <1>6
  <2>2. DedupedOf(items, k, n, f[n])
    BY <1>4, <2>1, KeepFirstKeeps
  <2> QED
    BY <2>1, <2>2
<1>7. N \in S
  <2> HIDE DEF S, Solves
  <2>1. \A n \in 0..N : n \in S
    BY <1>1, <1>5, <1>6, OneAfterTheOther
  <2> QED
    BY <1>1, <2>1
<1> QED
  BY <1>3, <1>7

-----------------------------------------------------------------------------
(* The buckets *)

SumOf(t) == t["RECENT"] + t["MEMORY"] + t["TASK_ARTIFACT"] + t["EVIDENCE"] + t["SUMMARY"]

LEMMA BucketsAre == Bucket = {"RECENT", "MEMORY", "TASK_ARTIFACT", "EVIDENCE", "SUMMARY"}
BY DEF Bucket, bucket_for_item_type

LEMMA BucketOfItem ==
  ASSUME NEW entry \in ContextItem, Elastic(entry)
  PROVE  bucket_for_item_type[entry.item_type] \in Bucket
<1>1. entry.item_type \in DOMAIN bucket_for_item_type
  BY ItemFields DEF Elastic, Mandatory
<1> QED
  BY <1>1 DEF Bucket

\* Rounded down bucket by bucket, the shares are no more than there is to share.
LEMMA SharesFit ==
  ASSUME NEW profile \in DOMAIN ElasticRatio, NEW elastic \in Nat, NEW limit,
         limit = allocate_elastic_budget(profile, elastic)
  PROVE  limit \in [Bucket -> Nat] /\ SumOf(limit) <= elastic
<1> DEFINE ratio == ElasticRatio[profile]
           Is(a, b, c, d) == /\ ratio["RECENT"] = a /\ ratio["MEMORY"] = b /\ ratio["TASK_ARTIFACT"] = c
                             /\ ratio["EVIDENCE"] = d /\ ratio["SUMMARY"] = 0
<1>1. \/ Is(15, 10, 10, 65) \/ Is(10, 10, 35, 45) \/ Is(10, 10, 40, 40)
      \/ Is(0, 0, 50, 50) \/ Is(5, 5, 40, 50) \/ Is(15, 10, 60, 15)
  BY DEF ElasticRatio, Shares
<1> HIDE DEF ratio
<1>2. limit = [x \in Bucket |-> (elastic * ratio[x]) \div 100]
  BY DEF allocate_elastic_budget, ratio
<1>3. /\ limit["RECENT"] = (elastic * ratio["RECENT"]) \div 100
      /\ limit["MEMORY"] = (elastic * ratio["MEMORY"]) \div 100
      /\ limit["TASK_ARTIFACT"] = (elastic * ratio["TASK_ARTIFACT"]) \div 100
      /\ limit["EVIDENCE"] = (elastic * ratio["EVIDENCE"]) \div 100
      /\ limit["SUMMARY"] = (elastic * ratio["SUMMARY"]) \div 100
  BY <1>2, BucketsAre
<1> DEFINE Fits == /\ limit["RECENT"] \in Nat /\ limit["MEMORY"] \in Nat /\ limit["TASK_ARTIFACT"] \in Nat
                   /\ limit["EVIDENCE"] \in Nat /\ limit["SUMMARY"] \in Nat /\ SumOf(limit) <= elastic
<1>4. Fits
  <2>1. CASE Is(15, 10, 10, 65)
    BY <1>3, <2>1 DEF SumOf
  <2>2. CASE Is(10, 10, 35, 45)
    BY <1>3, <2>2 DEF SumOf
  <2>3. CASE Is(10, 10, 40, 40)
    BY <1>3, <2>3 DEF SumOf
  <2>4. CASE Is(0, 0, 50, 50)
    BY <1>3, <2>4 DEF SumOf
  <2>5. CASE Is(5, 5, 40, 50)
    BY <1>3, <2>5 DEF SumOf
  <2>6. CASE Is(15, 10, 60, 15)
    BY <1>3, <2>6 DEF SumOf
  <2> QED
    BY <1>1, <2>1, <2>2, <2>3, <2>4, <2>5, <2>6
<1>5. limit \in [Bucket -> Nat]
  <2>1. \A x \in Bucket : limit[x] \in Nat
    BY <1>4, BucketsAre
  <2> QED
    BY <1>2, <2>1
<1> QED
  BY <1>4, <1>5

-----------------------------------------------------------------------------
(* Filling the buckets *)

Basket == [items : Seq(ContextItem), remaining : [Bucket -> Nat]]

BucketOf(entry) == bucket_for_item_type[entry.item_type]

\* What is chosen after the first n of the ranked items.
ChosenOf(mandatory, limit, ranked, n, chosen) ==
  LET items == chosen.items
  IN  /\ chosen \in Basket
      /\ \A b \in Bucket : TokensAt(items, InBucket(items, b)) + chosen.remaining[b] = limit[b]
      /\ Tokens(items) + SumOf(chosen.remaining) = Tokens(mandatory) + SumOf(limit)
      /\ \A i, j \in DOMAIN items : i # j => items[i].content_hash # items[j].content_hash
      /\ \A i \in DOMAIN items : \/ \E j \in DOMAIN mandatory : items[i] = mandatory[j]
                                 \/ \E k \in 1..n : items[i] = ranked[k]
      /\ \A j \in DOMAIN mandatory : \E i \in DOMAIN items : items[i] = mandatory[j]
      /\ \A k \in 1..n :
           \/ \E i \in DOMAIN items : items[i] = ranked[k]
           \/ TakenBefore(items, ranked[k]) + ranked[k].token_count > limit[BucketOf(ranked[k])]

\* The items that are mandatory, and the others by rank: no content twice.
ToChoose(mandatory, ranked) ==
  /\ mandatory \in Seq(ContextItem) /\ ranked \in Seq(ContextItem)
  /\ \A j \in DOMAIN mandatory : Mandatory(mandatory[j])
  /\ \A k \in DOMAIN ranked : Elastic(ranked[k])
  /\ \A i, j \in DOMAIN mandatory : i # j => mandatory[i].content_hash # mandatory[j].content_hash
  /\ \A i, j \in DOMAIN ranked : i # j => ranked[i].content_hash # ranked[j].content_hash
  /\ \A j \in DOMAIN mandatory, k \in DOMAIN ranked : mandatory[j].content_hash # ranked[k].content_hash
  /\ \A m, n \in DOMAIN ranked : m < n => ~RanksBefore(ranked[n], ranked[m])

LEMMA InBucketAppend ==
  ASSUME NEW items \in Seq(ContextItem), NEW entry \in ContextItem, Elastic(entry), NEW b \in Bucket
  PROVE  TokensAt(Append(items, entry), InBucket(Append(items, entry), b))
           = TokensAt(items, InBucket(items, b)) + IF BucketOf(entry) = b THEN entry.token_count ELSE 0
<1> DEFINE now == Append(items, entry)
           L == Len(items)
<1>1. /\ L \in Nat /\ DOMAIN items = 1..L /\ DOMAIN now = 1..L + 1 /\ now[L + 1] = entry
      /\ \A i \in 1..L : now[i] = items[i] /\ i \in 1..L + 1
      /\ L + 1 \in 1..L + 1
  OBVIOUS
<1>2. TokensAt(now, InBucket(now, b)) = TokensAt(items, InBucket(now, b)) + IF L + 1 \in InBucket(now, b) THEN entry.token_count ELSE 0
  BY TokensAppend
<1> HIDE DEF now, L
<1>3. InBucket(now, b) \cap DOMAIN items = InBucket(items, b) \cap DOMAIN items
  BY <1>1 DEF InBucket
<1>4. TokensAt(items, InBucket(now, b)) = TokensAt(items, InBucket(items, b))
  BY <1>3, TokensSame
<1>5. L + 1 \in InBucket(now, b) <=> BucketOf(entry) = b
  BY <1>1 DEF InBucket, BucketOf
<1> QED
  BY <1>2, <1>4, <1>5 DEF now

LEMMA TakenBeforeGrows ==
  ASSUME NEW items \in Seq(ContextItem), NEW entry \in ContextItem, NEW c \in ContextItem
  PROVE  /\ TakenBefore(items, c) \in Nat /\ TakenBefore(Append(items, entry), c) \in Nat
         /\ TakenBefore(items, c) <= TakenBefore(Append(items, entry), c)
<1> DEFINE now == Append(items, entry)
           L == Len(items)
           before == {i \in InBucket(items, BucketOf(c)) : ~RanksBefore(c, items[i])}
           after == {i \in InBucket(now, BucketOf(c)) : ~RanksBefore(c, now[i])}
<1>1. /\ L \in Nat /\ DOMAIN items = 1..L /\ now \in Seq(ContextItem) /\ DOMAIN now = 1..L + 1
      /\ \A i \in 1..L : now[i] = items[i] /\ i \in 1..L + 1
      /\ L + 1 \notin 1..L
  OBVIOUS
<1>2. TokensAt(now, before) = TokensAt(items, before) + IF L + 1 \in before THEN entry.token_count ELSE 0
  BY TokensAppend
<1> HIDE DEF now, L
<1>3. L + 1 \notin before /\ before \subseteq after
  BY <1>1 DEF InBucket
<1> HIDE DEF before, after
<1>4. before \cap DOMAIN now \subseteq after
  BY <1>3
<1>5. TokensAt(now, before) <= TokensAt(now, after) /\ TokensAt(now, before) \in Nat
  BY <1>1, <1>4, TokensGrow
<1>6. TokensAt(now, after) \in Nat /\ TokensAt(items, before) \in Nat
  BY <1>1, TokensGrow
<1>7. TokensAt(now, before) = TokensAt(items, before)
  BY <1>2, <1>3, <1>6
<1>8. TakenBefore(items, c) = TokensAt(items, before) /\ TakenBefore(now, c) = TokensAt(now, after)
  BY DEF TakenBefore, before, after, BucketOf
<1> QED
  BY <1>5, <1>6, <1>7, <1>8 DEF now

LEMMA SumOfCut ==
  ASSUME NEW t \in [Bucket -> Nat], NEW b \in Bucket, NEW x \in Nat, NEW u, u = [t EXCEPT ![b] = t[b] - x]
  PROVE  SumOf(u) = SumOf(t) - x /\ SumOf(t) \in Nat
<1>1. /\ t["RECENT"] \in Nat /\ t["MEMORY"] \in Nat /\ t["TASK_ARTIFACT"] \in Nat
      /\ t["EVIDENCE"] \in Nat /\ t["SUMMARY"] \in Nat
  BY BucketsAre
<1>2. \A c \in Bucket : u[c] = IF c = b THEN t[b] - x ELSE t[c]
  OBVIOUS
<1>3. CASE b = "RECENT"
  <2>1. /\ u["RECENT"] = t["RECENT"] - x
        /\ u["MEMORY"] = t["MEMORY"]
        /\ u["TASK_ARTIFACT"] = t["TASK_ARTIFACT"]
        /\ u["EVIDENCE"] = t["EVIDENCE"]
        /\ u["SUMMARY"] = t["SUMMARY"]
    BY <1>2, <1>3, BucketsAre
  <2> QED
    BY <1>1, <2>1 DEF SumOf
<1>4. CASE b = "MEMORY"
  <2>1. /\ u["RECENT"] = t["RECENT"]
        /\ u["MEMORY"] = t["MEMORY"] - x
        /\ u["TASK_ARTIFACT"] = t["TASK_ARTIFACT"]
        /\ u["EVIDENCE"] = t["EVIDENCE"]
        /\ u["SUMMARY"] = t["SUMMARY"]
    BY <1>2, <1>4, BucketsAre
  <2> QED
    BY <1>1, <2>1 DEF SumOf
<1>5. CASE b = "TASK_ARTIFACT"
  <2>1. /\ u["RECENT"] = t["RECENT"]
        /\ u["MEMORY"] = t["MEMORY"]
        /\ u["TASK_ARTIFACT"] = t["TASK_ARTIFACT"] - x
        /\ u["EVIDENCE"] = t["EVIDENCE"]
        /\ u["SUMMARY"] = t["SUMMARY"]
    BY <1>2, <1>5, BucketsAre
  <2> QED
    BY <1>1, <2>1 DEF SumOf
<1>6. CASE b = "EVIDENCE"
  <2>1. /\ u["RECENT"] = t["RECENT"]
        /\ u["MEMORY"] = t["MEMORY"]
        /\ u["TASK_ARTIFACT"] = t["TASK_ARTIFACT"]
        /\ u["EVIDENCE"] = t["EVIDENCE"] - x
        /\ u["SUMMARY"] = t["SUMMARY"]
    BY <1>2, <1>6, BucketsAre
  <2> QED
    BY <1>1, <2>1 DEF SumOf
<1>7. CASE b = "SUMMARY"
  <2>1. /\ u["RECENT"] = t["RECENT"]
        /\ u["MEMORY"] = t["MEMORY"]
        /\ u["TASK_ARTIFACT"] = t["TASK_ARTIFACT"]
        /\ u["EVIDENCE"] = t["EVIDENCE"]
        /\ u["SUMMARY"] = t["SUMMARY"] - x
    BY <1>2, <1>7, BucketsAre
  <2> QED
    BY <1>1, <2>1 DEF SumOf
<1> QED
  BY <1>3, <1>4, <1>5, <1>6, <1>7, BucketsAre

LEMMA TakeTyped ==
  ASSUME NEW chosen \in Basket, NEW entry \in ContextItem, Elastic(entry)
  PROVE  Take(chosen, entry) \in Basket
<1> DEFINE b == BucketOf(entry)
<1>1. b \in Bucket /\ entry.token_count \in Nat
  BY BucketOfItem, ItemFields DEF BucketOf
<1>2. chosen.items \in Seq(ContextItem) /\ chosen.remaining \in [Bucket -> Nat]
  BY DEF Basket
<1>3. Take(chosen, entry) = IF entry.token_count <= chosen.remaining[b]
      THEN [items |-> Append(chosen.items, entry),
            remaining |-> [chosen.remaining EXCEPT ![b] = chosen.remaining[b] - entry.token_count]]
      ELSE chosen
  BY <1>1, <1>2 DEF Take, BucketOf
<1> HIDE DEF b
<1>4. CASE entry.token_count <= chosen.remaining[b]
  <2>1. chosen.remaining[b] - entry.token_count \in Nat
    BY <1>1, <1>2, <1>4
  <2>2. [chosen.remaining EXCEPT ![b] = chosen.remaining[b] - entry.token_count] \in [Bucket -> Nat]
    BY <1>1, <1>2, <2>1
  <2>3. Append(chosen.items, entry) \in Seq(ContextItem)
    BY <1>2
  <2> QED
    BY <1>3, <1>4, <2>2, <2>3 DEF Basket
<1>5. CASE ~(entry.token_count <= chosen.remaining[b])
  BY <1>3, <1>5
<1> QED
  BY <1>4, <1>5

LEMMA TakeChooses ==
  ASSUME NEW mandatory, NEW limit \in [Bucket -> Nat], NEW ranked, ToChoose(mandatory, ranked),
         NEW n \in 1..Len(ranked), NEW chosen, ChosenOf(mandatory, limit, ranked, n - 1, chosen)
  PROVE  ChosenOf(mandatory, limit, ranked, n, Take(chosen, ranked[n]))
<1> DEFINE entry == ranked[n]
           items == chosen.items
           remaining == chosen.remaining
           b == BucketOf(entry)
<1>1. /\ ranked \in Seq(ContextItem) /\ Len(ranked) \in Nat /\ n \in DOMAIN ranked /\ entry \in ContextItem /\ Elastic(entry)
      /\ DOMAIN ranked = 1..Len(ranked)
  BY DEF ToChoose
<1>2. /\ \A k \in 1..n : k = n \/ k \in 1..n - 1
      /\ \A k \in 1..n - 1 : k \in 1..n /\ k \in DOMAIN ranked /\ k < n /\ k # n
      /\ n \in 1..n
  BY <1>1
<1>3. /\ items \in Seq(ContextItem) /\ remaining \in [Bucket -> Nat] /\ entry.token_count \in Nat /\ b \in Bucket
      /\ Len(items) \in Nat /\ DOMAIN items = 1..Len(items)
  BY <1>1, ItemFields, BucketOfItem DEF ChosenOf, Basket, BucketOf
<1>4. Take(chosen, entry) = IF entry.token_count <= remaining[b]
      THEN [items |-> Append(items, entry),
            remaining |-> [remaining EXCEPT ![b] = remaining[b] - entry.token_count]]
      ELSE chosen
  BY <1>3 DEF Take, BucketOf
<1>5. Take(chosen, entry) \in Basket
  BY <1>1, TakeTyped DEF ChosenOf
<1>6. /\ \A c \in Bucket : TokensAt(items, InBucket(items, c)) + remaining[c] = limit[c]
      /\ Tokens(items) + SumOf(remaining) = Tokens(mandatory) + SumOf(limit)
      /\ \A i, j \in DOMAIN items : i # j => items[i].content_hash # items[j].content_hash
      /\ \A i \in DOMAIN items : \/ \E j \in DOMAIN mandatory : items[i] = mandatory[j]
                                 \/ \E k \in 1..n - 1 : items[i] = ranked[k]
      /\ \A j \in DOMAIN mandatory : \E i \in DOMAIN items : items[i] = mandatory[j]
      /\ \A k \in 1..n - 1 :
           \/ \E i \in DOMAIN items : items[i] = ranked[k]
           \/ TakenBefore(items, ranked[k]) + ranked[k].token_count > limit[BucketOf(ranked[k])]
  BY DEF ChosenOf
<1> HIDE DEF items, remaining, b, entry
<1>7. CASE entry.token_count <= remaining[b]
  <2> DEFINE now == Append(items, entry)
             left == [remaining EXCEPT ![b] = remaining[b] - entry.token_count]
             L == Len(items)
  <2>1. Take(chosen, entry) = [items |-> now, remaining |-> left]
    BY <1>4, <1>7
  <2>2. /\ now \in Seq(ContextItem) /\ DOMAIN now = 1..L + 1 /\ now[L + 1] = entry
        /\ \A i \in 1..L : now[i] = items[i] /\ i \in DOMAIN now
        /\ L + 1 \in DOMAIN now /\ \A i \in DOMAIN now : i \in 1..L \/ i = L + 1
    BY <1>1, <1>3
  <2>0. left = [remaining EXCEPT ![b] = remaining[b] - entry.token_count]
    OBVIOUS
  <2>3. left[b] = remaining[b] - entry.token_count /\ \A c \in Bucket : c # b => left[c] = remaining[c]
    BY <1>3
  <2>4. Tokens(now) = Tokens(items) + entry.token_count /\ Tokens(items) \in Nat
    BY <1>1, <1>3, TokensOfMore
  <2>5. \A c \in Bucket : TokensAt(now, InBucket(now, c)) = TokensAt(items, InBucket(items, c)) + IF b = c THEN entry.token_count ELSE 0
    BY <1>1, <1>3, InBucketAppend DEF b
  <2>6. \A c \in ContextItem : /\ TakenBefore(items, c) \in Nat /\ TakenBefore(now, c) \in Nat
                               /\ TakenBefore(items, c) <= TakenBefore(now, c)
    BY <1>1, <1>3, TakenBeforeGrows
  <2> HIDE DEF now, left, L
  <2>7. ASSUME NEW c \in Bucket PROVE TokensAt(now, InBucket(now, c)) + left[c] = limit[c]
    <3>1. TokensAt(items, InBucket(items, c)) \in Nat /\ remaining[c] \in Nat
      BY <1>3, TokensGrow
    <3> QED
      BY <1>3, <1>6, <2>3, <2>5, <3>1
  <2>8. Tokens(now) + SumOf(left) = Tokens(mandatory) + SumOf(limit)
    <3>1. SumOf(left) = SumOf(remaining) - entry.token_count /\ SumOf(remaining) \in Nat
      BY <1>3, <2>0, SumOfCut
    <3> QED
      BY <1>3, <1>6, <2>4, <3>1
  <2>9. \A i \in 1..L : items[i].content_hash # entry.content_hash
    <3>1. SUFFICES ASSUME NEW i \in DOMAIN items PROVE items[i].content_hash # entry.content_hash
      BY <1>3 DEF L
    <3>2. CASE \E j \in DOMAIN mandatory : items[i] = mandatory[j]
      BY <1>1, <3>2 DEF ToChoose, entry
    <3>3. CASE \E k \in 1..n - 1 : items[i] = ranked[k]
      BY <1>1, <1>2, <3>3 DEF ToChoose, entry
    <3> QED
      BY <1>6, <3>2, <3>3
  <2>10. \A i, j \in DOMAIN now : i # j => now[i].content_hash # now[j].content_hash
    <3>1. \A i, j \in 1..L : i # j => items[i].content_hash # items[j].content_hash
      BY <1>3, <1>6 DEF L
    <3> QED
      BY <2>2, <2>9, <3>1
  <2>11. \A i \in DOMAIN now : \/ \E j \in DOMAIN mandatory : now[i] = mandatory[j]
                               \/ \E k \in 1..n : now[i] = ranked[k]
    <3>1. now[L + 1] = ranked[n]
      BY <2>2 DEF entry
    <3>2. \A i \in 1..L : \/ \E j \in DOMAIN mandatory : items[i] = mandatory[j]
                          \/ \E k \in 1..n : items[i] = ranked[k]
      BY <1>2, <1>3, <1>6 DEF L
    <3> QED
      BY <1>2, <2>2, <3>1, <3>2
  <2>12. \A j \in DOMAIN mandatory : \E i \in DOMAIN now : now[i] = mandatory[j]
    BY <1>3, <1>6, <2>2 DEF L
  <2>13. ASSUME NEW k \in 1..n
         PROVE  \/ \E i \in DOMAIN now : now[i] = ranked[k]
                \/ TakenBefore(now, ranked[k]) + ranked[k].token_count > limit[BucketOf(ranked[k])]
    <3>1. CASE k = n
      BY <2>2, <3>1 DEF entry
    <3>2. CASE k \in 1..n - 1
      <4>1. ranked[k] \in ContextItem /\ ranked[k].token_count \in Nat /\ limit[BucketOf(ranked[k])] \in Nat
        <5>1. ranked[k] \in ContextItem /\ Elastic(ranked[k])
          BY <1>1, <1>2, <3>2 DEF ToChoose
        <5>2. BucketOf(ranked[k]) \in Bucket
          BY <5>1, BucketOfItem DEF BucketOf
        <5> QED
          BY <5>1, <5>2, ItemFields
      <4>2. CASE \E i \in DOMAIN items : items[i] = ranked[k]
        BY <1>3, <2>2, <4>2 DEF L
      <4>3. CASE TakenBefore(items, ranked[k]) + ranked[k].token_count > limit[BucketOf(ranked[k])]
        <5>1. /\ TakenBefore(items, ranked[k]) \in Nat /\ TakenBefore(now, ranked[k]) \in Nat
              /\ TakenBefore(items, ranked[k]) <= TakenBefore(now, ranked[k])
          BY <2>6, <4>1
        <5> QED
          BY <4>1, <4>3, <5>1
      <4> QED
        BY <1>6, <3>2, <4>2, <4>3
    <3> QED
      BY <1>2, <3>1, <3>2
  <2>14. [items |-> now, remaining |-> left] \in Basket
    BY <1>5, <2>1
  <2>15. ChosenOf(mandatory, limit, ranked, n, [items |-> now, remaining |-> left])
    BY <2>7, <2>8, <2>10, <2>11, <2>12, <2>13, <2>14 DEF ChosenOf
  <2> QED
    BY <2>1, <2>15 DEF entry
<1>8. CASE ~(entry.token_count <= remaining[b])
  <2>1. Take(chosen, entry) = chosen
    BY <1>4, <1>8
  <2>2. TakenBefore(items, entry) = TokensAt(items, InBucket(items, b))
    <3>1. ASSUME NEW i \in InBucket(items, b) PROVE ~RanksBefore(entry, items[i])
      <4>1. i \in DOMAIN items /\ Elastic(items[i])
        BY DEF InBucket
      <4>2. PICK k \in 1..n - 1 : items[i] = ranked[k]
        BY <1>6, <4>1 DEF ToChoose, Elastic
      <4> QED
        BY <1>1, <1>2, <4>2 DEF ToChoose, entry
    <3>2. {i \in InBucket(items, b) : ~RanksBefore(entry, items[i])} = InBucket(items, b)
      BY <3>1
    <3> QED
      BY <3>2 DEF TakenBefore, b, BucketOf
  <2>3. TakenBefore(items, entry) + entry.token_count > limit[b]
    <3>1. TokensAt(items, InBucket(items, b)) \in Nat /\ remaining[b] \in Nat /\ limit[b] \in Nat
      BY <1>3, TokensGrow
    <3>2. TokensAt(items, InBucket(items, b)) + remaining[b] = limit[b]
      BY <1>3, <1>6
    <3> QED
      BY <1>3, <1>8, <2>2, <3>1, <3>2
  <2>4. \A k \in 1..n : \/ \E i \in DOMAIN items : items[i] = ranked[k]
                        \/ TakenBefore(items, ranked[k]) + ranked[k].token_count > limit[BucketOf(ranked[k])]
    BY <1>2, <1>6, <2>3 DEF entry, b
  <2>5. \A i \in DOMAIN items : \/ \E j \in DOMAIN mandatory : items[i] = mandatory[j]
                                \/ \E k \in 1..n : items[i] = ranked[k]
    BY <1>2, <1>6
  <2>6. ChosenOf(mandatory, limit, ranked, n, chosen)
    BY <1>5, <1>6, <2>1, <2>4, <2>5 DEF ChosenOf, items, remaining
  <2> QED
    BY <2>1, <2>6 DEF entry
<1> QED
  BY <1>7, <1>8

LEMMA Choosing ==
  ASSUME NEW r, NEW mandatory, NEW limit \in [Bucket -> Nat], NEW ranked, ToChoose(mandatory, ranked),
         mandatory = MandatoryItems(Deduped(r.mandatory_items \o r.elastic_candidates)),
         ranked = RankedElastic(Deduped(r.mandatory_items \o r.elastic_candidates)),
         limit = allocate_elastic_budget(r.profile, ElasticTokens(r))
  PROVE  \E chosen : /\ ChosenOf(mandatory, limit, ranked, Len(ranked), chosen)
                     /\ select_context_items(r) = chosen.items
<1> DEFINE N == Len(ranked)
           start == [items |-> mandatory, remaining |-> limit]
           Solves(f) == f = [n \in 0..N |-> IF n = 0 THEN start ELSE Take(f[n - 1], ranked[n])]
<1>1. /\ N \in Nat /\ mandatory \in Seq(ContextItem) /\ \A n \in 1..N : n \in DOMAIN ranked /\ ranked[n] \in ContextItem
      /\ \A n \in 1..N : Elastic(ranked[n])
  BY DEF ToChoose
<1>2. start \in Basket
  BY <1>1 DEF Basket
<1>3. \E f : Solves(f)
  <2> DEFINE step == [p \in (1..N) \X Basket |-> Take(p[2], ranked[p[1]])]
  <2>1. step \in [(1..N) \X Basket -> Basket]
    <3>1. \A p \in (1..N) \X Basket : p[2] \in Basket /\ ranked[p[1]] \in ContextItem /\ Elastic(ranked[p[1]])
      BY <1>1
    <3>2. \A p \in (1..N) \X Basket : Take(p[2], ranked[p[1]]) \in Basket
      BY <3>1, TakeTyped
    <3> QED
      BY <3>2
  <2> HIDE DEF step, N, Solves, start
  <2>3. PICK f : Runs(f, N, Basket, start, step)
    BY <1>1, <1>2, <2>1, StepByStep
  <2>4. ASSUME NEW n \in 1..N PROVE f[n] = Take(f[n - 1], ranked[n])
    <3>1. n \in 1..N /\ n - 1 \in 0..N /\ f[n - 1] \in Basket
      BY <1>1, <2>3 DEF Runs
    <3>2. step[<<n, f[n - 1]>>] = Take(f[n - 1], ranked[n])
      BY <3>1 DEF step
    <3> QED
      BY <2>3, <3>1, <3>2 DEF Runs
  <2>5. \A n \in 0..N : f[n] = IF n = 0 THEN start ELSE Take(f[n - 1], ranked[n])
    BY <1>1, <2>3, <2>4 DEF Runs
  <2>6. Solves(f)
    BY <2>3, <2>5 DEF Runs, Solves
  <2> QED
    BY <2>6
<1>4. PICK f : Solves(f) /\ select_context_items(r) = f[N].items
  <2> DEFINE g == CHOOSE f : Solves(f)
  <2>1. Solves(g)
    BY <1>3
  <2>2. select_context_items(r) = g[N].items
    BY DEF select_context_items
  <2> QED
    BY <2>1, <2>2
<1>5. f[0] = start /\ \A n \in 1..N : f[n] = Take(f[n - 1], ranked[n])
  BY <1>1, <1>4
<1> DEFINE S == {n \in 0..N : ChosenOf(mandatory, limit, ranked, n, f[n])}
<1>6. 0 \in S
  <2>1. ASSUME NEW b \in Bucket PROVE TokensAt(mandatory, InBucket(mandatory, b)) = 0
    <3>1. InBucket(mandatory, b) = {}
      BY DEF InBucket, ToChoose, Elastic
    <3>2. InBucket(mandatory, b) \cap DOMAIN mandatory = {}
      BY <3>1
    <3> QED
      BY <1>1, <3>2, TokensNowhere
  <2>2. \A b \in Bucket : TokensAt(mandatory, InBucket(mandatory, b)) + limit[b] = limit[b]
    BY <2>1
  <2>3. \A i, j \in DOMAIN mandatory : i # j => mandatory[i].content_hash # mandatory[j].content_hash
    BY DEF ToChoose
  <2>4. start.items = mandatory /\ start.remaining = limit /\ 1..0 = {}
    OBVIOUS
  <2> HIDE DEF start
  <2>5. ChosenOf(mandatory, limit, ranked, 0, start)
    BY <1>2, <2>2, <2>3, <2>4 DEF ChosenOf
  <2> QED
    BY <1>1, <1>5, <2>5
<1>7. ASSUME NEW n \in 1..N, n - 1 \in S PROVE n \in S
  <2>1. n \in 1..Len(ranked) /\ ChosenOf(mandatory, limit, ranked, n - 1, f[n - 1])
    BY <1>7
  <2>2. ChosenOf(mandatory, limit, ranked, n, f[n])
    BY <1>5, <2>1, TakeChooses
  <2> QED
    BY <2>1, <2>2
<1>8. N \in S
  <2> HIDE DEF S, Solves
  <2>1. \A n \in 0..N : n \in S
    BY <1>1, <1>6, <1>7, OneAfterTheOther
  <2> QED
    BY <1>1, <2>1
<1> QED
  BY <1>4, <1>8

LEMMA ItemsToChoose ==
  ASSUME NEW items \in Seq(ContextItem),
         \A i, j \in DOMAIN items : i # j => items[i].content_hash # items[j].content_hash
  PROVE  ToChoose(MandatoryItems(items), RankedElastic(items))
<1> DEFINE mandatory == MandatoryItems(items)
           ranked == RankedElastic(items)
           elastic == {i \in DOMAIN items : Elastic(items[i])}
<1>1. Found(items, Len(items), mandatory)
  BY MandatoryAreFound
<1>2. \A i \in 1..Len(items) : i \in DOMAIN items
  OBVIOUS
<1>3. \A i \in elastic : i \in DOMAIN items /\ Elastic(items[i])
  OBVIOUS
<1>4. PICK at \in [DOMAIN ranked -> elastic] :
        /\ ranked \in Seq(ContextItem)
        /\ \A n \in DOMAIN ranked : ranked[n] = items[at[n]]
        /\ \A m, n \in DOMAIN ranked : at[m] = at[n] => m = n
        /\ \A i \in elastic : \E n \in DOMAIN ranked : at[n] = i
        /\ \A m, n \in DOMAIN ranked : m < n => ~RanksBefore(ranked[n], ranked[m])
  BY ElasticAreRanked
<1> HIDE DEF mandatory, ranked, elastic
<1>5. /\ mandatory \in Seq(ContextItem)
      /\ \A j \in DOMAIN mandatory : Mandatory(mandatory[j]) /\ \E i \in DOMAIN items : mandatory[j] = items[i]
      /\ \A i, j \in DOMAIN mandatory : i # j => mandatory[i].content_hash # mandatory[j].content_hash
  BY <1>1, <1>2 DEF Found
<1>6. \A k \in DOMAIN ranked : at[k] \in DOMAIN items /\ Elastic(items[at[k]]) /\ ranked[k] = items[at[k]]
  BY <1>3, <1>4
<1>7. \A k \in DOMAIN ranked : Elastic(ranked[k])
  BY <1>6
<1>8. ASSUME NEW j \in DOMAIN mandatory, NEW k \in DOMAIN ranked
      PROVE  mandatory[j].content_hash # ranked[k].content_hash
  <2>1. PICK i \in DOMAIN items : mandatory[j] = items[i]
    BY <1>5
  <2>2. i # at[k]
    BY <1>5, <1>6, <2>1 DEF Elastic
  <2> QED
    BY <1>6, <2>1, <2>2
<1>9. \A m, n \in DOMAIN ranked : m # n => ranked[m].content_hash # ranked[n].content_hash
  BY <1>4, <1>6
<1> QED
  BY <1>4, <1>5, <1>7, <1>8, <1>9 DEF ToChoose, mandatory, ranked

-----------------------------------------------------------------------------
(* A pack that is assembled *)

\* As many hashes as items, if no content is there twice.
LEMMA NoContentTwice ==
  ASSUME NEW items \in Seq(ContextItem),
         \A i, j \in DOMAIN items : i # j => items[i].content_hash # items[j].content_hash
  PROVE  Cardinality({items[i].content_hash : i \in DOMAIN items}) = Len(items)
<1> DEFINE H == {items[i].content_hash : i \in DOMAIN items}
           f == [i \in 1..Len(items) |-> items[i].content_hash]
<1>1. Len(items) \in Nat /\ DOMAIN items = 1..Len(items)
  OBVIOUS
<1>2. IsFiniteSet(1..Len(items)) /\ Cardinality(1..Len(items)) = Len(items)
  BY <1>1, FS_Interval
<1>3. f \in Surjection(1..Len(items), H) /\ f \in Injection(1..Len(items), H)
  BY <1>1 DEF Surjection, Injection, IsInjective
<1> HIDE DEF f, H
<1>4. Cardinality(H) = Cardinality(1..Len(items))
  BY <1>2, <1>3, FS_Surjection
<1> QED
  BY <1>2, <1>4 DEF H

WithinBudget(r, items) ==
  LET limit == allocate_elastic_budget(r.profile, ElasticTokens(r))
      Hashes(s) == {s[i].content_hash : i \in DOMAIN s}
  IN  /\ Tokens(items) <= AvailableInput(r)
      /\ Hashes(r.mandatory_items) \subseteq Hashes(items)
      /\ Cardinality(Hashes(items)) = Len(items)
      /\ \A b \in Bucket : TokensAt(items, InBucket(items, b)) <= limit[b]
      /\ \A n \in DOMAIN r.elastic_candidates :
           LET c == r.elastic_candidates[n]
           IN  /\ c.content_hash \notin Hashes(items)
               /\ \A m \in 1..n - 1 : r.elastic_candidates[m].content_hash # c.content_hash
               => TakenBefore(items, c) + c.token_count > limit[bucket_for_item_type[c.item_type]]

\* What is selected for a request fits its window and leaves out only what does not fit.
LEMMA SelectionFits ==
  ASSUME NEW q \in DOMAIN Requests, NEW r, r = Requests[q], Assembles(r)
  PROVE  WithinBudget(r, select_context_items(r))
<1> DEFINE M == r.mandatory_items
           C == r.elastic_candidates
           K == Len(M)
           all == M \o C
           deduped == Deduped(all)
           mandatory == MandatoryItems(deduped)
           ranked == RankedElastic(deduped)
           limit == allocate_elastic_budget(r.profile, ElasticTokens(r))
           items == select_context_items(r)
<1>1. /\ M \in Seq(ContextItem) /\ C \in Seq(ContextItem)
      /\ \A i \in DOMAIN M : Mandatory(M[i])
      /\ \A i \in DOMAIN C : Elastic(C[i])
      /\ r.max_context \in Nat /\ r.reserved_output \in Nat /\ r.protocol_overhead \in Nat /\ r.safety_margin \in Nat
  BY ContextPackAssumption
<1>2. /\ K \in Nat /\ all \in Seq(ContextItem) /\ Len(all) = K + Len(C) /\ DOMAIN M = 1..K /\ DOMAIN C = 1..Len(C) /\ Len(C) \in Nat
      /\ DOMAIN all = 1..K + Len(C)
      /\ \A i \in 1..K : all[i] = M[i] /\ i \in 1..Len(all)
      /\ \A i \in 1..Len(C) : all[K + i] = C[i] /\ K + i \in 1..Len(all)
      /\ \A i \in 1..Len(all) : i \in 1..K \/ \E n \in 1..Len(C) : i = K + n
  <2> HIDE DEF M, C
  <2>1. /\ K \in Nat /\ all \in Seq(ContextItem) /\ Len(all) = K + Len(C) /\ DOMAIN M = 1..K /\ DOMAIN C = 1..Len(C) /\ Len(C) \in Nat
        /\ DOMAIN all = 1..K + Len(C)
    BY <1>1
  <2>2. \A i \in 1..K : all[i] = M[i] /\ i \in 1..Len(all)
    BY <1>1, <2>1
  <2>3. \A i \in 1..Len(C) : all[K + i] = C[i] /\ K + i \in 1..Len(all)
    BY <1>1, <2>1
  <2>4. ASSUME NEW i \in 1..Len(all), i \notin 1..K PROVE \E n \in 1..Len(C) : i = K + n
    <3>1. i - K \in 1..Len(C) /\ i = K + (i - K)
      BY <2>1, <2>4
    <3> QED
      BY <3>1
  <2> QED
    BY <2>1, <2>2, <2>3, <2>4
<1> HIDE DEF all, M, C, K
<1>3. \A i \in DOMAIN all : Mandatory(all[i]) <=> i <= K
  <2>1. ASSUME NEW i \in 1..K PROVE Mandatory(all[i])
    BY <1>1, <1>2
  <2>2. ASSUME NEW n \in 1..Len(C) PROVE ~Mandatory(all[K + n]) /\ ~(K + n <= K)
    <3>1. all[K + n] = C[n] /\ n \in DOMAIN C
      BY <1>2
    <3>2. ~Mandatory(C[n])
      BY <1>1, <3>1 DEF Elastic
    <3>3. ~(K + n <= K)
      BY <1>2
    <3> QED
      BY <3>1, <3>2, <3>3
  <2>3. \A i \in 1..K : i <= K
    BY <1>2
  <2> QED
    BY <1>2, <2>1, <2>2, <2>3
<1>4. DedupedOf(all, K, Len(all), deduped)
  BY <1>2, <1>3, DedupedAre
<1> HIDE DEF deduped
<1>5. /\ deduped \in Seq(ContextItem)
      /\ \A i, j \in DOMAIN deduped : i # j => deduped[i].content_hash # deduped[j].content_hash
      /\ \A m \in 1..K : \E i \in DOMAIN deduped : deduped[i].content_hash = M[m].content_hash /\ Mandatory(deduped[i])
      /\ \A m \in 1..Len(all) : (\A l \in 1..m - 1 : all[l].content_hash # all[m].content_hash)
           => \E i \in DOMAIN deduped : deduped[i] = all[m]
      /\ TokensAt(deduped, MandatoryAt(deduped)) <= TokensAt(all, (1..K) \cap (1..Len(all)))
  <2>1. \A m \in 1..K : m \in 1..Len(all) /\ m <= K /\ all[m] = M[m]
    BY <1>2
  <2>2. \A m \in 1..K : \E i \in DOMAIN deduped : deduped[i].content_hash = M[m].content_hash /\ Mandatory(deduped[i])
    <3>1. \A m \in 1..Len(all) : \E i \in DOMAIN deduped :
            deduped[i].content_hash = all[m].content_hash /\ (m <= K => Mandatory(deduped[i]))
      BY <1>4 DEF DedupedOf
    <3> QED
      BY <2>1, <3>1
  <2> QED
    BY <1>4, <2>2 DEF DedupedOf
<1>6. Found(deduped, Len(deduped), mandatory)
  BY <1>5, MandatoryAreFound
<1>7. ToChoose(mandatory, ranked)
  BY <1>5, ItemsToChoose
<1> DEFINE elastic == {i \in DOMAIN deduped : Elastic(deduped[i])}
<1>8. PICK at \in [DOMAIN ranked -> elastic] :
        /\ ranked \in Seq(ContextItem)
        /\ \A n \in DOMAIN ranked : ranked[n] = deduped[at[n]]
        /\ \A m, n \in DOMAIN ranked : at[m] = at[n] => m = n
        /\ \A i \in elastic : \E n \in DOMAIN ranked : at[n] = i
        /\ \A m, n \in DOMAIN ranked : m < n => ~RanksBefore(ranked[n], ranked[m])
  BY <1>5, ElasticAreRanked
<1>9. AvailableInput(r) \in Int /\ Tokens(M) \in Nat /\ ElasticTokens(r) \in Nat /\ ElasticTokens(r) = AvailableInput(r) - Tokens(M)
  <2>1. AvailableInput(r) \in Int
    BY <1>1 DEF AvailableInput
  <2>2. Tokens(M) \in Nat
    BY <1>1, TokensGrow DEF Tokens
  <2> QED
    BY <2>1, <2>2 DEF ElasticTokens, Assembles, M
<1>10. limit \in [Bucket -> Nat] /\ SumOf(limit) <= ElasticTokens(r)
  BY <1>9, SharesFit DEF Assembles
<1>11. mandatory = MandatoryItems(Deduped(r.mandatory_items \o r.elastic_candidates)) /\ ranked = RankedElastic(Deduped(r.mandatory_items \o r.elastic_candidates))
  BY DEF deduped, all, M, C
<1> HIDE DEF mandatory, ranked, limit, items, elastic
<1>12. PICK chosen : ChosenOf(mandatory, limit, ranked, Len(ranked), chosen) /\ items = chosen.items
  BY <1>7, <1>10, <1>11, Choosing DEF limit, items
<1> DEFINE remaining == chosen.remaining
<1>13. /\ items \in Seq(ContextItem) /\ remaining \in [Bucket -> Nat]
       /\ \A b \in Bucket : TokensAt(items, InBucket(items, b)) + remaining[b] = limit[b]
       /\ Tokens(items) + SumOf(remaining) = Tokens(mandatory) + SumOf(limit)
       /\ \A i, j \in DOMAIN items : i # j => items[i].content_hash # items[j].content_hash
       /\ \A j \in DOMAIN mandatory : \E i \in DOMAIN items : items[i] = mandatory[j]
       /\ \A k \in 1..Len(ranked) :
            \/ \E i \in DOMAIN items : items[i] = ranked[k]
            \/ TakenBefore(items, ranked[k]) + ranked[k].token_count > limit[BucketOf(ranked[k])]
  BY <1>12 DEF ChosenOf, Basket
<1> HIDE DEF remaining
<1>14. Tokens(mandatory) <= Tokens(M) /\ Tokens(mandatory) \in Nat
  <2>1. MandatoryAt(deduped) \cap (1..Len(deduped)) = MandatoryAt(deduped)
    BY <1>5 DEF MandatoryAt
  <2>2. Tokens(mandatory) = TokensAt(deduped, MandatoryAt(deduped))
    BY <1>6, <2>1 DEF Found
  <2>3. (1..K) \cap (1..Len(all)) = 1..K
    BY <1>2
  <2>4. TokensAt(all, 1..K) = Tokens(M)
    BY <1>1, TokensOfFirst DEF all, K
  <2>5. TokensAt(deduped, MandatoryAt(deduped)) \in Nat
    BY <1>5, TokensGrow
  <2> QED
    BY <1>5, <2>2, <2>3, <2>4, <2>5
<1>15. SumOf(remaining) \in Nat /\ SumOf(limit) \in Nat
  <2>1. \A t \in [Bucket -> Nat] : SumOf(t) \in Nat
    <3>1. ASSUME NEW t \in [Bucket -> Nat] PROVE SumOf(t) \in Nat
      <4>1. /\ t["RECENT"] \in Nat /\ t["MEMORY"] \in Nat /\ t["TASK_ARTIFACT"] \in Nat
            /\ t["EVIDENCE"] \in Nat /\ t["SUMMARY"] \in Nat
        BY BucketsAre
      <4> QED
        BY <4>1 DEF SumOf
    <3> QED
      BY <3>1
  <2> QED
    BY <1>10, <1>13, <2>1
<1> DEFINE Hashes(s) == {s[i].content_hash : i \in DOMAIN s}
<1>16. Tokens(items) <= AvailableInput(r)
  <2>1. Tokens(items) \in Nat
    BY <1>13, TokensGrow DEF Tokens
  <2> QED
    BY <1>9, <1>10, <1>13, <1>14, <1>15, <2>1
<1>17. \A m \in DOMAIN M : M[m].content_hash \in Hashes(items)
  <2>1. SUFFICES ASSUME NEW m \in 1..K PROVE \E i \in DOMAIN items : items[i].content_hash = M[m].content_hash
    BY <1>2
  <2>2. PICK i \in DOMAIN deduped : deduped[i].content_hash = M[m].content_hash /\ Mandatory(deduped[i])
    BY <1>5
  <2>3. i \in 1..Len(deduped)
    BY <1>5
  <2>4. PICK j \in DOMAIN mandatory : mandatory[j] = deduped[i]
    BY <1>6, <2>2, <2>3 DEF Found
  <2> QED
    BY <1>13, <2>2, <2>4
<1>18. Cardinality(Hashes(items)) = Len(items)
  BY <1>13, NoContentTwice
<1>19. ASSUME NEW b \in Bucket PROVE TokensAt(items, InBucket(items, b)) <= limit[b]
  <2>1. TokensAt(items, InBucket(items, b)) \in Nat /\ remaining[b] \in Nat /\ TokensAt(items, InBucket(items, b)) + remaining[b] = limit[b]
    BY <1>13, TokensGrow
  <2> QED
    BY <2>1
<1>20. ASSUME NEW n \in DOMAIN C, C[n].content_hash \notin Hashes(items),
              \A m \in 1..n - 1 : C[m].content_hash # C[n].content_hash
       PROVE  TakenBefore(items, C[n]) + C[n].token_count > limit[bucket_for_item_type[C[n].item_type]]
  <2>1. n \in 1..Len(C) /\ K + n \in 1..Len(all) /\ all[K + n] = C[n] /\ Elastic(C[n])
    BY <1>1, <1>2
  <2>2. ASSUME NEW l \in 1..(K + n) - 1 PROVE all[l].content_hash # all[K + n].content_hash
    <3>1. CASE l \in 1..K
      <4>1. l \in DOMAIN M /\ all[l] = M[l]
        BY <1>2, <3>1
      <4>2. M[l].content_hash \in Hashes(items)
        BY <1>17, <4>1
      <4> QED
        BY <1>20, <2>1, <4>1, <4>2
    <3>2. CASE l \notin 1..K
      <4>1. l - K \in 1..n - 1 /\ l - K \in 1..Len(C) /\ l = K + (l - K)
        BY <1>2, <2>1, <3>2
      <4>2. all[l] = C[l - K]
        BY <1>2, <4>1
      <4> QED
        BY <1>20, <2>1, <4>1, <4>2
    <3> QED
      BY <3>1, <3>2
  <2>3. PICK i \in DOMAIN deduped : deduped[i] = C[n]
    BY <1>5, <2>1, <2>2
  <2>4. i \in elastic
    BY <2>1, <2>3 DEF elastic
  <2>5. PICK k \in DOMAIN ranked : ranked[k] = C[n]
    BY <1>8, <2>3, <2>4
  <2>6. k \in 1..Len(ranked)
    BY <1>8
  <2>7. ~ \E j \in DOMAIN items : items[j] = C[n]
    BY <1>20
  <2> QED
    BY <1>13, <2>5, <2>6, <2>7 DEF BucketOf
<1> QED
  BY <1>16, <1>17, <1>18, <1>19, <1>20 DEF WithinBudget, M, C, limit, items

-----------------------------------------------------------------------------
(* The invariant of the packs *)

\* A caller past the search holds a pack of a request.
HoldsAPack ==
  \A c \in Caller :
    user[c].pc \in {"searched", "missing", "holding", "consuming", "accepted"}
      => user[c].held \in DOMAIN Requests

\* A row that is consumed says when.
ConsumedSaysWhen ==
  \A id \in PackId : packs[id] # NoPack /\ packs[id].state = "CONSUMED" => packs[id].consumed_at

\* The stored row is the one whose hash the caller declared.
SameAsStored(c) ==
  /\ packs[IdOf(user[c].held)] # NoPack
  /\ HashOf(packs[IdOf(user[c].held)].request) = HashOf(user[c].held)

\* A caller that is accepted, or between the read of the row and its commit.
ReadTrue ==
  \A c \in Caller :
    /\ user[c].pc \in {"consuming", "accepted"} => SameAsStored(c)
    /\ user[c].pc = "consuming" =>
         /\ user[c].loaded \in {"READY", "CONSUMED"}
         /\ user[c].loaded = "CONSUMED" => packs[IdOf(user[c].held)].consumed_at
    /\ user[c].pc = "accepted" => packs[IdOf(user[c].held)].consumed_at

\* An invalidation under way read its row as ready.
VoidsReady ==
  \A v \in Invalidator :
    voider[v] # Resting => voider[v].pack \in PackId /\ voider[v].loaded = "READY"
                           /\ packs[voider[v].pack] # NoPack

PackInv == PackTypeOK /\ HoldsAPack /\ ConsumedSaysWhen /\ ReadTrue /\ VoidsReady

\* What a transaction may do to the rows: it adds rows, and it changes a row only in
\* its state, never back from having been consumed.
Grows ==
  \A id \in PackId : packs[id] # NoPack =>
    /\ packs'[id] # NoPack
    /\ packs'[id].request = packs[id].request
    /\ packs[id].consumed_at => packs'[id].consumed_at

-----------------------------------------------------------------------------
(* Ids and rows. *)

LEMMA IdOfRequest ==
  ASSUME NEW q \in DOMAIN Requests
  PROVE  IdOf(q) \in PackId
BY DEF IdOf, PackId

\* A row that is there has the fields of a row.
LEMMA RowFields ==
  ASSUME PackTypeOK, NEW id \in PackId, packs[id] # NoPack
  PROVE  /\ packs[id] \in Row /\ packs[id].request \in DOMAIN Requests
         /\ packs[id].state \in ContextPackState /\ packs[id].consumed_at \in BOOLEAN
BY DEF PackTypeOK, Row

-----------------------------------------------------------------------------
(* The steps that change no row and no invalidation: a caller moves. *)

LEMMA CallerMoves ==
  ASSUME PackInv, NEW c \in Caller, NEW u \in User,
         user' = [user EXCEPT ![c] = u], UNCHANGED <<packs, voider>>,
         u.pc \in {"searched", "missing", "holding", "consuming", "accepted"}
           => u.held \in DOMAIN Requests,
         u.pc \in {"consuming", "accepted"} =>
           /\ packs[IdOf(u.held)] # NoPack
           /\ HashOf(packs[IdOf(u.held)].request) = HashOf(u.held),
         u.pc = "consuming" =>
           /\ u.loaded \in {"READY", "CONSUMED"}
           /\ u.loaded = "CONSUMED" => packs[IdOf(u.held)].consumed_at,
         u.pc = "accepted" => packs[IdOf(u.held)].consumed_at
  PROVE  PackInv'
<1>1. /\ user' \in [Caller -> User] /\ user'[c] = u
      /\ \A d \in Caller : d # c => user'[d] = user[d]
  BY DEF PackInv, PackTypeOK
<1>2. PackTypeOK' /\ ConsumedSaysWhen' /\ VoidsReady'
  BY <1>1 DEF PackInv, PackTypeOK, ConsumedSaysWhen, VoidsReady
<1>3. HoldsAPack'
  BY <1>1 DEF PackInv, HoldsAPack
<1>4. ReadTrue'
  <2> SUFFICES ASSUME NEW d \in Caller
               PROVE  /\ user'[d].pc \in {"consuming", "accepted"} => SameAsStored(d)'
                      /\ user'[d].pc = "consuming" =>
                           /\ user'[d].loaded \in {"READY", "CONSUMED"}
                           /\ user'[d].loaded = "CONSUMED" => packs'[IdOf(user'[d].held)].consumed_at
                      /\ user'[d].pc = "accepted" => packs'[IdOf(user'[d].held)].consumed_at
    BY DEF ReadTrue
  <2>1. CASE d = c
    BY <1>1, <2>1 DEF SameAsStored
  <2>2. CASE d # c
    BY <1>1, <2>2 DEF PackInv, ReadTrue, SameAsStored
  <2> QED
    BY <2>1, <2>2
<1> QED
  BY <1>2, <1>3, <1>4 DEF PackInv

-----------------------------------------------------------------------------
(* obtain *)

LEMMA ReuseStep ==
  ASSUME PackInv, NEW c \in Caller, Reuse(c)
  PROVE  PackInv'
<1>1. PICK q \in DOMAIN Requests, id \in PackId :
        /\ Reusable(id, DigestOf(q))
        /\ user' = [user EXCEPT ![c].pc = "holding", ![c].request = q,
                                ![c].held = packs[id].request, ![c].via = "REUSED"]
  BY DEF Reuse
<1>2. packs[id].request \in DOMAIN Requests
  BY <1>1, RowFields DEF Reusable, PackInv
<1>3. user[c] \in User
  BY DEF PackInv, PackTypeOK
<1> DEFINE u == [user[c] EXCEPT !.pc = "holding", !.request = q,
                                !.held = packs[id].request, !.via = "REUSED"]
<1>4. u \in User /\ u.pc = "holding" /\ u.held = packs[id].request
  BY <1>2, <1>3 DEF User
<1>5. user' = [user EXCEPT ![c] = u]
  BY <1>1
<1> HIDE DEF u
<1> QED
  BY <1>2, <1>4, <1>5, CallerMoves DEF Reuse

LEMMA AssembleStep ==
  ASSUME PackInv, NEW c \in Caller, Assemble(c)
  PROVE  PackInv'
<1>1. PICK q \in DOMAIN Requests :
        IF Assembles(Requests[q])
        THEN user' = [user EXCEPT ![c].pc = "searched", ![c].request = q, ![c].held = q]
        ELSE user' = [user EXCEPT ![c].pc = "failed", ![c].request = q]
  BY DEF Assemble
<1>2. user[c] \in User
  BY DEF PackInv, PackTypeOK
<1>3. CASE Assembles(Requests[q])
  <2> DEFINE u == [user[c] EXCEPT !.pc = "searched", !.request = q, !.held = q]
  <2>1. u \in User /\ u.pc = "searched" /\ u.held = q
    BY <1>2 DEF User
  <2>2. user' = [user EXCEPT ![c] = u]
    BY <1>1, <1>3
  <2> HIDE DEF u
  <2> QED
    BY <2>1, <2>2, CallerMoves DEF Assemble
<1>4. CASE ~Assembles(Requests[q])
  <2> DEFINE u == [user[c] EXCEPT !.pc = "failed", !.request = q]
  <2>1. u \in User /\ u.pc = "failed"
    BY <1>2 DEF User
  <2>2. user' = [user EXCEPT ![c] = u]
    BY <1>1, <1>4
  <2> HIDE DEF u
  <2> QED
    BY <2>1, <2>2, CallerMoves DEF Assemble
<1> QED
  BY <1>3, <1>4

\* A caller that fails relies on nothing.
LEMMA CallerFailsStep ==
  ASSUME PackInv, NEW c \in Caller, CallerFails(c), UNCHANGED <<packs, voider>>
  PROVE  PackInv'
<1> DEFINE u == [user[c] EXCEPT !.pc = "failed"]
<1>1. user[c] \in User
  BY DEF PackInv, PackTypeOK
<1>2. u \in User /\ u.pc = "failed"
  BY <1>1 DEF User
<1>3. user' = [user EXCEPT ![c] = u]
  BY DEF CallerFails
<1> HIDE DEF u
<1> QED
  BY <1>2, <1>3, CallerMoves

LEMMA LookForIdStep ==
  ASSUME PackInv, NEW c \in Caller, LookForId(c)
  PROVE  PackInv'
<1>1. user[c] \in User /\ user[c].held \in DOMAIN Requests
  BY DEF PackInv, PackTypeOK, HoldsAPack, LookForId
<1>2. CASE packs[IdOf(user[c].held)] = NoPack
  <2> DEFINE u == [user[c] EXCEPT !.pc = "missing"]
  <2>1. u \in User /\ u.pc = "missing" /\ u.held = user[c].held
    BY <1>1 DEF User
  <2>2. user' = [user EXCEPT ![c] = u]
    BY <1>2 DEF LookForId
  <2> HIDE DEF u
  <2> QED
    BY <1>1, <2>1, <2>2, CallerMoves DEF LookForId
<1>3. CASE packs[IdOf(user[c].held)] # NoPack
  <2> DEFINE u == [user[c] EXCEPT !.pc = "holding", !.via = "IDEMPOTENT_REPLAY"]
  <2>1. u \in User /\ u.pc = "holding" /\ u.held = user[c].held
    BY <1>1 DEF User
  <2>2. user' = [user EXCEPT ![c] = u]
    BY <1>3 DEF LookForId
  <2> HIDE DEF u
  <2> QED
    BY <1>1, <2>1, <2>2, CallerMoves DEF LookForId
<1> QED
  BY <1>2, <1>3

-----------------------------------------------------------------------------
(* The transactions that write a row. *)

\* What the callers and the invalidations rely on outlasts every transaction.
LEMMA RelianceLasts ==
  ASSUME PackInv, PackTypeOK', Grows,
         NEW d \in Caller, user'[d] = user[d]
  PROVE  /\ user'[d].pc \in {"consuming", "accepted"} => SameAsStored(d)'
         /\ user'[d].pc = "consuming" =>
              /\ user'[d].loaded \in {"READY", "CONSUMED"}
              /\ user'[d].loaded = "CONSUMED" => packs'[IdOf(user'[d].held)].consumed_at
         /\ user'[d].pc = "accepted" => packs'[IdOf(user'[d].held)].consumed_at
<1>1. user[d].pc \in {"consuming", "accepted"} =>
        IdOf(user[d].held) \in PackId /\ packs[IdOf(user[d].held)] # NoPack
  BY IdOfRequest DEF PackInv, HoldsAPack, ReadTrue, SameAsStored
<1> QED
  BY <1>1 DEF PackInv, ReadTrue, SameAsStored, Grows

LEMMA InsertStep ==
  ASSUME PackInv, NEW c \in Caller, Insert(c)
  PROVE  PackInv'
<1>1. user[c] \in User /\ user[c].held \in DOMAIN Requests /\ user[c].pc = "missing"
  BY DEF PackInv, PackTypeOK, HoldsAPack, Insert
<1>2. CASE Collides(user[c].held) \/ ~Storable(user[c].held)
  BY <1>2, CallerFailsStep DEF Insert
<1>3. CASE ~(Collides(user[c].held) \/ ~Storable(user[c].held))
  <2> DEFINE q == user[c].held
             new == [request |-> q, state |-> "READY", consumed_at |-> FALSE]
             u == [user[c] EXCEPT !.pc = "holding", !.via = "INSERTED"]
  <2>1. u \in User /\ u.pc = "holding" /\ u.held = q
    BY <1>1 DEF User
  <2>2. new \in Row
    BY <1>1 DEF Row, ContextPackState
  <2>3. /\ packs' = [packs EXCEPT ![IdOf(q)] = new]
        /\ user' = [user EXCEPT ![c] = u] /\ voider' = voider
    BY <1>3 DEF Insert
  <2>4. IdOf(q) \in PackId /\ packs[IdOf(q)] = NoPack
    BY <1>1, <1>3, IdOfRequest DEF Collides
  <2>5. new.state = "READY"
    OBVIOUS
  <2> HIDE DEF u, new
  <2>6. PackTypeOK'
    BY <2>1, <2>2, <2>3, <2>4 DEF PackInv, PackTypeOK
  <2>7. Grows
    BY <2>3, <2>4 DEF Grows, PackInv, PackTypeOK
  <2>8. user'[c] = u /\ \A d \in Caller : d # c => user'[d] = user[d]
    BY <2>3 DEF PackInv, PackTypeOK
  <2>9. HoldsAPack'
    BY <1>1, <2>1, <2>8 DEF PackInv, HoldsAPack
  <2>10. ConsumedSaysWhen'
    BY <2>3, <2>4, <2>5 DEF PackInv, PackTypeOK, ConsumedSaysWhen
  <2>11. ReadTrue'
    BY <2>1, <2>6, <2>7, <2>8, RelianceLasts DEF ReadTrue
  <2>12. VoidsReady'
    BY <2>3, <2>7 DEF PackInv, VoidsReady, Grows
  <2> QED
    BY <2>6, <2>9, <2>10, <2>11, <2>12 DEF PackInv
<1> QED
  BY <1>2, <1>3

LEMMA LoadForConsumptionStep ==
  ASSUME PackInv, NEW c \in Caller, LoadForConsumption(c)
  PROVE  PackInv'
<1> DEFINE q == user[c].held
<1>1. user[c] \in User /\ q \in DOMAIN Requests
  BY DEF PackInv, PackTypeOK, HoldsAPack, LoadForConsumption
<1>2. IdOf(q) \in PackId
  BY <1>1, IdOfRequest
<1>3. CASE Accepts(q, packs[IdOf(q)])
  <2> DEFINE u == [user[c] EXCEPT !.pc = "consuming", !.loaded = packs[IdOf(q)].state]
  <2>1. packs[IdOf(q)] # NoPack /\ packs[IdOf(q)].state \in {"READY", "CONSUMED"}
        /\ HashOf(packs[IdOf(q)].request) = HashOf(q)
    BY <1>3 DEF Accepts
  <2>2. u \in User /\ u.pc = "consuming" /\ u.held = q /\ u.loaded = packs[IdOf(q)].state
    BY <1>1, <2>1 DEF User, ContextPackState
  <2>3. user' = [user EXCEPT ![c] = u]
    BY <1>3 DEF LoadForConsumption
  <2>4. packs[IdOf(q)].state = "CONSUMED" => packs[IdOf(q)].consumed_at
    BY <1>2, <2>1 DEF PackInv, ConsumedSaysWhen
  <2> HIDE DEF u
  <2> QED
    BY <1>1, <2>1, <2>2, <2>3, <2>4, CallerMoves DEF LoadForConsumption
<1>4. CASE ~Accepts(q, packs[IdOf(q)])
  BY <1>4, CallerFailsStep DEF LoadForConsumption
<1> QED
  BY <1>3, <1>4

\* The commit of a consumption: the row says that it was consumed.
LEMMA ConsumeStep ==
  ASSUME PackInv, NEW c \in Caller, Consume(c)
  PROVE  PackInv'
<1> DEFINE q == user[c].held
           id == IdOf(q)
           u == [user[c] EXCEPT !.pc = "accepted", !.loaded = "none"]
<1>1. user[c] \in User /\ q \in DOMAIN Requests /\ user[c].pc = "consuming"
  BY DEF PackInv, PackTypeOK, HoldsAPack, Consume
<1>2. id \in PackId
  BY <1>1, IdOfRequest
<1>3. /\ packs[id] # NoPack /\ HashOf(packs[id].request) = HashOf(q)
      /\ user[c].loaded \in {"READY", "CONSUMED"}
      /\ user[c].loaded = "CONSUMED" => packs[id].consumed_at
  BY <1>1 DEF PackInv, ReadTrue, SameAsStored
<1>4. u \in User /\ u.pc = "accepted" /\ u.held = q
  BY <1>1 DEF User
<1>5. user' = [user EXCEPT ![c] = u] /\ voider' = voider
  BY DEF Consume
<1>6. packs' = IF user[c].loaded = "READY"
               THEN [packs EXCEPT ![id] = [@ EXCEPT !.state = "CONSUMED", !.consumed_at = TRUE]]
               ELSE packs
  BY <1>3 DEF Consume, is_legal_context_pack_transition
<1>7. packs[id] \in Row
  BY <1>2, <1>3, RowFields DEF PackInv
<1> DEFINE new == [packs[id] EXCEPT !.state = "CONSUMED", !.consumed_at = TRUE]
<1>8. /\ new \in Row /\ new.request = packs[id].request /\ new.consumed_at
  BY <1>7 DEF Row, ContextPackState
<1>9. packs' = IF user[c].loaded = "READY" THEN [packs EXCEPT ![id] = new] ELSE packs
  BY <1>6
<1> HIDE DEF u, new, id, q
<1>10. PackTypeOK'
  BY <1>4, <1>5, <1>8, <1>9 DEF PackInv, PackTypeOK
<1>11. Grows
  BY <1>2, <1>8, <1>9, NoPackAssumption DEF Grows, PackInv, PackTypeOK
<1>12. /\ packs'[id] # NoPack /\ HashOf(packs'[id].request) = HashOf(q)
       /\ packs'[id].consumed_at
  BY <1>2, <1>3, <1>8, <1>9, NoPackAssumption DEF PackInv, PackTypeOK
<1>13. user'[c] = u /\ \A d \in Caller : d # c => user'[d] = user[d]
  BY <1>5 DEF PackInv, PackTypeOK
<1>14. HoldsAPack'
  BY <1>1, <1>4, <1>13 DEF PackInv, HoldsAPack
<1>15. ConsumedSaysWhen'
  BY <1>2, <1>8, <1>9 DEF PackInv, PackTypeOK, ConsumedSaysWhen
<1>16. ReadTrue'
  BY <1>4, <1>10, <1>11, <1>12, <1>13, RelianceLasts DEF ReadTrue, SameAsStored, id
<1>17. VoidsReady'
  BY <1>5, <1>11 DEF PackInv, VoidsReady, Grows
<1> QED
  BY <1>10, <1>14, <1>15, <1>16, <1>17 DEF PackInv

LEMMA CallAgainStep ==
  ASSUME PackInv, NEW c \in Caller, CallAgain(c)
  PROVE  PackInv'
<1> DEFINE u == [user[c] EXCEPT !.pc = "holding"]
<1>1. user[c] \in User /\ user[c].held \in DOMAIN Requests
  BY DEF PackInv, PackTypeOK, HoldsAPack, CallAgain
<1>2. u \in User /\ u.pc = "holding" /\ u.held = user[c].held
  BY <1>1 DEF User
<1>3. user' = [user EXCEPT ![c] = u]
  BY DEF CallAgain
<1> HIDE DEF u
<1> QED
  BY <1>1, <1>2, <1>3, CallerMoves DEF CallAgain

-----------------------------------------------------------------------------
(* Invalidations. *)

LEMMA LoadForInvalidationStep ==
  ASSUME PackInv, NEW v \in Invalidator, NEW id \in PackId, LoadForInvalidation(v, id)
  PROVE  PackInv'
<1> DEFINE w == [pack |-> id, loaded |-> packs[id].state]
<1>1. packs[id] # NoPack /\ packs[id].state \in ContextPackState
  BY RowFields DEF PackInv, LoadForInvalidation
<1>2. packs[id].state = "READY"
  BY DEF LoadForInvalidation, is_legal_context_pack_transition
<1>3. w \in Voider /\ w.pack = id /\ w.loaded = "READY"
  BY <1>1, <1>2 DEF Voider
<1>4. voider' = [voider EXCEPT ![v] = w] /\ UNCHANGED <<packs, user>>
  BY DEF LoadForInvalidation
<1> HIDE DEF w
<1>5. PackTypeOK'
  BY <1>3, <1>4 DEF PackInv, PackTypeOK
<1>6. VoidsReady'
  BY <1>1, <1>3, <1>4 DEF PackInv, PackTypeOK, VoidsReady
<1>7. HoldsAPack' /\ ConsumedSaysWhen'
  BY <1>4 DEF PackInv, HoldsAPack, ConsumedSaysWhen
<1>8. ReadTrue'
  BY <1>4 DEF PackInv, ReadTrue, SameAsStored
<1> QED
  BY <1>5, <1>6, <1>7, <1>8 DEF PackInv

LEMMA InvalidateStep ==
  ASSUME PackInv, NEW v \in Invalidator, Invalidate(v)
  PROVE  PackInv'
<1> DEFINE id == voider[v].pack
           new == [packs[id] EXCEPT !.state = "INVALIDATED_BEFORE_USE"]
<1>1. id \in PackId /\ packs[id] # NoPack
  BY DEF PackInv, VoidsReady, Invalidate
<1>2. packs[id] \in Row
  BY <1>1, RowFields DEF PackInv
<1>3. /\ new \in Row /\ new.request = packs[id].request
      /\ new.consumed_at = packs[id].consumed_at /\ new.state = "INVALIDATED_BEFORE_USE"
  BY <1>2 DEF Row, ContextPackState
<1>4. /\ packs' = [packs EXCEPT ![id] = new]
      /\ voider' = [voider EXCEPT ![v] = Resting] /\ user' = user
  BY DEF Invalidate
<1> HIDE DEF id, new
<1>5. Resting \in Voider
  BY DEF Resting, Voider
<1>6. PackTypeOK'
  BY <1>1, <1>3, <1>4, <1>5 DEF PackInv, PackTypeOK
<1>7. Grows
  BY <1>1, <1>3, <1>4, NoPackAssumption DEF Grows, PackInv, PackTypeOK
<1>8. HoldsAPack'
  BY <1>4 DEF PackInv, HoldsAPack
<1>9. ConsumedSaysWhen'
  BY <1>1, <1>3, <1>4 DEF PackInv, PackTypeOK, ConsumedSaysWhen
<1>10. ReadTrue'
  BY <1>4, <1>6, <1>7, RelianceLasts DEF ReadTrue
<1>11. VoidsReady'
  BY <1>4, <1>7 DEF PackInv, PackTypeOK, VoidsReady, Grows
<1> QED
  BY <1>6, <1>8, <1>9, <1>10, <1>11 DEF PackInv

-----------------------------------------------------------------------------
(* Theorems. *)

LEMMA PackInvInit == PackInit => PackInv
<1> SUFFICES ASSUME PackInit PROVE PackInv
  OBVIOUS
<1>1. Unused \in User
  BY DEF Unused, User
<1>2. Resting \in Voider
  BY DEF Resting, Voider
<1>3. PackTypeOK
  BY <1>1, <1>2 DEF PackInit, PackTypeOK
<1>4. \A c \in Caller : user[c].pc = "idle"
  BY DEF PackInit, Unused
<1> QED
  BY <1>3, <1>4 DEF PackInit, PackInv, HoldsAPack, ConsumedSaysWhen, ReadTrue, VoidsReady

LEMMA PackInvStep == PackInv /\ [PackNext]_packVars => PackInv'
<1> SUFFICES ASSUME PackInv, [PackNext]_packVars PROVE PackInv'
  OBVIOUS
<1>1. CASE UNCHANGED packVars
  BY <1>1 DEF packVars, PackInv, PackTypeOK, HoldsAPack, ConsumedSaysWhen, ReadTrue,
              SameAsStored, VoidsReady
<1>2. ASSUME NEW c \in Caller, Lose(c) PROVE PackInv'
  BY <1>2, CallerFailsStep DEF Lose
<1> QED
  BY <1>1, <1>2, ReuseStep, AssembleStep, LookForIdStep, InsertStep, LoadForConsumptionStep,
     ConsumeStep, CallAgainStep, LoadForInvalidationStep, InvalidateStep DEF PackNext

LEMMA PackInvAlways == PackSpec => []PackInv
BY PackInvInit, PackInvStep, PTL DEF PackSpec

\* The tables and the processes have the types they are declared with.
THEOREM PackTypeCorrect == PackSpec => []PackTypeOK
<1>1. PackInv => PackTypeOK
  BY DEF PackInv
<1> QED
  BY <1>1, PackInvAlways, PTL

\* A call is accepted with the stored pack and no other, however many callers assemble,
\* reuse and consume packs of the same ids (consume_context_pack).
THEOREM StoredIsConsumed == PackSpec => []ConsumedIsStored
<1>1. PackInv => ConsumedIsStored
  BY DEF PackInv, ReadTrue, SameAsStored, ConsumedIsStored
<1> QED
  BY <1>1, PackInvAlways, PTL

\* Only an invalidation that read the row while it was ready takes a consumed pack
\* back (mark_consumed, invalidate_before_use).
THEOREM ConsumedStays == PackSpec => ConsumedStaysConsumed
<1> DEFINE Stays ==
      \A id \in PackId :
        /\ packs[id] # NoPack /\ packs[id].state = "CONSUMED"
        /\ ~ \E v \in Invalidator : voider[v].pack = id /\ voider[v].loaded = "READY"
        => packs'[id].state = "CONSUMED"
<1>1. PackInv /\ [PackNext]_packVars => [Stays]_packVars
  <2> SUFFICES ASSUME PackInv, PackNext, NEW id \in PackId,
                      packs[id] # NoPack, packs[id].state = "CONSUMED",
                      ~ \E v \in Invalidator : voider[v].pack = id /\ voider[v].loaded = "READY"
               PROVE  packs'[id].state = "CONSUMED"
    OBVIOUS
  <2>1. packs \in [PackId -> Row \union {NoPack}] /\ packs[id] \in Row
    BY RowFields DEF PackInv, PackTypeOK
  <2>2. ASSUME UNCHANGED packs PROVE packs'[id].state = "CONSUMED"
    BY <2>2
  <2>3. ASSUME NEW c \in Caller, Insert(c) PROVE packs'[id].state = "CONSUMED"
    <3>1. CASE Collides(user[c].held) \/ ~Storable(user[c].held)
      BY <2>3, <3>1 DEF Insert
    <3>2. CASE ~(Collides(user[c].held) \/ ~Storable(user[c].held))
      <4>1. packs[IdOf(user[c].held)] = NoPack
        BY <3>2 DEF Collides
      <4>2. id # IdOf(user[c].held)
        BY <4>1
      <4> QED
        BY <2>1, <2>3, <3>2, <4>2 DEF Insert
    <3> QED
      BY <3>1, <3>2
  <2>4. ASSUME NEW c \in Caller, Consume(c) PROVE packs'[id].state = "CONSUMED"
    <3>1. CASE packs' = packs
      BY <3>1
    <3>2. CASE packs' = [packs EXCEPT ![IdOf(user[c].held)].state = "CONSUMED",
                                      ![IdOf(user[c].held)].consumed_at = TRUE]
      BY <2>1, <3>2 DEF Row
    <3> QED
      BY <2>4, <3>1, <3>2 DEF Consume
  <2>5. ASSUME NEW v \in Invalidator, Invalidate(v) PROVE packs'[id].state = "CONSUMED"
    <3>1. voider[v].pack # id
      BY <2>5 DEF PackInv, VoidsReady, Invalidate
    <3> QED
      BY <2>1, <2>5, <3>1 DEF Invalidate
  <2> QED
    BY <2>2, <2>3, <2>4, <2>5, Zenon DEF PackNext, Reuse, Assemble, LookForId, LoadForConsumption,
       CallAgain, Lose, LoadForInvalidation
<1> QED
  BY <1>1, PackInvAlways, PTL DEF PackSpec, ConsumedStaysConsumed

-----------------------------------------------------------------------------
(* What is stored was assembled *)

\* A pack that a caller is about to store, and one that is stored, fitted its window.
Assembled ==
  /\ \A c \in Caller : user[c].pc \in {"searched", "missing"} => Assembles(Requests[user[c].held])
  /\ \A id \in PackId : packs[id] # NoPack => Assembles(Requests[packs[id].request])

LEMMA AssembledInit == PackInit => Assembled
BY DEF PackInit, Unused, Assembled

LEMMA AssembledStep == PackInv /\ Assembled /\ [PackNext]_packVars => Assembled'
<1> SUFFICES ASSUME PackInv, Assembled, [PackNext]_packVars PROVE Assembled'
  OBVIOUS
<1>1. packs \in [PackId -> Row \union {NoPack}] /\ user \in [Caller -> User]
  BY DEF PackInv, PackTypeOK
\* Steps that write no row: a caller that is still to store what it assembled held it before.
<1>2. ASSUME UNCHANGED packs, NEW c \in Caller, NEW u, user' = [user EXCEPT ![c] = u],
             u.pc \in {"searched", "missing"} => Assembles(Requests[u.held])
      PROVE  Assembled'
  BY <1>1, <1>2 DEF Assembled
<1>3. CASE UNCHANGED packVars
  BY <1>3 DEF packVars, Assembled
<1>4. ASSUME NEW c \in Caller, CallerFails(c), UNCHANGED packs PROVE Assembled'
  <2> DEFINE u == [user[c] EXCEPT !.pc = "failed"]
  <2>1. user' = [user EXCEPT ![c] = u]
    BY <1>4 DEF CallerFails
  <2>2. u.pc = "failed"
    BY <1>1 DEF User
  <2> HIDE DEF u
  <2> QED
    BY <1>2, <1>4, <2>1, <2>2
<1>5. ASSUME NEW c \in Caller, Reuse(c) PROVE Assembled'
  <2>1. PICK q \in DOMAIN Requests, id \in PackId :
          user' = [user EXCEPT ![c].pc = "holding", ![c].request = q,
                               ![c].held = packs[id].request, ![c].via = "REUSED"]
    BY <1>5 DEF Reuse
  <2> DEFINE u == [user[c] EXCEPT !.pc = "holding", !.request = q,
                                  !.held = packs[id].request, !.via = "REUSED"]
  <2>2. user' = [user EXCEPT ![c] = u] /\ u.pc = "holding"
    BY <1>1, <2>1 DEF User
  <2> HIDE DEF u
  <2> QED
    BY <1>2, <1>5, <2>2 DEF Reuse
<1>6. ASSUME NEW c \in Caller, Assemble(c) PROVE Assembled'
  <2>1. PICK q \in DOMAIN Requests :
          IF Assembles(Requests[q])
          THEN user' = [user EXCEPT ![c].pc = "searched", ![c].request = q, ![c].held = q]
          ELSE user' = [user EXCEPT ![c].pc = "failed", ![c].request = q]
    BY <1>6 DEF Assemble
  <2> DEFINE u == [user[c] EXCEPT !.pc = "searched", !.request = q, !.held = q]
             v == [user[c] EXCEPT !.pc = "failed", !.request = q]
  <2>2. u.pc = "searched" /\ u.held = q /\ v.pc = "failed"
    BY <1>1 DEF User
  <2>3. \/ Assembles(Requests[q]) /\ user' = [user EXCEPT ![c] = u]
        \/ user' = [user EXCEPT ![c] = v]
    BY <2>1
  <2> HIDE DEF u, v
  <2> QED
    BY <1>2, <1>6, <2>2, <2>3 DEF Assemble
<1>7. ASSUME NEW c \in Caller, LookForId(c) PROVE Assembled'
  <2> DEFINE u == [user[c] EXCEPT !.pc = "missing"]
             v == [user[c] EXCEPT !.pc = "holding", !.via = "IDEMPOTENT_REPLAY"]
  <2>1. u.pc = "missing" /\ u.held = user[c].held /\ v.pc = "holding"
    BY <1>1 DEF User
  <2>2. user' = [user EXCEPT ![c] = u] \/ user' = [user EXCEPT ![c] = v]
    BY <1>7 DEF LookForId
  <2>3. Assembles(Requests[user[c].held]) /\ UNCHANGED packs
    BY <1>7 DEF LookForId, Assembled
  <2> HIDE DEF u, v
  <2> QED
    BY <1>2, <2>1, <2>2, <2>3
<1>8. ASSUME NEW c \in Caller, Insert(c) PROVE Assembled'
  <2>1. user[c].held \in DOMAIN Requests /\ Assembles(Requests[user[c].held])
    BY <1>8 DEF PackInv, HoldsAPack, Assembled, Insert
  <2>2. CASE Collides(user[c].held) \/ ~Storable(user[c].held)
    BY <1>4, <1>8, <2>2 DEF Insert
  <2>3. CASE ~(Collides(user[c].held) \/ ~Storable(user[c].held))
    <3> DEFINE new == [request |-> user[c].held, state |-> "READY", consumed_at |-> FALSE]
               u == [user[c] EXCEPT !.pc = "holding", !.via = "INSERTED"]
    <3>1. packs' = [packs EXCEPT ![IdOf(user[c].held)] = new] /\ user' = [user EXCEPT ![c] = u]
      BY <1>8, <2>3 DEF Insert
    <3>2. u.pc = "holding" /\ new.request = user[c].held
      BY <1>1 DEF User
    <3> HIDE DEF new, u
    <3> QED
      BY <1>1, <2>1, <3>1, <3>2 DEF Assembled
  <2> QED
    BY <2>2, <2>3
<1>9. ASSUME NEW c \in Caller, LoadForConsumption(c) PROVE Assembled'
  <2>1. CASE Accepts(user[c].held, packs[IdOf(user[c].held)])
    <3> DEFINE u == [user[c] EXCEPT !.pc = "consuming", !.loaded = packs[IdOf(user[c].held)].state]
    <3>1. user' = [user EXCEPT ![c] = u] /\ u.pc = "consuming" /\ UNCHANGED packs
      BY <1>1, <1>9, <2>1 DEF LoadForConsumption, User
    <3> HIDE DEF u
    <3> QED
      BY <1>2, <3>1
  <2>2. CASE ~Accepts(user[c].held, packs[IdOf(user[c].held)])
    BY <1>4, <1>9, <2>2 DEF LoadForConsumption
  <2> QED
    BY <2>1, <2>2
\* Steps that change a row that is there: its request stays.
<1>10. ASSUME NEW c \in Caller, Consume(c) PROVE Assembled'
  <2>1. /\ packs[IdOf(user[c].held)] # NoPack /\ IdOf(user[c].held) \in PackId
    BY <1>10, IdOfRequest DEF Consume, PackInv, ReadTrue, SameAsStored, HoldsAPack
  <2>2. \A id \in PackId : packs'[id] # NoPack => packs[id] # NoPack /\ packs'[id].request = packs[id].request
    <3> DEFINE q == IdOf(user[c].held)
               new == [packs[q] EXCEPT !.state = "CONSUMED", !.consumed_at = TRUE]
    <3>1. packs[q] \in Row
      BY <2>1, RowFields DEF PackInv
    <3>2. new.request = packs[q].request
      BY <3>1 DEF Row
    <3>3. packs' = [packs EXCEPT ![q] = new] \/ packs' = packs
      BY <1>10 DEF Consume
    <3> HIDE DEF q, new
    <3> QED
      BY <1>1, <2>1, <3>2, <3>3 DEF q
  <2> DEFINE u == [user[c] EXCEPT !.pc = "accepted", !.loaded = "none"]
  <2>3. user' = [user EXCEPT ![c] = u] /\ u.pc = "accepted"
    BY <1>1, <1>10 DEF Consume, User
  <2> HIDE DEF u
  <2> QED
    BY <1>1, <2>2, <2>3 DEF Assembled
<1>11. ASSUME NEW c \in Caller, CallAgain(c) PROVE Assembled'
  <2> DEFINE u == [user[c] EXCEPT !.pc = "holding"]
  <2>1. user' = [user EXCEPT ![c] = u] /\ u.pc = "holding" /\ UNCHANGED packs
    BY <1>1, <1>11 DEF CallAgain, User
  <2> HIDE DEF u
  <2> QED
    BY <1>2, <2>1
<1>12. ASSUME NEW c \in Caller, Lose(c) PROVE Assembled'
  BY <1>4, <1>12 DEF Lose
<1>13. ASSUME NEW v \in Invalidator, Invalidate(v) PROVE Assembled'
  <2>1. voider[v].pack \in PackId /\ packs[voider[v].pack] # NoPack
    BY <1>13 DEF Invalidate, PackInv, VoidsReady
  <2>2. packs[voider[v].pack] \in Row
    BY <2>1, RowFields DEF PackInv
  <2>3. \A id \in PackId : packs'[id] # NoPack => packs[id] # NoPack /\ packs'[id].request = packs[id].request
    BY <1>1, <1>13, <2>1, <2>2 DEF Invalidate, Row
  <2>4. UNCHANGED user
    BY <1>13 DEF Invalidate
  <2> QED
    BY <2>3, <2>4 DEF Assembled
<1>14. ASSUME NEW v \in Invalidator, NEW id \in PackId, LoadForInvalidation(v, id) PROVE Assembled'
  BY <1>14 DEF LoadForInvalidation, Assembled
<1> QED
  BY <1>3, <1>5, <1>6, <1>7, <1>8, <1>9, <1>10, <1>11, <1>12, <1>13, <1>14 DEF PackNext

\* Every stored pack fits the window of its request, bucket by bucket, has every mandatory
\* content, none twice, and lacks only what did not fit (compute_context_budget,
\* select_context_items).
THEOREM PackFits == PackSpec => []PackIsWithinBudget
<1>1. PackInv /\ Assembled => PackIsWithinBudget
  <2> SUFFICES ASSUME PackInv, Assembled, NEW id \in PackId, packs[id] # NoPack
               PROVE  WithinBudget(Requests[packs[id].request], HashOf(packs[id].request).items)
    BY Zenon DEF PackIsWithinBudget, WithinBudget
  <2> DEFINE q == packs[id].request
  <2>1. q \in DOMAIN Requests
    BY RowFields DEF PackInv
  <2>2. Assembles(Requests[q])
    BY DEF Assembled
  <2>3. HashOf(q).items = select_context_items(Requests[q])
    BY <2>1, <2>2 DEF HashOf, assemble_context_pack, compute_pack_hash
  <2> QED
    BY <2>1, <2>2, <2>3, SelectionFits
<1>2. PackSpec => []Assembled
  BY PackInvAlways, AssembledInit, AssembledStep, PTL DEF PackSpec
<1> QED
  BY <1>1, <1>2, PackInvAlways, PTL

-----------------------------------------------------------------------------
(* The store and its writers *)

Text == {Proposals[q].text : q \in DOMAIN Proposals} \union {c.text : c \in Corrections}
Source == {Proposals[q].source : q \in DOMAIN Proposals} \union {"MEMORY_COMMAND"}

Memory == [proposal : DOMAIN Proposals, text : Text, trust : DOMAIN TrustRank,
           state : {"ACTIVE", "SUPERSEDED", "RETRACTED", "QUARANTINED"}, pinned : BOOLEAN,
           supersedes : Nat, group : Nat, revision : Nat, valid_from : Nat,
           provenance : (SUBSET Source) \ {{}}, saw : Nat]

Transaction == [pc : {"idle", "merging", "inserting"}, proposal : DOMAIN Proposals \union {0},
                target : Nat, state : {"", "ACTIVE", "QUARANTINED"}, supersedes : Nat,
                group : Nat \union {Fresh}, provenance : SUBSET Source, saw : Nat]

\* What a memory points to was there before it.
Placed(id) == /\ memories[id].supersedes < id /\ memories[id].group <= id
              /\ memories[id].revision \in 1..id /\ memories[id].saw < id

About(p, q) == p.owner = q.owner /\ p.scope = q.scope /\ p.key = q.key /\ p.key # NoKey

\* A transaction that found a memory of its subject marks what it is going to write.
Marks(t) ==
  \A a \in Ids : a <= t.saw /\ Active(a) /\ About(Prop(a), Proposals[t.proposal]) =>
    \/ t.group # Nil
    \/ /\ t.supersedes # Nil
       /\ TrustRank[Proposals[t.proposal].trust] >= TrustRank[memories[t.supersedes].trust]

\* What a transaction holds is still true of the store.
Holds(t) ==
  /\ t.target \in Ids \union {Nil}
  /\ t.pc # "idle" => t.proposal \in DOMAIN Proposals
  /\ t.pc = "merging" => t.target \in Ids
  /\ t.pc = "inserting" => /\ t.state # "" /\ t.supersedes <= Len(memories)
                           /\ t.group <= Len(memories) /\ t.saw <= Len(memories) /\ Marks(t)

\* There is room for what is pending.
Room == IsFiniteSet(Pending) /\ Len(memories) + Cardinality(Pending) <= MaxRecords

StoreInv ==
  /\ memories \in Seq(Memory) /\ tombstones \subseteq Ids
  /\ \A id \in Ids : Placed(id)
  /\ writing \in [Writer -> Transaction]
  /\ \A w \in Writer : Holds(writing[w])
  /\ Room

-----------------------------------------------------------------------------
(* What every step leaves of the memories *)

\* A memory is never rewritten, and none becomes active again.
Keeps(m, n) == /\ n.proposal = m.proposal /\ n.text = m.text /\ n.trust = m.trust
               /\ n.supersedes = m.supersedes /\ n.group = m.group /\ n.revision = m.revision
               /\ n.saw = m.saw /\ n.valid_from = m.valid_from
               /\ n.state = "ACTIVE" => m.state = "ACTIVE"

Lasts == /\ memories' \in Seq(Memory) /\ Len(memories) <= Len(memories')
         /\ \A id \in Ids : id \in Ids' /\ Keeps(memories[id], memories'[id])

LEMMA IdsAre ==
  ASSUME memories \in Seq(Memory)
  PROVE  /\ Len(memories) \in Nat /\ Ids = 1..Len(memories)
         /\ \A id \in Ids : memories[id] \in Memory
BY LenProperties, ElementOfSeq DEF Ids

LEMMA LastingHolds ==
  ASSUME StoreInv, Lasts, NEW t \in Transaction, Holds(t)
  PROVE  Holds(t)'
<1>1. /\ Len(memories) \in Nat /\ Ids = 1..Len(memories)
      /\ Len(memories') \in Nat /\ Ids' = 1..Len(memories') /\ Len(memories) <= Len(memories')
      /\ \A id \in Ids : memories[id] \in Memory
  BY LenProperties, ElementOfSeq DEF StoreInv, Lasts, Ids
<1>2. t.saw \in Nat /\ t.supersedes \in Nat /\ t.target \in Nat /\ t.group \in Nat \union {Fresh}
  BY DEF Transaction
<1>3. ASSUME t.pc = "inserting" PROVE Marks(t)'
  <2>1. Marks(t) /\ t.saw <= Len(memories) /\ t.supersedes <= Len(memories)
    BY <1>3 DEF Holds
  <2> SUFFICES ASSUME NEW a \in Ids', a <= t.saw, Active(a)', About(Prop(a), Proposals[t.proposal])'
               PROVE  \/ t.group # Nil
                      \/ /\ t.supersedes # Nil
                         /\ TrustRank[Proposals[t.proposal].trust] >= TrustRank[memories'[t.supersedes].trust]
    BY DEF Marks
  <2>2. a \in Ids
    BY <1>1, <1>2, <2>1
  <2>3. Active(a) /\ About(Prop(a), Proposals[t.proposal])
    BY <2>2 DEF Lasts, Keeps, Active, Prop
  <2>4. t.supersedes # Nil => t.supersedes \in Ids
    BY <1>1, <1>2, <2>1 DEF Nil
  <2>5. t.supersedes # Nil => memories'[t.supersedes].trust = memories[t.supersedes].trust
    BY <2>4 DEF Lasts, Keeps
  <2> QED
    BY <2>1, <2>2, <2>3, <2>5 DEF Marks
<1>4. t.target \in Ids \union {Nil} => t.target \in Ids' \union {Nil}
  BY DEF Lasts
<1>5. ASSUME NEW n \in Nat \union {Fresh}, n <= Len(memories)
      PROVE  n <= Len(memories')
  BY <1>1, <1>5 DEF Fresh
<1> QED
  BY <1>2, <1>3, <1>4, <1>5 DEF Holds, Lasts

\* What the memories that were there keep.
LEMMA LastingPlaces ==
  ASSUME StoreInv, Lasts, NEW id \in Ids
  PROVE  Placed(id)'
BY DEF StoreInv, Lasts, Keeps, Placed

\* A command or a merge rewrites one memory.
LEMMA Rewritten ==
  ASSUME memories \in Seq(Memory), NEW id \in Ids, NEW m \in Memory, Keeps(memories[id], m)
  PROVE  LET new == [memories EXCEPT ![id] = m]
         IN  /\ new \in Seq(Memory) /\ Len(new) = Len(memories) /\ DOMAIN new = Ids
             /\ \A other \in Ids : new[other] \in Memory /\ Keeps(memories[other], new[other])
<1> DEFINE new == [memories EXCEPT ![id] = m]
<1>1. Ids = 1..Len(memories) /\ \A other \in Ids : memories[other] \in Memory
  BY IdsAre
<1>2. new \in Seq(Memory) /\ Len(new) = Len(memories)
      /\ \A j \in 1..Len(memories) : new[j] = IF j = id THEN m ELSE memories[j]
  BY <1>1, ExceptSeq
<1> HIDE DEF new
<1>3. \A other \in Ids : new[other] \in Memory /\ Keeps(memories[other], new[other])
  BY <1>1, <1>2 DEF Keeps
<1>4. DOMAIN new = Ids
  BY <1>1, <1>2, LenProperties
<1> QED
  BY <1>2, <1>3, <1>4 DEF new

\* A memory is added behind the others.
LEMMA RowAdded ==
  ASSUME NEW old \in Seq(Memory), NEW m \in Memory
  PROVE  LET new == Append(old, m)
         IN  /\ new \in Seq(Memory) /\ Len(new) = Len(old) + 1 /\ DOMAIN new = 1..(Len(old) + 1)
             /\ new[Len(old) + 1] = m /\ \A i \in 1..Len(old) : new[i] = old[i]
<1> DEFINE new == Append(old, m)
<1>1. /\ new \in Seq(Memory) /\ Len(new) = Len(old) + 1
      /\ new[Len(old) + 1] = m /\ \A i \in 1..Len(old) : new[i] = old[i]
  OBVIOUS
<1> QED
  BY <1>1, LenProperties

\* What a step has to show.
LEMMA StoreStep ==
  ASSUME StoreInv, Lasts, tombstones' \subseteq Ids', \A id \in Ids' \ Ids : Placed(id)',
         writing' \in [Writer -> Transaction],
         \A w \in Writer : writing'[w] = writing[w] \/ Holds(writing[w])',
         Room'
  PROVE  StoreInv'
<1>1. \A id \in Ids' : Placed(id)'
  BY LastingPlaces
<1>2. ASSUME NEW w \in Writer, NEW t, t = writing[w] PROVE Holds(t)'
  <2>1. t \in Transaction /\ Holds(t)
    BY <1>2 DEF StoreInv
  <2> QED
    BY <2>1, LastingHolds
<1>3. ASSUME NEW w \in Writer PROVE Holds(writing[w])'
  <2>1. CASE writing'[w] = writing[w]
    <3>1. PICK t : t = writing[w]
      OBVIOUS
    <3>2. Holds(t)'
      BY <1>2, <3>1
    <3> QED
      BY <2>1, <3>1, <3>2
  <2> QED
    BY <2>1
<1> QED
  BY <1>1, <1>3 DEF StoreInv, Lasts

LEMMA SameLasts ==
  ASSUME StoreInv, UNCHANGED memories
  PROVE  Lasts
BY LenProperties DEF StoreInv, Lasts, Keeps, Ids

\* A transaction goes on.
LEMMA PendingMoves ==
  ASSUME StoreInv, NEW w \in Writer, NEW t \in Transaction, writing' = [writing EXCEPT ![w] = t]
  PROVE  /\ writing' \in [Writer -> Transaction] /\ writing'[w] = t
         /\ \A v \in Writer : v # w => writing'[v] = writing[v]
         /\ Pending' = IF t.pc = "inserting" THEN Pending \union {w} ELSE Pending \ {w}
<1>1. /\ writing' \in [Writer -> Transaction] /\ writing'[w] = t
      /\ \A v \in Writer : v # w => writing'[v] = writing[v]
  BY DEF StoreInv
<1> QED
  BY <1>1 DEF Pending

LEMMA RoomMoves ==
  ASSUME StoreInv, NEW w \in Writer, NEW t \in Transaction, writing' = [writing EXCEPT ![w] = t]
  PROVE  /\ IsFiniteSet(Pending) /\ IsFiniteSet(Pending') /\ Len(memories) \in Nat
         /\ Cardinality(Pending) \in Nat /\ Cardinality(Pending') \in Nat
         /\ Cardinality(Pending') <= Cardinality(Pending) + (IF t.pc = "inserting" THEN 1 ELSE 0)
         /\ writing[w].pc = "inserting" /\ t.pc # "inserting"
              => Cardinality(Pending') = Cardinality(Pending) - 1
         /\ Len(memories) + Cardinality(Pending) <= MaxRecords
<1>1. IsFiniteSet(Pending) /\ Len(memories) \in Nat /\ Len(memories) + Cardinality(Pending) <= MaxRecords
  BY IdsAre DEF StoreInv, Room
<1>2. Cardinality(Pending) \in Nat
  BY <1>1, FS_CardinalityType
<1>3. /\ IsFiniteSet(Pending \union {w})
      /\ Cardinality(Pending \union {w}) \in {Cardinality(Pending), Cardinality(Pending) + 1}
  BY <1>1, FS_AddElement
<1>4. /\ IsFiniteSet(Pending \ {w})
      /\ Cardinality(Pending \ {w}) = IF w \in Pending THEN Cardinality(Pending) - 1 ELSE Cardinality(Pending)
  BY <1>1, FS_RemoveElement
<1>5. Cardinality(Pending \ {w}) \in Nat
  BY <1>4, FS_CardinalityType
<1>6. writing[w].pc = "inserting" => w \in Pending
  BY DEF Pending
<1>7. CASE t.pc = "inserting"
  <2>1. Pending' = Pending \union {w}
    BY <1>7, PendingMoves
  <2> QED
    BY <1>1, <1>2, <1>3, <1>7, <2>1
<1>8. CASE t.pc # "inserting"
  <2>1. Pending' = Pending \ {w}
    BY <1>8, PendingMoves
  <2> QED
    BY <1>1, <1>2, <1>4, <1>5, <1>6, <1>8, <2>1
<1> QED
  BY <1>7, <1>8

\* A transaction that reads, or is rolled back.
LEMMA WriterMoves ==
  ASSUME StoreInv, NEW w \in Writer, NEW t \in Transaction, writing' = [writing EXCEPT ![w] = t],
         UNCHANGED <<memories, tombstones>>, Holds(t),
         t.pc = "inserting" => Len(memories) + Cardinality(Pending) < MaxRecords
  PROVE  StoreInv'
<1>1. Lasts
  BY SameLasts
<1>2. Holds(t)'
  BY <1>1, LastingHolds
<1>3. Room'
  <2>1. MaxRecords \in Nat /\ Len(memories') = Len(memories)
    BY MemoryStoreAssumption
  <2>2. /\ IsFiniteSet(Pending') /\ Len(memories) \in Nat
        /\ Cardinality(Pending) \in Nat /\ Cardinality(Pending') \in Nat
        /\ Cardinality(Pending') <= Cardinality(Pending) + (IF t.pc = "inserting" THEN 1 ELSE 0)
        /\ Len(memories) + Cardinality(Pending) <= MaxRecords
    BY RoomMoves
  <2>3. CASE t.pc = "inserting"
    BY <2>1, <2>2, <2>3 DEF Room
  <2>4. CASE t.pc # "inserting"
    BY <2>1, <2>2, <2>4 DEF Room
  <2> QED
    BY <2>3, <2>4
<1>4. tombstones' \subseteq Ids' /\ Ids' = Ids
  BY DEF StoreInv, Ids
<1>5. /\ writing' \in [Writer -> Transaction]
      /\ \A v \in Writer : writing'[v] = writing[v] \/ Holds(writing[v])'
  <2>1. PICK u : u = writing'[w]
    OBVIOUS
  <2>2. u = t
    BY <2>1, PendingMoves
  <2>3. Holds(writing[w])'
    BY <1>2, <2>1, <2>2
  <2> QED
    BY <2>3, PendingMoves
<1> QED
  BY <1>1, <1>3, <1>4, <1>5, StoreStep

-----------------------------------------------------------------------------
(* validate_and_commit *)

LEMMA ProposalTyped ==
  ASSUME NEW q \in DOMAIN Proposals
  PROVE  /\ Proposals[q].text \in Text /\ Proposals[q].trust \in DOMAIN TrustRank
         /\ Proposals[q].source \in Source /\ Proposals[q].now \in Nat
BY MemoryStoreAssumption DEF Text, Source

LEMMA ResolvesTyped == \A p : ResolveActivationState(p) \in {"ACTIVE", "QUARANTINED"}
BY DEF ResolveActivationState

LEMMA NotWritingTyped == NotWriting \in Transaction /\ Holds(NotWriting)
BY DEF NotWriting, Transaction, Fresh, Holds, Nil

\* The conflict planner marks what contradicts a memory of the subject, and never puts a
\* lower trust above a higher one.
LEMMA PlanMarks ==
  ASSUME StoreInv, NEW p, p.key # NoKey, NEW id \in Ids, Prop(id).key = p.key,
         plan_correction_or_conflict(p, id).disposition # "MERGE"
  PROVE  LET plan == WithGroup(plan_correction_or_conflict(p, id))
         IN  /\ plan.disposition \in {"CORRECT", "CONFLICT"}
             /\ plan.supersedes \in 0..Len(memories)
             /\ plan.group \in Nat \union {Fresh} /\ plan.group <= Len(memories)
             /\ \/ plan.group # Nil
                \/ plan.supersedes # Nil /\ TrustRank[p.trust] >= TrustRank[memories[plan.supersedes].trust]
<1> DEFINE m == memories[id]
           corrects == p.correction_of = id \/ (p.trust = "USER_EXPLICIT" /\ p.text # m.text)
           raw == plan_correction_or_conflict(p, id)
<1>1. /\ Len(memories) \in Nat /\ id \in 1..Len(memories) /\ m \in Memory /\ m.group \in 0..id
  <2>1. Len(memories) \in Nat /\ id \in 1..Len(memories) /\ m \in Memory
    BY IdsAre DEF StoreInv
  <2>2. m.group \in Nat /\ m.group <= id
    BY <2>1 DEF StoreInv, Memory, Placed
  <2> QED
    BY <2>1, <2>2
<1>2. raw = IF corrects
            THEN IF TrustRank[p.trust] >= TrustRank[m.trust] THEN Plan("CORRECT", id, Nil)
                 ELSE Plan("CONFLICT", Nil, m.group)
            ELSE IF p.text = m.text THEN Plan("MERGE", Nil, Nil)
            ELSE Plan("CONFLICT", Nil, m.group)
  BY DEF plan_correction_or_conflict
<1> HIDE DEF corrects, raw
<1>3. CASE raw = Plan("CORRECT", id, Nil) /\ TrustRank[p.trust] >= TrustRank[m.trust]
  BY <1>1, <1>3 DEF WithGroup, Plan, Nil, Fresh, raw
<1>4. CASE raw = Plan("CONFLICT", Nil, m.group)
  BY <1>1, <1>4 DEF WithGroup, Plan, Nil, Fresh, raw
<1>5. CASE raw = Plan("MERGE", Nil, Nil)
  BY <1>5 DEF Plan, raw
<1> QED
  BY <1>2, <1>3, <1>4, <1>5

Inserting(q, m, g, n, state) ==
  [NotWriting EXCEPT !.pc = "inserting", !.proposal = q, !.supersedes = m, !.group = g,
                     !.saw = n, !.state = state]

LEMMA InsertingTyped ==
  ASSUME NEW q \in DOMAIN Proposals, NEW m \in Nat, NEW g \in Nat \union {Fresh}, NEW n \in Nat,
         NEW state \in {"ACTIVE", "QUARANTINED"}
  PROVE  Inserting(q, m, g, n, state) \in Transaction
BY DEF Inserting, NotWriting, Transaction

LEMMA StoreStutters ==
  ASSUME StoreInv, UNCHANGED memoryVars
  PROVE  StoreInv'
BY DEF memoryVars, StoreInv, Ids, Placed, Holds, Marks, Active, Prop, Room, Pending

\* The transaction that is going to add to the provenance of a memory.
LEMMA MergesStep ==
  ASSUME StoreInv, NEW w \in Writer, NEW q \in DOMAIN Proposals, NEW id \in Ids, Merges(w, q, id),
         UNCHANGED <<memories, tombstones>>
  PROVE  StoreInv'
<1> DEFINE t == [NotWriting EXCEPT !.pc = "merging", !.proposal = q, !.target = id,
                                   !.provenance = memories[id].provenance]
<1>1. memories[id].provenance \in SUBSET Source /\ id \in Nat
  <2>1. memories[id] \in Memory /\ id \in Nat
    BY IdsAre DEF StoreInv
  <2> QED
    BY <2>1 DEF Memory
<1>2. t \in Transaction /\ t.pc = "merging" /\ t.proposal = q /\ t.target = id
  BY <1>1 DEF NotWriting, Transaction
<1>3. writing' = [writing EXCEPT ![w] = t]
  BY DEF Merges
<1> HIDE DEF t
<1>4. Holds(t)
  BY <1>2 DEF Holds
<1> QED
  BY <1>2, <1>3, <1>4, WriterMoves

\* A plan marks what contradicts a memory that is there.
MarkedBy(q, plan) ==
  \A a \in Ids : Active(a) /\ About(Prop(a), Proposals[q]) =>
    \/ plan.group # Nil
    \/ /\ plan.supersedes # Nil
       /\ TrustRank[Proposals[q].trust] >= TrustRank[memories[plan.supersedes].trust]

\* The transaction that is going to write a memory, by its plan.
LEMMA InsertsStep ==
  ASSUME StoreInv, NEW w \in Writer, NEW q \in DOMAIN Proposals, NEW plan, Inserts(w, q, plan),
         UNCHANGED <<memories, tombstones>>, Len(memories) + Cardinality(Pending) < MaxRecords,
         plan.supersedes \in 0..Len(memories),
         plan.group \in Nat \union {Fresh}, plan.group <= Len(memories),
         MarkedBy(q, plan)
  PROVE  StoreInv'
<1>1. PICK state \in {"ACTIVE", "QUARANTINED"} :
        state = IF plan.disposition \in {"CORRECT", "CONFLICT"} THEN "ACTIVE"
                ELSE ResolveActivationState(Proposals[q])
  BY ResolvesTyped
<1>2. Len(memories) \in Nat /\ plan.supersedes \in Nat
  <2>1. Len(memories) \in Nat
    BY IdsAre DEF StoreInv
  <2> QED
    BY <2>1
<1>3. PICK t : t = Inserting(q, plan.supersedes, plan.group, Len(memories), state)
  OBVIOUS
<1>4. /\ t \in Transaction /\ t.pc = "inserting" /\ t.proposal = q /\ t.supersedes = plan.supersedes
      /\ t.group = plan.group /\ t.saw = Len(memories) /\ t.state = state /\ t.target = Nil
  <2>1. Inserting(q, plan.supersedes, plan.group, Len(memories), state) \in Transaction
    BY <1>1, <1>2, InsertingTyped
  <2> QED
    BY <1>3, <2>1 DEF Inserting, NotWriting, Nil
<1>5. CASE UNCHANGED writing
  BY <1>5, StoreStutters DEF memoryVars
<1>6. CASE ~ UNCHANGED writing
  <2>1. writing' = [writing EXCEPT ![w] = t]
    BY <1>1, <1>3, <1>6 DEF Inserts, Inserting
  <2>2. Marks(t)
    BY <1>4 DEF Marks, MarkedBy
  <2>3. Holds(t)
    <3>1. t.supersedes <= Len(memories) /\ t.group <= Len(memories) /\ t.saw <= Len(memories)
      BY <1>4, <1>2
    <3> QED
      BY <1>4, <2>2, <3>1 DEF Holds
  <2> QED
    BY <1>4, <2>1, <2>3, WriterMoves
<1> QED
  BY <1>5, <1>6

LEMMA BeginStep ==
  ASSUME StoreInv, NEW w \in Writer, NEW q \in DOMAIN Proposals, Begin(w, q)
  PROVE  StoreInv'
<1> DEFINE p == Proposals[q]
           same == find_active_by_hash(p)
           keyed == IF p.key = NoKey THEN {} ELSE find_active_by_key(p.owner, p.scope, p.key)
<1>1. /\ UNCHANGED <<memories, tombstones>> /\ Len(memories) + Cardinality(Pending) < MaxRecords
      /\ \/ \E id \in same : Merges(w, q, id)
         \/ same = {} /\ keyed = {} /\ Inserts(w, q, Plan("NEW", Nil, Nil))
         \/ /\ same = {}
            /\ \E id \in keyed :
                 LET plan == plan_correction_or_conflict(p, id)
                 IN  IF plan.disposition = "MERGE" THEN Merges(w, q, id)
                     ELSE Inserts(w, q, WithGroup(plan))
  BY DEF Begin
<1>2. same \subseteq Ids /\ keyed \subseteq Ids
  BY DEF find_active_by_hash, find_active_by_key, Owned
<1>3. \A a \in Ids : Active(a) /\ About(Prop(a), p) => a \in keyed
  BY DEF About, find_active_by_key, Owned
<1>4. CASE \E id \in same : Merges(w, q, id)
  BY <1>1, <1>2, <1>4, MergesStep
<1>5. CASE keyed = {} /\ Inserts(w, q, Plan("NEW", Nil, Nil))
  <2>1. Len(memories) \in Nat
    BY IdsAre DEF StoreInv
  <2>2. PICK plan : plan = Plan("NEW", Nil, Nil)
    OBVIOUS
  <2>3. plan.supersedes \in 0..Len(memories) /\ plan.group \in Nat \union {Fresh} /\ plan.group <= Len(memories)
    BY <2>1, <2>2 DEF Plan, Nil
  <2>4. \A a \in Ids : ~ (Active(a) /\ About(Prop(a), p))
    BY <1>3, <1>5
  <2> QED
    BY <1>1, <1>5, <2>2, <2>3, <2>4, InsertsStep DEF MarkedBy
<1>6. ASSUME NEW id \in keyed,
             LET plan == plan_correction_or_conflict(p, id)
             IN  IF plan.disposition = "MERGE" THEN Merges(w, q, id)
                 ELSE Inserts(w, q, WithGroup(plan))
      PROVE  StoreInv'
  <2>1. id \in Ids /\ p.key # NoKey /\ Prop(id).key = p.key
    BY DEF find_active_by_key, Owned
  <2>2. CASE plan_correction_or_conflict(p, id).disposition = "MERGE"
    BY <1>1, <1>6, <2>1, <2>2, MergesStep
  <2>3. CASE plan_correction_or_conflict(p, id).disposition # "MERGE"
    <3>1. PICK plan : plan = WithGroup(plan_correction_or_conflict(p, id))
      OBVIOUS
    <3>2. Inserts(w, q, plan)
      BY <1>6, <2>3, <3>1
    <3>3. /\ plan.supersedes \in 0..Len(memories)
          /\ plan.group \in Nat \union {Fresh} /\ plan.group <= Len(memories)
          /\ \/ plan.group # Nil
             \/ plan.supersedes # Nil /\ TrustRank[p.trust] >= TrustRank[memories[plan.supersedes].trust]
      BY <2>1, <2>3, <3>1, PlanMarks
    <3> QED
      BY <1>1, <3>2, <3>3, InsertsStep DEF MarkedBy
  <2> QED
    BY <2>2, <2>3
<1> QED
  BY <1>1, <1>4, <1>5, <1>6

LEMMA RollBackStep ==
  ASSUME StoreInv, NEW w \in Writer, RollBack(w)
  PROVE  StoreInv'
BY NotWritingTyped, WriterMoves DEF RollBack, NotWriting

\* A transaction that ends.
LEMMA EndMoves ==
  ASSUME StoreInv, NEW w \in Writer, writing' = [writing EXCEPT ![w] = NotWriting]
  PROVE  /\ writing' \in [Writer -> Transaction]
         /\ \A v \in Writer : writing'[v] = writing[v] \/ Holds(writing[v])'
         /\ IsFiniteSet(Pending') /\ Cardinality(Pending') \in Nat /\ Cardinality(Pending) \in Nat
         /\ Cardinality(Pending') <= Cardinality(Pending)
         /\ writing[w].pc = "inserting" => Cardinality(Pending') = Cardinality(Pending) - 1
<1>1. NotWriting \in Transaction /\ NotWriting.pc = "idle" /\ NotWriting.target = Nil
  BY NotWritingTyped DEF NotWriting, Nil
<1>2. writing' \in [Writer -> Transaction] /\ writing'[w] = NotWriting
      /\ \A v \in Writer : v # w => writing'[v] = writing[v]
  BY <1>1, PendingMoves
<1>3. Holds(writing[w])'
  BY <1>1, <1>2 DEF Holds
<1>4. \A v \in Writer : writing'[v] = writing[v] \/ Holds(writing[v])'
  BY <1>2, <1>3
<1>5. /\ IsFiniteSet(Pending') /\ Cardinality(Pending') \in Nat /\ Cardinality(Pending) \in Nat
      /\ Cardinality(Pending') <= Cardinality(Pending) + (IF NotWriting.pc = "inserting" THEN 1 ELSE 0)
      /\ writing[w].pc = "inserting" /\ NotWriting.pc # "inserting"
           => Cardinality(Pending') = Cardinality(Pending) - 1
  BY <1>1, RoomMoves
<1> QED
  BY <1>1, <1>2, <1>4, <1>5

\* One memory is rewritten: its place and its text stay.
LEMMA RewriteLasts ==
  ASSUME StoreInv, NEW id \in Ids, NEW m \in Memory, Keeps(memories[id], m),
         memories' = [memories EXCEPT ![id] = m]
  PROVE  Lasts /\ Ids' = Ids /\ Len(memories') = Len(memories) /\ Len(memories) \in Nat
<1>1. memories \in Seq(Memory)
  BY DEF StoreInv
<1>2. Len(memories) \in Nat
  BY <1>1, IdsAre
<1> QED
  BY <1>1, <1>2, Rewritten DEF Lasts, Ids

\* A step that rewrites one memory.
LEMMA RewriteStep ==
  ASSUME StoreInv, NEW id \in Ids, NEW m \in Memory, Keeps(memories[id], m),
         memories' = [memories EXCEPT ![id] = m], tombstones' \subseteq Ids,
         writing' \in [Writer -> Transaction],
         \A w \in Writer : writing'[w] = writing[w] \/ Holds(writing[w])',
         IsFiniteSet(Pending'), Len(memories) + Cardinality(Pending') <= MaxRecords
  PROVE  StoreInv' /\ Lasts /\ Ids' = Ids
<1>1. Lasts /\ Ids' = Ids /\ Len(memories') = Len(memories) /\ Len(memories) \in Nat
  BY RewriteLasts
<1>2. Room'
  BY <1>1 DEF Room
<1> QED
  BY <1>1, <1>2, StoreStep

LEMMA AppendProvenanceStep ==
  ASSUME StoreInv, NEW w \in Writer, append_provenance(w)
  PROVE  StoreInv' /\ Lasts /\ Ids' = Ids
<1> DEFINE t == writing[w]
           id == t.target
           provenance == t.provenance \union {Proposals[t.proposal].source}
           m == [memories[id] EXCEPT !.provenance = provenance]
<1>1. t \in Transaction /\ id \in Ids /\ t.proposal \in DOMAIN Proposals
  BY DEF StoreInv, Holds, append_provenance
<1>2. provenance \in (SUBSET Source) \ {{}}
  BY <1>1, ProposalTyped DEF Transaction
<1>3. memories[id] \in Memory
  BY <1>1, IdsAre DEF StoreInv
<1>4. /\ memories' = [memories EXCEPT ![id] = m] /\ UNCHANGED tombstones
      /\ writing' = [writing EXCEPT ![w] = NotWriting]
  BY DEF append_provenance
<1> HIDE DEF t, id, provenance
<1>5. m \in Memory /\ Keeps(memories[id], m)
  BY <1>2, <1>3 DEF Memory, Keeps
<1> HIDE DEF m
<1>6. /\ IsFiniteSet(Pending') /\ Cardinality(Pending') \in Nat /\ Cardinality(Pending) \in Nat
      /\ Cardinality(Pending') <= Cardinality(Pending)
  BY <1>4, EndMoves
<1>7. Len(memories) + Cardinality(Pending') <= MaxRecords
  <2>1. Len(memories) + Cardinality(Pending) <= MaxRecords /\ MaxRecords \in Nat /\ Len(memories) \in Nat
    BY IdsAre, MemoryStoreAssumption DEF StoreInv, Room
  <2> QED
    BY <1>6, <2>1
<1> QED
  BY <1>1, <1>4, <1>5, <1>6, <1>7, EndMoves, RewriteStep DEF StoreInv

LEMMA CandidateTyped ==
  ASSUME NEW t \in Transaction, t.proposal \in DOMAIN Proposals, t.state # "", NEW id \in Nat
  PROVE  LET m == record_from_candidate(t, id)
         IN  /\ m \in Memory /\ m.supersedes = t.supersedes /\ m.revision = 1 /\ m.saw = t.saw
             /\ m.group = (IF t.group = Fresh THEN id ELSE t.group) /\ m.proposal = t.proposal
             /\ m.trust = Proposals[t.proposal].trust
<1> DEFINE p == Proposals[t.proposal]
           group == IF t.group = Fresh THEN id ELSE t.group
           m == record_from_candidate(t, id)
<1>1. p.text \in Text /\ p.trust \in DOMAIN TrustRank /\ p.source \in Source /\ p.now \in Nat
  BY ProposalTyped
<1>2. group \in Nat /\ t.saw \in Nat /\ t.supersedes \in Nat
      /\ t.state \in {"ACTIVE", "SUPERSEDED", "RETRACTED", "QUARANTINED"}
  BY DEF Transaction
<1>3. {p.source} \in (SUBSET Source) \ {{}}
  BY <1>1
<1>4. m = [proposal |-> t.proposal, text |-> p.text, trust |-> p.trust, state |-> t.state, pinned |-> FALSE,
           supersedes |-> t.supersedes, group |-> group, revision |-> 1, valid_from |-> p.now,
           provenance |-> {p.source}, saw |-> t.saw]
  BY DEF record_from_candidate
<1> HIDE DEF p, group, m
<1>5. m \in Memory
  BY <1>1, <1>2, <1>3, <1>4 DEF Memory
<1>6. /\ m.supersedes = t.supersedes /\ m.revision = 1 /\ m.saw = t.saw /\ m.group = group
      /\ m.proposal = t.proposal /\ m.trust = p.trust
  BY <1>4
<1> QED
  BY <1>5, <1>6, Zenon DEF m, group, p

\* A memory comes behind the others.
LEMMA GrowthLasts ==
  ASSUME StoreInv, NEW old \in Seq(Memory), Len(old) = Len(memories), NEW m \in Memory,
         memories' = Append(old, m),
         \A id \in Ids : Keeps(memories[id], old[id])
  PROVE  /\ Lasts /\ Len(memories) \in Nat /\ Len(memories') = Len(memories) + 1
         /\ Ids' = Ids \union {Len(memories) + 1} /\ memories'[Len(memories) + 1] = m
<1>1. Len(memories) \in Nat /\ Ids = 1..Len(memories)
  BY IdsAre DEF StoreInv
<1>2. /\ memories' \in Seq(Memory) /\ Len(memories') = Len(memories) + 1
      /\ Ids' = 1..(Len(memories) + 1)
      /\ memories'[Len(memories) + 1] = m /\ \A i \in Ids : memories'[i] = old[i]
  BY <1>1, RowAdded DEF Ids
<1>3. Ids' = Ids \union {Len(memories) + 1} /\ Len(memories) <= Len(memories')
  BY <1>1, <1>2
<1>4. Lasts
  BY <1>2, <1>3 DEF Lasts
<1> QED
  BY <1>1, <1>2, <1>3, <1>4

\* A step that writes a memory behind the others.
LEMMA GrowthStep ==
  ASSUME StoreInv, NEW old \in Seq(Memory), Len(old) = Len(memories),
         \A id \in Ids : Keeps(memories[id], old[id]),
         NEW m \in Memory, memories' = Append(old, m), UNCHANGED tombstones,
         NEW new, new = Len(memories) + 1,
         m.supersedes < new, m.group <= new, m.revision \in 1..new, m.saw < new,
         writing' \in [Writer -> Transaction],
         \A w \in Writer : writing'[w] = writing[w] \/ Holds(writing[w])',
         IsFiniteSet(Pending'), new + Cardinality(Pending') <= MaxRecords
  PROVE  StoreInv' /\ Lasts /\ Ids' = Ids \union {new} /\ memories'[new] = m
<1>1. /\ Lasts /\ Len(memories') = new /\ Ids' = Ids \union {new} /\ memories'[new] = m
  BY GrowthLasts
<1>2. Placed(new)'
  BY <1>1 DEF Placed
<1>3. ASSUME NEW id \in Ids' \ Ids PROVE Placed(id)'
  <2>1. id = new
    BY <1>1
  <2> QED
    BY <1>2, <2>1
<1>4. Room'
  BY <1>1 DEF Room
<1>5. tombstones' \subseteq Ids'
  BY <1>1 DEF StoreInv
<1> QED
  BY <1>1, <1>3, <1>4, <1>5, StoreStep

LEMMA CommitCandidateStep ==
  ASSUME StoreInv, NEW w \in Writer, commit_candidate(w), NEW new, new = Len(memories) + 1
  PROVE  /\ StoreInv' /\ Lasts /\ Ids' = Ids \union {new}
         /\ memories'[new] = record_from_candidate(writing[w], new)
<1>1. PICK t : t = writing[w]
  OBVIOUS
<1>2. PICK m : m = record_from_candidate(t, new)
  OBVIOUS
<1>3. /\ t \in Transaction /\ t.proposal \in DOMAIN Proposals /\ t.state # "" /\ t.pc = "inserting"
      /\ t.supersedes <= Len(memories) /\ t.group <= Len(memories) /\ t.saw <= Len(memories)
  BY <1>1 DEF StoreInv, Holds, commit_candidate
<1>4. Len(memories) \in Nat /\ memories \in Seq(Memory) /\ \A i \in Ids : Keeps(memories[i], memories[i])
  BY IdsAre DEF StoreInv, Keeps
<1>5. /\ memories' = Append(memories, m) /\ UNCHANGED tombstones
      /\ writing' = [writing EXCEPT ![w] = NotWriting]
  BY <1>1, <1>2 DEF commit_candidate
<1>6. new \in Nat
  <2>1. Len(memories) \in Nat
    BY <1>4
  <2> QED
    BY <2>1
<1>7. /\ m \in Memory /\ m.supersedes = t.supersedes /\ m.revision = 1 /\ m.saw = t.saw
      /\ m.group = (IF t.group = Fresh THEN new ELSE t.group)
  BY <1>2, <1>3, <1>6, CandidateTyped
<1>8. m.supersedes < new /\ m.group <= new /\ m.revision \in 1..new /\ m.saw < new
  <2>1. t.supersedes \in Nat /\ t.saw \in Nat /\ t.group \in Nat \union {Fresh}
    BY <1>3 DEF Transaction
  <2>2. Len(memories) \in Nat
    BY <1>4
  <2>3. m.group <= new
    <3>1. CASE t.group = Fresh
      BY <1>6, <1>7, <3>1
    <3>2. CASE t.group # Fresh
      <4>1. t.group \in Nat /\ t.group <= Len(memories) /\ m.group = t.group
        BY <1>3, <1>7, <2>1, <3>2, Zenon
      <4> QED
        BY <2>2, <4>1
    <3> QED
      BY <3>1, <3>2
  <2>4. m.supersedes < new /\ m.saw < new
    <3>1. m.supersedes = t.supersedes /\ t.supersedes <= Len(memories)
      BY <1>3, <1>7
    <3>2. m.saw = t.saw /\ t.saw <= Len(memories)
      BY <1>3, <1>7
    <3> QED
      BY <2>1, <2>2, <3>1, <3>2
  <2>5. m.revision \in 1..new
    BY <1>7, <2>2
  <2> QED
    BY <2>3, <2>4, <2>5
<1>9. /\ IsFiniteSet(Pending') /\ Cardinality(Pending) \in Nat
      /\ Cardinality(Pending') = Cardinality(Pending) - 1
  BY <1>1, <1>3, <1>5, EndMoves
<1>10. new + Cardinality(Pending') <= MaxRecords
  <2>1. Len(memories) + Cardinality(Pending) <= MaxRecords /\ MaxRecords \in Nat
    BY MemoryStoreAssumption DEF StoreInv, Room
  <2> QED
    BY <1>4, <1>9, <2>1
<1>11. /\ writing' \in [Writer -> Transaction]
       /\ \A v \in Writer : writing'[v] = writing[v] \/ Holds(writing[v])'
  BY <1>5, EndMoves
<1>12. StoreInv' /\ Lasts /\ Ids' = Ids \union {new} /\ memories'[new] = m
  BY <1>4, <1>5, <1>7, <1>8, <1>9, <1>10, <1>11, GrowthStep
<1> QED
  BY <1>1, <1>2, <1>12

-----------------------------------------------------------------------------
(* Commands *)

\* What the commands leave of the transactions.
LEMMA NoWriterMoves ==
  ASSUME StoreInv, UNCHANGED writing
  PROVE  /\ writing' \in [Writer -> Transaction]
         /\ \A v \in Writer : writing'[v] = writing[v] \/ Holds(writing[v])'
         /\ Pending' = Pending /\ IsFiniteSet(Pending) /\ Cardinality(Pending) \in Nat
         /\ Len(memories) + Cardinality(Pending') <= MaxRecords
<1>1. Pending' = Pending
  BY DEF Pending
<1> QED
  BY <1>1, FS_CardinalityType DEF StoreInv, Room

Revision(before, id, n, correction) ==
  [before EXCEPT !.text = correction.text, !.trust = correction.trust,
     !.state = "ACTIVE", !.supersedes = id, !.revision = @ + 1, !.valid_from = correction.now,
     !.provenance = {"MEMORY_COMMAND"}, !.saw = n]

LEMMA RevisionTyped ==
  ASSUME NEW before \in Memory, NEW id \in Nat, NEW n \in Nat, NEW correction \in Corrections
  PROVE  LET m == Revision(before, id, n, correction)
         IN  /\ m \in Memory /\ m.supersedes = id /\ m.revision = before.revision + 1
             /\ m.saw = n /\ m.group = before.group
<1>1. correction.text \in Text /\ correction.trust \in DOMAIN TrustRank /\ correction.now \in Nat
  BY MemoryStoreAssumption DEF Text
<1>2. {"MEMORY_COMMAND"} \in (SUBSET Source) \ {{}}
  BY DEF Source
<1>3. before.revision + 1 \in Nat
  BY DEF Memory
<1> QED
  BY <1>1, <1>2, <1>3 DEF Memory, Revision

LEMMA ReviseStep ==
  ASSUME StoreInv, NEW id \in Ids, NEW correction \in Corrections, revise(id, correction),
         NEW new, new = Len(memories) + 1
  PROVE  /\ StoreInv' /\ Lasts /\ Ids' = Ids \union {new}
         /\ memories'[new].supersedes = id /\ memories'[new].revision = memories[id].revision + 1
<1>1. PICK before : before = memories[id]
  OBVIOUS
<1>2. PICK n : n = Len(memories)
  OBVIOUS
<1>3. PICK closed : closed = [before EXCEPT !.state = "SUPERSEDED"]
  OBVIOUS
<1>4. PICK m : m = Revision(before, id, n, correction)
  OBVIOUS
<1>5. PICK old : old = [memories EXCEPT ![id] = closed]
  OBVIOUS
<1>6. n \in Nat /\ id \in 1..n /\ memories \in Seq(Memory) /\ before \in Memory
  BY <1>1, <1>2, IdsAre DEF StoreInv
<1>7. before.group <= id /\ before.revision \in 1..id /\ before.group \in Nat
  BY <1>1, <1>6 DEF StoreInv, Placed, Memory
<1>8. closed \in Memory /\ Keeps(before, closed)
  BY <1>3, <1>6 DEF Memory, Keeps
<1>9. /\ memories' = Append(old, m) /\ UNCHANGED <<tombstones, writing>>
      /\ n + Cardinality(Pending) < MaxRecords
  BY <1>1, <1>2, <1>3, <1>4, <1>5 DEF revise, Revision
<1>10. /\ m \in Memory /\ m.supersedes = id /\ m.revision = before.revision + 1
       /\ m.saw = n /\ m.group = before.group
  <2>1. id \in Nat /\ n \in Nat /\ before \in Memory
    BY <1>6
  <2> QED
    BY <1>4, <2>1, RevisionTyped, SMTT(60)
<1>11. old \in Seq(Memory) /\ Len(old) = n /\ \A i \in Ids : Keeps(memories[i], old[i])
  BY <1>1, <1>2, <1>5, <1>6, <1>8, Rewritten
<1>12. m.supersedes < new /\ m.group <= new /\ m.revision \in 1..new /\ m.saw < new
  BY <1>2, <1>6, <1>7, <1>10
<1>13. new + Cardinality(Pending') <= MaxRecords /\ IsFiniteSet(Pending')
  <2>1. Cardinality(Pending) \in Nat /\ Pending' = Pending /\ MaxRecords \in Nat /\ IsFiniteSet(Pending)
    BY <1>9, NoWriterMoves, MemoryStoreAssumption
  <2> QED
    BY <1>2, <1>6, <1>9, <2>1
<1>14. StoreInv' /\ Lasts /\ Ids' = Ids \union {new} /\ memories'[new] = m
  BY <1>2, <1>9, <1>10, <1>11, <1>12, <1>13, NoWriterMoves, GrowthStep
<1> QED
  BY <1>1, <1>10, <1>14

LEMMA ForgetStep ==
  ASSUME StoreInv, NEW id \in Ids, forget(id)
  PROVE  StoreInv' /\ Lasts /\ Ids' = Ids
<1> DEFINE m == [memories[id] EXCEPT !.state = "RETRACTED"]
<1>1. memories[id] \in Memory /\ tombstones \subseteq Ids
  BY IdsAre DEF StoreInv
<1>2. m \in Memory /\ Keeps(memories[id], m)
  BY <1>1 DEF Memory, Keeps
<1>3. memories' = [memories EXCEPT ![id] = m] /\ tombstones' \subseteq Ids /\ UNCHANGED writing
  BY <1>1 DEF forget
<1> HIDE DEF m
<1> QED
  BY <1>2, <1>3, NoWriterMoves, RewriteStep

LEMMA PinStep ==
  ASSUME StoreInv, NEW id \in Ids, NEW pinned \in BOOLEAN, pin(id, pinned)
  PROVE  StoreInv' /\ Lasts /\ Ids' = Ids
<1> DEFINE m == [memories[id] EXCEPT !.pinned = pinned]
<1>1. memories[id] \in Memory /\ tombstones \subseteq Ids
  BY IdsAre DEF StoreInv
<1>2. m \in Memory /\ Keeps(memories[id], m)
  BY <1>1 DEF Memory, Keeps
<1>3. memories' = [memories EXCEPT ![id] = m] /\ tombstones' \subseteq Ids /\ UNCHANGED writing
  BY <1>1 DEF pin
<1> HIDE DEF m
<1> QED
  BY <1>2, <1>3, NoWriterMoves, RewriteStep

-----------------------------------------------------------------------------
(* The invariant *)

LEMMA StoreInvInit == MemoryInit => StoreInv
<1> SUFFICES ASSUME MemoryInit PROVE StoreInv
  OBVIOUS
<1>1. memories \in Seq(Memory) /\ Len(memories) = 0 /\ Ids = {} /\ tombstones = {}
  BY DEF MemoryInit, Ids
<1>2. NotWriting \in Transaction /\ Holds(NotWriting) /\ NotWriting.pc = "idle"
  BY NotWritingTyped DEF NotWriting
<1>3. writing \in [Writer -> Transaction] /\ \A w \in Writer : writing[w] = NotWriting
  BY <1>2 DEF MemoryInit
<1>4. Pending = {}
  BY <1>2, <1>3 DEF Pending
<1>5. Room
  BY <1>1, <1>4, FS_EmptySet, MemoryStoreAssumption DEF Room
<1> QED
  BY <1>1, <1>2, <1>3, <1>5 DEF StoreInv

LEMMA StoreInvStep == StoreInv /\ [MemoryNext]_memoryVars => StoreInv'
<1> SUFFICES ASSUME StoreInv, [MemoryNext]_memoryVars PROVE StoreInv'
  OBVIOUS
<1>1. ASSUME NEW w \in Writer, NEW q \in DOMAIN Proposals, Begin(w, q) PROVE StoreInv'
  BY <1>1, BeginStep
<1>2. ASSUME NEW w \in Writer, append_provenance(w) PROVE StoreInv'
  BY <1>2, AppendProvenanceStep
<1>3. ASSUME NEW w \in Writer, commit_candidate(w) PROVE StoreInv'
  <2>1. PICK new : new = Len(memories) + 1
    OBVIOUS
  <2> QED
    BY <1>3, <2>1, CommitCandidateStep
<1>4. ASSUME NEW w \in Writer, RollBack(w) PROVE StoreInv'
  BY <1>4, RollBackStep
<1>5. ASSUME NEW id \in Ids, NEW correction \in Corrections, revise(id, correction) PROVE StoreInv'
  <2>1. PICK new : new = Len(memories) + 1
    OBVIOUS
  <2> QED
    BY <1>5, <2>1, ReviseStep
<1>6. ASSUME NEW id \in Ids, forget(id) PROVE StoreInv'
  BY <1>6, ForgetStep
<1>7. ASSUME NEW id \in Ids, NEW pinned \in BOOLEAN, pin(id, pinned) PROVE StoreInv'
  BY <1>7, PinStep
<1>8. CASE UNCHANGED memoryVars
  BY <1>8, StoreStutters
<1> QED
  BY <1>1, <1>2, <1>3, <1>4, <1>5, <1>6, <1>7, <1>8 DEF MemoryNext

LEMMA StoreInvAlways == MemorySpec => []StoreInv
<1> QED
  BY StoreInvInit, StoreInvStep, PTL DEF MemorySpec

\* Every row of the store is one that the code writes, and points back only.
THEOREM StoreTypeCorrect == MemorySpec => []MemoryTypeOK
<1>1. ASSUME StoreInv PROVE MemoryTypeOK
  <2>1. Len(memories) \in Nat /\ Ids = 1..Len(memories) /\ Len(memories) <= MaxRecords /\ MaxRecords \in Nat
    <3>1. Len(memories) \in Nat /\ Ids = 1..Len(memories)
      BY <1>1, IdsAre DEF StoreInv
    <3>2. Len(memories) + Cardinality(Pending) <= MaxRecords /\ Cardinality(Pending) \in Nat
      BY <1>1, FS_CardinalityType DEF StoreInv, Room
    <3> QED
      BY <3>1, <3>2, MemoryStoreAssumption
  <2>2. ASSUME NEW id \in Ids
        PROVE  LET m == memories[id]
               IN  /\ m.state \in MemoryState \ {"PROPOSED", "EXPIRED", "INVALIDATED"}
                   /\ m.trust \in DOMAIN TrustRank /\ m.pinned \in BOOLEAN
                   /\ m.proposal \in DOMAIN Proposals
                   /\ m.supersedes \in 0..(id - 1) /\ m.group \in 0..id
                   /\ m.revision \in 1..MaxRecords /\ m.valid_from \in Nat
                   /\ m.provenance # {}
    <3> DEFINE m == memories[id]
    <3>1. m \in Memory /\ id \in 1..Len(memories)
      BY <1>1, <2>1, IdsAre DEF StoreInv
    <3>2. /\ m.supersedes < id /\ m.group <= id /\ m.revision \in 1..id
      BY <1>1 DEF StoreInv, Placed
    <3> HIDE DEF m
    <3>3. /\ m.state \in MemoryState \ {"PROPOSED", "EXPIRED", "INVALIDATED"}
          /\ m.trust \in DOMAIN TrustRank /\ m.pinned \in BOOLEAN
          /\ m.proposal \in DOMAIN Proposals /\ m.supersedes \in Nat /\ m.group \in Nat
          /\ m.valid_from \in Nat /\ m.provenance # {}
      BY <3>1 DEF Memory, MemoryState
    <3>4. /\ m.supersedes \in 0..(id - 1) /\ m.group \in 0..id /\ m.revision \in 1..MaxRecords
      BY <2>1, <3>1, <3>2, <3>3
    <3> QED
      BY <3>3, <3>4 DEF m
  <2>3. ASSUME NEW w \in Writer
        PROVE  /\ writing[w].pc \in {"idle", "merging", "inserting"}
               /\ writing[w].target \in Ids \union {Nil}
    BY <1>1 DEF StoreInv, Holds, Transaction
  <2> QED
    BY <1>1, <2>1, <2>2, <2>3 DEF MemoryTypeOK, StoreInv
<1> QED
  BY <1>1, StoreInvAlways, PTL

-----------------------------------------------------------------------------
(* Contradictions *)

Contradict(a, b) == /\ Active(a) /\ Active(b) /\ a < b /\ SameSubject(a, b)
                    /\ memories[a].text # memories[b].text /\ a <= memories[b].saw

IsMarked(b) == \/ memories[b].group # Nil
               \/ /\ memories[b].supersedes # Nil
                  /\ memories[b].revision = 1 =>
                       TrustRank[memories[b].trust] >= TrustRank[memories[memories[b].supersedes].trust]

LEMMA MarkedAre == ContradictionIsMarked <=> \A a, b \in Ids : Contradict(a, b) => IsMarked(b)
BY DEF ContradictionIsMarked, Contradict, IsMarked

\* What was marked, or did not contradict, stays so.
LEMMA MarksLast ==
  ASSUME StoreInv, Lasts, ContradictionIsMarked, NEW a \in Ids, NEW b \in Ids, Contradict(a, b)'
  PROVE  IsMarked(b)'
<1>1. Keeps(memories[a], memories'[a]) /\ Keeps(memories[b], memories'[b])
  BY DEF Lasts
<1>2. Contradict(a, b)
  BY <1>1 DEF Contradict, Active, SameSubject, Prop, Keeps
<1>3. IsMarked(b)
  BY <1>2, MarkedAre
<1>4. memories[b].supersedes # Nil => memories[b].supersedes \in Ids
  <2>1. b \in 1..Len(memories) /\ Len(memories) \in Nat /\ Ids = 1..Len(memories) /\ memories[b] \in Memory
    BY IdsAre DEF StoreInv
  <2>2. memories[b].supersedes \in Nat /\ memories[b].supersedes < b
    BY <2>1 DEF StoreInv, Placed, Memory
  <2> QED
    BY <2>1, <2>2 DEF Nil
<1>5. memories[b].supersedes # Nil =>
        memories'[memories[b].supersedes].trust = memories[memories[b].supersedes].trust
  BY <1>4 DEF Lasts, Keeps
<1> QED
  BY <1>1, <1>3, <1>5 DEF IsMarked, Keeps

\* What the transactions hold of their plans marks the memory that is written.
LEMMA WrittenIsMarked ==
  ASSUME StoreInv, NEW w \in Writer, commit_candidate(w), NEW new, new = Len(memories) + 1,
         NEW a \in Ids, Contradict(a, new)'
  PROVE  IsMarked(new)'
<1>1. PICK t : t = writing[w]
  OBVIOUS
<1>2. PICK m : m = record_from_candidate(t, new)
  OBVIOUS
<1>3. /\ t \in Transaction /\ t.proposal \in DOMAIN Proposals /\ t.state # "" /\ Marks(t)
      /\ t.supersedes <= Len(memories)
  BY <1>1 DEF StoreInv, Holds, commit_candidate
<1>4. Len(memories) \in Nat /\ Ids = 1..Len(memories) /\ new \in Nat
  BY IdsAre DEF StoreInv
<1>5. /\ m \in Memory /\ m.supersedes = t.supersedes /\ m.revision = 1 /\ m.saw = t.saw
      /\ m.group = (IF t.group = Fresh THEN new ELSE t.group) /\ m.proposal = t.proposal
      /\ m.trust = Proposals[t.proposal].trust
  BY <1>2, <1>3, <1>4, CandidateTyped
<1>6. Lasts /\ memories'[new] = m
  BY <1>1, <1>2, CommitCandidateStep
<1>7. Active(a) /\ About(Prop(a), Proposals[t.proposal]) /\ a <= t.saw
  <2>1. Keeps(memories[a], memories'[a])
    BY <1>6 DEF Lasts
  <2> QED
    BY <1>5, <1>6, <2>1 DEF Contradict, Active, SameSubject, About, Prop, Keeps
<1>8. t.supersedes # Nil => memories'[t.supersedes].trust = memories[t.supersedes].trust
  <2>1. t.supersedes \in Nat
    BY <1>3 DEF Transaction
  <2>2. t.supersedes # 0 => t.supersedes \in 1..Len(memories)
    <3>1. Len(memories) \in Nat /\ t.supersedes <= Len(memories)
      BY <1>3, <1>4
    <3> QED
      BY <2>1, <3>1
  <2>3. t.supersedes # Nil => t.supersedes \in Ids
    BY <1>4, <2>2 DEF Nil
  <2> QED
    BY <1>6, <2>3 DEF Lasts, Keeps
<1>9. \/ t.group # Nil
      \/ /\ t.supersedes # Nil
         /\ TrustRank[Proposals[t.proposal].trust] >= TrustRank[memories[t.supersedes].trust]
  BY <1>3, <1>7 DEF Marks
<1>10. t.group # Nil => m.group # Nil
  BY <1>4, <1>5 DEF Nil
<1> QED
  BY <1>5, <1>6, <1>8, <1>9, <1>10 DEF IsMarked

\* A revision points to the memory it revises.
LEMMA RevisedIsMarked ==
  ASSUME StoreInv, NEW id \in Ids, NEW correction \in Corrections, revise(id, correction),
         NEW new, new = Len(memories) + 1
  PROVE  IsMarked(new)'
<1>1. memories'[new].supersedes = id /\ memories'[new].revision = memories[id].revision + 1
  BY ReviseStep
<1>2. id \in 1..Len(memories) /\ Len(memories) \in Nat /\ memories[id].revision \in 1..id
  BY IdsAre DEF StoreInv, Placed
<1> QED
  BY <1>1, <1>2 DEF IsMarked, Nil

\* Where a step adds no memory, the marks last.
LEMMA NoneAdded ==
  ASSUME StoreInv, Lasts, Ids' = Ids, ContradictionIsMarked
  PROVE  ContradictionIsMarked'
BY MarksLast DEF ContradictionIsMarked, Contradict, IsMarked

\* Where it adds one, that one has to be marked.
LEMMA OneAdded ==
  ASSUME StoreInv, StoreInv', Lasts, ContradictionIsMarked, NEW new, Ids' = Ids \union {new},
         new = Len(memories) + 1, \A a \in Ids : Contradict(a, new)' => IsMarked(new)'
  PROVE  ContradictionIsMarked'
<1> SUFFICES ASSUME NEW a \in Ids', NEW b \in Ids', Contradict(a, b)' PROVE IsMarked(b)'
  BY DEF ContradictionIsMarked, Contradict, IsMarked
<1>1. Len(memories) \in Nat /\ Ids = 1..Len(memories)
  BY IdsAre DEF StoreInv
<1>2. a < b
  BY DEF Contradict
<1>3. a \in Ids
  BY <1>1, <1>2
<1>4. CASE b \in Ids
  BY <1>3, <1>4, MarksLast
<1>5. CASE b = new
  BY <1>3, <1>5
<1> QED
  BY <1>4, <1>5

LEMMA ContradictionStep ==
  StoreInv /\ ContradictionIsMarked /\ [MemoryNext]_memoryVars => ContradictionIsMarked'
<1> SUFFICES ASSUME StoreInv, ContradictionIsMarked, [MemoryNext]_memoryVars
             PROVE  ContradictionIsMarked'
  OBVIOUS
<1>1. PICK new : new = Len(memories) + 1
  OBVIOUS
<1>2. CASE UNCHANGED memories
  BY <1>2, SameLasts, NoneAdded DEF Ids
<1>3. ASSUME NEW w \in Writer, append_provenance(w) PROVE ContradictionIsMarked'
  BY <1>3, AppendProvenanceStep, NoneAdded
<1>4. ASSUME NEW w \in Writer, commit_candidate(w) PROVE ContradictionIsMarked'
  BY <1>1, <1>4, CommitCandidateStep, WrittenIsMarked, OneAdded
<1>5. ASSUME NEW id \in Ids, NEW correction \in Corrections, revise(id, correction)
      PROVE  ContradictionIsMarked'
  BY <1>1, <1>5, ReviseStep, RevisedIsMarked, OneAdded
<1>6. ASSUME NEW id \in Ids, forget(id) PROVE ContradictionIsMarked'
  BY <1>6, ForgetStep, NoneAdded
<1>7. ASSUME NEW id \in Ids, NEW pinned \in BOOLEAN, pin(id, pinned) PROVE ContradictionIsMarked'
  BY <1>7, PinStep, NoneAdded
<1> QED
  BY <1>2, <1>3, <1>4, <1>5, <1>6, <1>7 DEF MemoryNext, memoryVars, Begin, RollBack

\* Of two memories that contradict each other the later one is marked, in every history of
\* proposals, commands and roll-backs.
THEOREM ContradictionMarked == MemorySpec => []ContradictionIsMarked
<1>1. MemoryInit => ContradictionIsMarked
  BY DEF MemoryInit, ContradictionIsMarked, Ids
<1> QED
  BY <1>1, StoreInvInit, StoreInvStep, ContradictionStep, PTL DEF MemorySpec

-----------------------------------------------------------------------------
(* Recall *)

LEMMA SortKeys ==
  ASSUME StoreInv, NEW id \in Ids
  PROVE  Importance(id) \in Nat /\ memories[id].valid_from \in Nat /\ id \in Nat
<1>1. memories[id] \in Memory /\ id \in Nat
  BY IdsAre DEF StoreInv
<1>2. memories[id].proposal \in DOMAIN Proposals /\ memories[id].valid_from \in Nat
  BY <1>1 DEF Memory
<1>3. clamp_importance[memories[id].proposal] \in 0..10
  BY <1>2, MemoryStoreAssumption
<1> QED
  BY <1>1, <1>2, <1>3 DEF Importance

\* The order of the hits is a strict total one.
LEMMA Irreflexive ==
  ASSUME StoreInv, NEW a \in Ids
  PROVE  ~ Before(a, a)
BY SortKeys DEF Before

LEMMA Transitive ==
  ASSUME StoreInv, NEW a \in Ids, NEW b \in Ids, NEW c \in Ids, Before(a, b), Before(b, c)
  PROVE  Before(a, c)
BY SortKeys DEF Before

LEMMA TotalOrder ==
  ASSUME StoreInv, NEW a \in Ids, NEW b \in Ids, a # b
  PROVE  Before(a, b) \/ Before(b, a)
BY SortKeys DEF Before

Ahead(ids, id) == {other \in ids : Before(other, id)}

LEMMA AheadCounts ==
  ASSUME StoreInv, NEW ids \in SUBSET Ids
  PROVE  /\ IsFiniteSet(ids) /\ Cardinality(ids) \in Nat
         /\ \A id \in ids : /\ IsFiniteSet(Ahead(ids, id)) /\ Cardinality(Ahead(ids, id)) \in Nat
                            /\ Cardinality(Ahead(ids, id)) < Cardinality(ids)
<1>1. IsFiniteSet(ids) /\ Cardinality(ids) \in Nat
  <2>1. Len(memories) \in Nat /\ Ids = 1..Len(memories)
    BY IdsAre DEF StoreInv
  <2>2. IsFiniteSet(Ids)
    BY <2>1, FS_Interval
  <2> QED
    BY <2>2, FS_Subset, FS_CardinalityType
<1>2. ASSUME NEW id \in ids
      PROVE  /\ IsFiniteSet(Ahead(ids, id)) /\ Cardinality(Ahead(ids, id)) \in Nat
             /\ Cardinality(Ahead(ids, id)) < Cardinality(ids)
  <2>1. Ahead(ids, id) \in SUBSET ids /\ Ahead(ids, id) # ids
    BY Irreflexive DEF Ahead
  <2>2. IsFiniteSet(Ahead(ids, id)) /\ Cardinality(Ahead(ids, id)) <= Cardinality(ids)
        /\ Cardinality(Ahead(ids, id)) # Cardinality(ids)
    BY <1>1, <2>1, FS_Subset
  <2>3. Cardinality(Ahead(ids, id)) \in Nat
    BY <2>2, FS_CardinalityType
  <2> QED
    BY <1>1, <2>2, <2>3
<1> QED
  BY <1>1, <1>2

\* What is among the best of a set that holds no more is the set.
LEMMA TopOfFew ==
  ASSUME StoreInv, NEW ids \in SUBSET Ids, NEW limit \in Nat, Cardinality(ids) <= limit
  PROVE  Top(ids, limit) = ids
<1>1. ASSUME NEW id \in ids PROVE Cardinality({other \in ids : Before(other, id)}) < limit
  <2>1. /\ Cardinality(ids) \in Nat /\ Cardinality(Ahead(ids, id)) \in Nat
        /\ Cardinality(Ahead(ids, id)) < Cardinality(ids)
    BY AheadCounts
  <2>2. Cardinality(Ahead(ids, id)) < limit
    BY <2>1
  <2> QED
    BY <2>2 DEF Ahead
<1> QED
  BY <1>1 DEF Top

\* The best are never more than asked for: all but the last of them are ahead of the last.
LEMMA TopIsBounded ==
  ASSUME StoreInv, NEW ids \in SUBSET Ids, NEW limit \in Nat
  PROVE  Top(ids, limit) \subseteq ids /\ Cardinality(Top(ids, limit)) <= limit
<1> DEFINE best == Top(ids, limit)
           Left(id) == limit - Cardinality(Ahead(ids, id))
           S == {Left(id) : id \in best}
<1>1. best \subseteq ids /\ \A id \in best : Cardinality(Ahead(ids, id)) < limit
  BY DEF Top, Ahead
<1>2. \A id \in ids : IsFiniteSet(Ahead(ids, id)) /\ Cardinality(Ahead(ids, id)) \in Nat
  BY AheadCounts
<1> HIDE DEF best
<1>3. CASE best = {}
  BY <1>1, <1>3, FS_EmptySet DEF best
<1>4. CASE best # {}
  <2>1. S \subseteq Nat /\ S # {}
    BY <1>1, <1>2, <1>4
  <2>2. PICK s \in S : \A other \in S : s <= other
    BY <2>1, LeastOf
  <2>3. PICK last \in best : s = Left(last)
    BY <2>2
  <2>4. \A id \in best : Cardinality(Ahead(ids, id)) <= Cardinality(Ahead(ids, last))
    <3> TAKE id \in best
    <3>1. Left(last) <= Left(id)
      BY <2>2, <2>3
    <3> QED
      BY <1>1, <1>2, <3>1
  <2>5. best \subseteq Ahead(ids, last) \union {last}
    <3> SUFFICES ASSUME NEW id \in best, id # last, ~ Before(id, last) PROVE FALSE
      BY <1>1 DEF Ahead
    <3>1. id \in Ids /\ last \in Ids
      BY <1>1
    <3>2. Before(last, id)
      BY <3>1, TotalOrder
    <3>3. Ahead(ids, last) \union {last} \subseteq Ahead(ids, id)
      BY <1>1, <3>1, <3>2, Transitive DEF Ahead
    <3>4. last \notin Ahead(ids, last)
      BY <3>1, Irreflexive DEF Ahead
    <3>5. /\ IsFiniteSet(Ahead(ids, last) \union {last})
          /\ Cardinality(Ahead(ids, last) \union {last}) = Cardinality(Ahead(ids, last)) + 1
      BY <1>1, <1>2, <3>4, FS_AddElement
    <3>6. Cardinality(Ahead(ids, last) \union {last}) <= Cardinality(Ahead(ids, id))
      BY <1>1, <1>2, <3>3, FS_Subset
    <3> QED
      BY <1>1, <1>2, <2>4, <3>5, <3>6
  <2>6. /\ IsFiniteSet(Ahead(ids, last) \union {last})
        /\ Cardinality(Ahead(ids, last) \union {last}) <= Cardinality(Ahead(ids, last)) + 1
    <3>1. IsFiniteSet(Ahead(ids, last)) /\ Cardinality(Ahead(ids, last)) \in Nat
      BY <1>1, <1>2
    <3>2. /\ IsFiniteSet(Ahead(ids, last) \union {last})
          /\ Cardinality(Ahead(ids, last) \union {last})
               \in {Cardinality(Ahead(ids, last)), Cardinality(Ahead(ids, last)) + 1}
      BY <3>1, FS_AddElement
    <3> QED
      BY <3>1, <3>2
  <2>7. Cardinality(best) <= Cardinality(Ahead(ids, last) \union {last}) /\ Cardinality(best) \in Nat
    BY <2>5, <2>6, FS_Subset, FS_CardinalityType
  <2>8. Cardinality(Ahead(ids, last) \union {last}) \in Nat
    BY <2>6, FS_CardinalityType
  <2> QED
    BY <1>1, <1>2, <2>6, <2>7, <2>8 DEF best
<1> QED
  BY <1>3, <1>4

\* What recall answers, whichever memory each key finds.
LEMMA RecallAnswers ==
  ASSUME StoreInv, NEW r \in Recalls, NEW reply \in recall(r)
  PROVE  LET matching == {id \in Ids : Valid(r, id)}
         IN  \E expanded \in SUBSET matching :
               /\ reply = [hits |-> Top(expanded, r.max_candidates),
                            truncated |-> Cardinality(expanded) > r.max_candidates]
               /\ \A a \in expanded, b \in matching :
                    memories[a].group # Nil /\ memories[a].group = memories[b].group => b \in expanded
               /\ (\A scope \in r.scopes : Cardinality(Owned(r.owner, scope)) <= r.max_candidates + 1)
                    => expanded = matching
<1> DEFINE matching == {id \in Ids : Valid(r, id)}
<1>1. PICK picks \in ExactKeyPicks(r) :
        LET found == (UNION {find_pinned(r, scope) \union find_recent_active(r, scope) : scope \in r.scopes})
                        \union {picks[place] : place \in DOMAIN picks}
            validated == {id \in found : Valid(r, id)}
            expanded == validated \union Siblings(r, validated)
        IN  reply = [hits |-> Top(expanded, r.max_candidates),
                      truncated |-> Cardinality(expanded) > r.max_candidates]
  BY DEF recall
<1> DEFINE found == (UNION {find_pinned(r, scope) \union find_recent_active(r, scope) : scope \in r.scopes})
                       \union {picks[place] : place \in DOMAIN picks}
           validated == {id \in found : Valid(r, id)}
           expanded == validated \union Siblings(r, validated)
<1>2. reply = [hits |-> Top(expanded, r.max_candidates),
                truncated |-> Cardinality(expanded) > r.max_candidates]
  BY <1>1
<1>3. \A scope : find_pinned(r, scope) \subseteq Ids /\ find_recent_active(r, scope) \subseteq Ids
  BY DEF find_pinned, find_recent_active, Top, Owned
<1>4. \A place \in DOMAIN picks : picks[place] \in Ids
  BY DEF ExactKeyPicks
<1>5. found \subseteq Ids
  <2> DEFINE read == UNION {find_pinned(r, scope) \union find_recent_active(r, scope) : scope \in r.scopes}
             named == {picks[place] : place \in DOMAIN picks}
  <2>1. read \subseteq Ids
    <3> SUFFICES ASSUME NEW scope \in r.scopes,
                        NEW id \in find_pinned(r, scope) \union find_recent_active(r, scope)
                 PROVE  id \in Ids
      OBVIOUS
    <3> QED
      BY <1>3
  <2>2. named \subseteq Ids
    BY <1>4
  <2>3. found = read \union named
    OBVIOUS
  <2> HIDE DEF read, named, found
  <2> QED
    BY <2>1, <2>2, <2>3
<1>6. validated = {id \in found : Valid(r, id)}
  OBVIOUS
<1>7. ASSUME NEW scope \in r.scopes PROVE find_recent_active(r, scope) \subseteq found
  <2>1. find_pinned(r, scope) \union find_recent_active(r, scope)
          \in {find_pinned(r, s) \union find_recent_active(r, s) : s \in r.scopes}
    OBVIOUS
  <2> QED
    BY <2>1
<1> HIDE DEF found
<1>8. Siblings(r, validated) \subseteq matching
  BY DEF Siblings, find_active_by_conflict_group
<1>9. validated \subseteq matching
  BY <1>5
<1> HIDE DEF validated
<1>10. expanded \subseteq matching
  BY <1>8, <1>9
<1>11. ASSUME NEW b \in matching, NEW hit \in validated, memories[hit].group # Nil,
              memories[hit].group = memories[b].group
       PROVE  b \in Siblings(r, validated)
  <2>1. b \in find_active_by_conflict_group(r.owner, memories[hit].group)
    BY <1>11 DEF find_active_by_conflict_group, Valid, revalidate_record
  <2> QED
    BY <1>11, <2>1 DEF Siblings
<1>12. \A a \in Siblings(r, validated) :
         \E hit \in validated : memories[hit].group # Nil /\ memories[a].group = memories[hit].group
  BY DEF Siblings, find_active_by_conflict_group
<1>13. ASSUME NEW a \in expanded, NEW b \in matching,
              memories[a].group # Nil, memories[a].group = memories[b].group
       PROVE  b \in expanded
  <2>1. CASE a \in validated
    BY <1>11, <1>13, <2>1
  <2>2. CASE a \in Siblings(r, validated)
    BY <1>11, <1>12, <1>13, <2>2
  <2> QED
    BY <2>1, <2>2
<1>14. ASSUME \A scope \in r.scopes : Cardinality(Owned(r.owner, scope)) <= r.max_candidates + 1
       PROVE  matching \subseteq expanded
  <2> SUFFICES ASSUME NEW id \in Ids, Valid(r, id) PROVE id \in validated
    OBVIOUS
  <2>1. PICK scope \in r.scopes : scope = Prop(id).scope
    BY DEF Valid, revalidate_record
  <2>2. id \in Owned(r.owner, scope)
    BY <2>1 DEF Valid, revalidate_record, Owned
  <2>3. find_recent_active(r, scope) = Owned(r.owner, scope)
    <3>1. r.max_candidates + 1 \in Nat
      BY MemoryStoreAssumption
    <3>2. Owned(r.owner, scope) \in SUBSET Ids
      BY DEF Owned
    <3> QED
      BY <1>14, <3>1, <3>2, TopOfFew DEF find_recent_active, Limit
  <2> QED
    BY <1>6, <1>7, <2>2, <2>3
<1> QED
  <2> HIDE DEF matching, expanded
  <2>1. /\ expanded \in SUBSET matching
        /\ reply = [hits |-> Top(expanded, r.max_candidates),
                     truncated |-> Cardinality(expanded) > r.max_candidates]
        /\ \A a \in expanded, b \in matching :
             memories[a].group # Nil /\ memories[a].group = memories[b].group => b \in expanded
        /\ (\A scope \in r.scopes : Cardinality(Owned(r.owner, scope)) <= r.max_candidates + 1)
             => expanded = matching
    BY <1>2, <1>10, <1>13, <1>14
  <2> QED
    BY <2>1 DEF matching

\* Every answer of recall is made of matching memories, is no longer than asked for, never
\* keeps one side of a conflict in silence, and is the best of all that match while no scope
\* holds more than recall reads.
THEOREM RecallDefined == MemorySpec => []RecallIsAsDefined
<1>1. ASSUME StoreInv, NEW r \in Recalls, NEW reply \in recall(r), NEW matching,
             matching = {id \in Ids : Valid(r, id)}
      PROVE  /\ reply.hits \subseteq matching /\ Cardinality(reply.hits) <= r.max_candidates
             /\ ~reply.truncated =>
                  \A a \in reply.hits, b \in matching :
                    memories[a].group # Nil /\ memories[a].group = memories[b].group => b \in reply.hits
             /\ (\A scope \in r.scopes : Cardinality(Owned(r.owner, scope)) <= r.max_candidates + 1)
                  => reply = [hits |-> Top(matching, r.max_candidates),
                               truncated |-> Cardinality(matching) > r.max_candidates]
  <2>1. PICK expanded \in SUBSET matching :
          /\ reply = [hits |-> Top(expanded, r.max_candidates),
                       truncated |-> Cardinality(expanded) > r.max_candidates]
          /\ \A a \in expanded, b \in matching :
               memories[a].group # Nil /\ memories[a].group = memories[b].group => b \in expanded
          /\ (\A scope \in r.scopes : Cardinality(Owned(r.owner, scope)) <= r.max_candidates + 1)
               => expanded = matching
    BY <1>1, RecallAnswers
  <2>2. r.max_candidates \in Nat /\ expanded \in SUBSET Ids
    BY <1>1, MemoryStoreAssumption
  <2>3. /\ Top(expanded, r.max_candidates) \subseteq expanded
        /\ Cardinality(Top(expanded, r.max_candidates)) <= r.max_candidates
    BY <1>1, <2>2, TopIsBounded
  <2>4. Cardinality(expanded) \in Nat
    BY <1>1, <2>2, AheadCounts
  <2>5. ~reply.truncated => reply.hits = expanded
    <3>1. ~reply.truncated => Cardinality(expanded) <= r.max_candidates
      <4>1. reply.truncated <=> Cardinality(expanded) > r.max_candidates
        BY <2>1, Zenon
      <4> QED
        BY <2>2, <2>4, <4>1
    <3> QED
      BY <1>1, <2>1, <2>2, <3>1, TopOfFew
  <2>6. reply.hits \subseteq matching /\ Cardinality(reply.hits) <= r.max_candidates
    BY <2>1, <2>3
  <2> QED
    BY <2>1, <2>5, <2>6
<1>2. StoreInv => RecallIsAsDefined
  BY <1>1 DEF RecallIsAsDefined
<1> QED
  BY <1>2, StoreInvAlways, PTL
=============================================================================
